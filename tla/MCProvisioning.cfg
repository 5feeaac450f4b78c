\* Three concurrent requests of two users, one restart, every call may fail.
CONSTANTS
    Null = Null
    Keep = Keep
    NotString = NotString
    Claims <- Payloads
    Signed <- SignedTokens
    u1 = u1
    u2 = u2
    fullName = fullName
    chosen = chosen
    picture = picture
    another = another
    Headers <- AnyHeader
    Addresses = {"proxy", "client"}
    Patches <- Changes
    Users = {u1, u2}
    Requests = {r1, r2, r3}
    MaxConcurrency = 3
    MaxRestarts = 1
    Faults <- AnyFault
SPECIFICATION Spec
SYMMETRY RequestSymmetry
INVARIANTS
    HandlersHaveProfile
    AvatarsMerge
    BucketsMatchUsers
CHECK_DEADLOCK FALSE
