\* Two concurrent first requests of one user, no failures.
CONSTANTS
    Null = Null
    Keep = Keep
    NotString = NotString
    Claims <- Payloads
    Signed <- SignedTokens
    u1 = u1
    u2 = u2
    fullName = fullName
    chosen = chosen
    picture = picture
    another = another
    Headers <- FirstLogin
    Addresses = {"proxy"}
    Patches <- Changes
    Users = {u1}
    Requests = {r1, r2}
    MaxConcurrency = 2
    MaxRestarts = 0
    Faults <- NoFaults
SPECIFICATION Spec
PROPERTY LoginKeepsName
CHECK_DEADLOCK FALSE
