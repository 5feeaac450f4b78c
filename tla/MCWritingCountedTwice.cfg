\* One session and a retry, one request at a time.
CONSTANTS
    Null = Null
    u1 = u1
    u2 = u2
    inRange = inRange
    outOfRange = outOfRange
    Owner <- OneOwner
    VersesOf <- OneVerse
    CheckResults <- Answers
    Users = {u1}
    Sessions = {s1}
    VerseIds = {inRange}
    Dates = {1}
    SentDates = {1}
    Requests = {r1, r2}
    Max = 1
    MaxCrashes = 0
    Faults <- SaveFails
SPECIFICATION Spec
INVARIANT OneGrassPerWriting
CHECK_DEADLOCK FALSE
