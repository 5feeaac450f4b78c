\* Three requests for two sessions, from their owner and a stranger, with a date that does
\* not exist and a key verse outside the range; one crash; every call may fail.
CONSTANTS
    Null = Null
    u1 = u1
    u2 = u2
    inRange = inRange
    outOfRange = outOfRange
    Owner <- OneOwner
    VersesOf <- OneVerse
    CheckResults <- Answers
    Users = {u1, u2}
    Sessions = {s1, s2}
    VerseIds = {inRange, outOfRange}
    Dates = {1, 2}
    SentDates = {1, 2, 99}
    Requests = {r1, r2, r3}
    Max = 2
    MaxCrashes = 1
    Faults <- AllFaults
SPECIFICATION Spec
SYMMETRY Symmetry
INVARIANTS
    TypeOK
    OneJobPerSession
    JobOwnsSession
    PassedHasEvidence
PROPERTY SettledIsFinal
\* The requests are finitely many; when they are over nothing is left to do.
CHECK_DEADLOCK FALSE
