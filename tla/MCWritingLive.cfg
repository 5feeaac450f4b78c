\* Two requests share one slot, two crashes, faults that the job recovers from.
CONSTANTS
    Null = Null
    u1 = u1
    u2 = u2
    inRange = inRange
    outOfRange = outOfRange
    Owner <- OneOwner
    VersesOf <- OneVerse
    CheckResults <- Answers
    Users = {u1}
    Sessions = {s1, s2}
    VerseIds = {inRange}
    Dates = {1}
    SentDates = {1}
    Requests = {r1, r2}
    Max = 1
    MaxCrashes = 2
    Faults <- RecoverableFaults
SPECIFICATION FairSpec
INVARIANT ProcessingHasJob
PROPERTY ProcessingEnds
CHECK_DEADLOCK FALSE
