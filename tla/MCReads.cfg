\* Two sessions, three requests, two checks at once, a crash, every fault of a check before its
\* verdict is stored, and a client that reads statistics, calendar, verdicts and the list in
\* pages of one.
CONSTANTS
    Null = Null
    u1 = u1
    u2 = u2
    inRange = inRange
    outOfRange = outOfRange
    Owner <- OneOwner
    VersesOf <- OneVerse
    CheckResults <- Verdicts
    Users = {u1}
    Sessions = {s1, s2}
    VerseIds = {inRange}
    Dates = {1, 2}
    SentDates = {1, 2}
    Requests = {r1, r2, r3}
    Max = 2
    MaxCrashes = 1
    Faults <- FaultsBeforeVerdict
    PageLimit = 1
    Times = {1, 2}
SPECIFICATION ReadsSpec
SYMMETRY Symmetry
CONSTRAINT StillReading
INVARIANTS
    GrassMatchesPassed
    ShownStreakIsBacked
    PolledVerdictStands
    PagesSkipNothing
PROPERTY ImplementsLifecycle
CHECK_DEADLOCK FALSE
