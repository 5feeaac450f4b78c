\* Three calls at once and one after them, on any of four days, every database call may fail.
CONSTANTS
    NoDate = NoDate
    Users = {u1}
    Dates = {1, 2, 3, 4}
    Workers <- FourCalls
    Faults <- AllFaults
    MaxConcurrency = 3
SPECIFICATION BoundedSpec
INVARIANTS
    TypeOK
    StreakWindow
    NeverOvercounts
    CountsEveryPass
    StreakIsExact
PROPERTIES
    NothingTakenBack
\* The calls are finitely many; when they are over nothing is left to do.
CHECK_DEADLOCK FALSE
