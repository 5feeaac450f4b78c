\* Five calls against two slots: the queue grows to three.
CONSTANTS
    Tasks = {t1, t2, t3, t4, t5}
    Max = 2
SPECIFICATION HistFairSpec
INVARIANTS
    TypeOK
    SlotsAreCounted
    QueueIsExact
    NoIdleSlot
PROPERTIES
    ImplementsFifo
    EveryTaskRuns
\* Once every call is done nothing is left to do.
CHECK_DEADLOCK FALSE
