\* Three calls over two slots, with and without a key, and every kind of answer.
CONSTANTS
    Null = Null
    otherType = otherType
    Calls = {c1, c2, c3}
    Texts <- AnyTexts
    ApiKeys = {TRUE, FALSE}
    Max = 2
SPECIFICATION FairQueueSpec
INVARIANTS
    TypeOK
    PassesOnGeminisWord
    RequestsBounded
PROPERTIES
    BreakdownsThrow
    QueueDrains
CHECK_DEADLOCK FALSE
