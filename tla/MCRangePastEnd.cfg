\* Ranges that may end one verse past the end of their chapter.
CONSTANTS
    Bible <- TwoBooks
    Ranges <- AnyRanges
    MaxWritings = 2
    RECOMMENDATION_COUNT = 3
    MaxCandidates = 0
SPECIFICATION CalculationsSpec
INVARIANT CompletedIsCovered
CHECK_DEADLOCK FALSE
