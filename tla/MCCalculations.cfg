\* Up to four passed writings of stored verses, and three of up to four candidates.
CONSTANTS
    Bible <- TwoBooks
    Ranges <- StoredRanges
    MaxWritings = 4
    RECOMMENDATION_COUNT = 3
    MaxCandidates = 4
SPECIFICATION CalculationsSpec
INVARIANTS
    ProgressIsExact
    CompletedIsCovered
    ShuffleIsUniform
\* The passed writings are bounded.
CHECK_DEADLOCK FALSE
