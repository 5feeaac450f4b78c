\* Three requests for two dates while three verses are loaded in two chunks and a curation is
\* resolved; each script is started twice at most, and every call may fail.
CONSTANTS
    Null = Null
    v1 = v1
    v2 = v2
    v3 = v3
    unknown = unknown
    Dates = {d1, d2}
    Verses = {v1, v2, v3, unknown}
    VerseFile <- ThreeVerses
    EmotionFile <- TwoEmotions
    CHUNK_SIZE = 2
    MaxRuns = 2
    Requests = {r1, r2, r3}
    Faults <- AnyFault
SPECIFICATION DataSpec
SYMMETRY Symmetry
INVARIANTS
    SameVerseForAll
    SeedIsComplete
    ReportIsAccurate
PROPERTIES
    AssignmentIsFinal
    ImplementsOneVersePerDate
\* The requests and the runs of the scripts are finitely many.
CHECK_DEADLOCK FALSE
