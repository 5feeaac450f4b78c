--------------------------- MODULE MCCalculations ---------------------------
(* The service's calculations for TLC: a Bible of two books, and the ranges asked for.      *)
EXTENDS Calculations

\* A book with a chapter of two verses and one of a single verse, and a book of three verses.
TwoBooks == [b \in {1, 2} |-> IF b = 1 THEN {<<1, 1>>, <<1, 2>>, <<2, 1>>}
                              ELSE {<<1, 1>>, <<1, 2>>, <<1, 3>>}]

RangesIn(b, c, numbers) ==
    [bookNo : {b}, chapter : {c}, startVerseNo : numbers, endVerseNo : numbers]

\* Ranges of stored verses, those the wrong way round included.
StoredRanges == RangesIn(1, 1, 1..2) \cup RangesIn(1, 2, {1}) \cup RangesIn(2, 1, 1..3)

\* Ranges that may run past the end of their chapter by one verse; createUploadUrl takes
\* them, and in the place of StoredRanges they violate CompletedIsCovered.
AnyRanges == RangesIn(1, 1, 1..3) \cup RangesIn(1, 2, 1..2) \cup RangesIn(2, 1, 1..4)
=============================================================================
