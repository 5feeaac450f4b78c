------------------------- MODULE HandwritingVerdict -------------------------
(***************************************************************************)
(* What the text of a Gemini answer is worth: the normalisation of         *)
(* handwriting-check.service.ts and the verdict processSimilarity draws    *)
(* from it (src/modules/writing).  Only the two fields that decide are     *)
(* kept.  A text is Null when the answer has none, [json |-> FALSE] when   *)
(* it does not parse to something with fields, and otherwise the fields    *)
(* Gemini wrote, of any type: a field of a wrong type, or absent, is a     *)
(* value that is neither a BOOLEAN nor an integer.  Scores are integers    *)
(* here; the code takes any finite number.                                 *)
(***************************************************************************)
EXTENDS Integers

CONSTANT Null          \* null of a score or a text, and of a column

Illegible == [isPenHandwriting |-> FALSE, similarityScore |-> Null]

\* Mutant of ParseSimilarityScore: whatever is not null is kept as it comes.
ParseSimilarityScoreUnclamped(value) == IF value \in Int THEN value ELSE Null

\* No coercion: anything but a finite number is null; numbers are clamped.
ParseSimilarityScore(value) ==
    IF value \notin Int THEN Null
    ELSE IF value < 0 THEN 0
    ELSE IF value > 100 THEN 100
    ELSE value

\* Mutant of ParseResult: any truthy value passes for a pen.
ParseResultTruthy(text) ==
    IF text.json
    THEN [isPenHandwriting |-> text.isPenHandwriting # FALSE,
          similarityScore |-> ParseSimilarityScore(text.similarityScore)]
    ELSE Illegible

ParseResult(text) ==
    IF text.json
    THEN [isPenHandwriting |-> text.isPenHandwriting = TRUE,
          similarityScore |-> ParseSimilarityScore(text.similarityScore)]
    ELSE Illegible

\* The result of an answer that arrived whole, with or without a text.
ResultOf(text) == IF text = Null THEN Illegible ELSE ParseResult(text)

PASS_MIN_SIMILARITY_SCORE == 60

\* The verdict of processSimilarity on a result.
Passes(result) ==
    /\ result.isPenHandwriting
    /\ result.similarityScore # Null
    /\ result.similarityScore >= PASS_MIN_SIMILARITY_SCORE
=============================================================================
