------------------------------ MODULE MCCheck ------------------------------
(***************************************************************************)
(* Instances of the handwriting check for TLC: every kind of text Gemini   *)
(* may send, with scores on both sides of each boundary that decides.      *)
(***************************************************************************)
EXTENDS CheckQueue

CONSTANT otherType     \* a string, an object, nothing: no boolean and no number

AnyTexts ==
    {Null, [json |-> FALSE]}
      \cup [json : {TRUE}, isPenHandwriting : {TRUE, otherType},
            similarityScore : {-1, 59, 60, 101, otherType}]
      \cup [json : {TRUE}, isPenHandwriting : {FALSE}, similarityScore : {100}]
=============================================================================
