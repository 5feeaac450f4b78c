---------------------------- MODULE MCDailyVerse ----------------------------
(* The verse of the day and the scripts that load its verses, for TLC. *)
EXTENDS ReferenceData, TLC

CONSTANTS v1, v2, v3, unknown

\* Three verses in chunks of two, and a curation that also names a verse there is not.
ThreeVerses == <<v1, v2, v3>>
TwoEmotions == <<{v3}, {v1, unknown}>>

AnyFault == {"findDailyVerse", "assign", "upsertChunk", "upsertEmotions"} \X {"error", "lost"}
              \cup {"findRandomVerse", "resolveVerseId"} \X {"error"}

Symmetry == Permutations(Requests) \cup Permutations(Dates)
=============================================================================
