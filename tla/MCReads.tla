------------------------------ MODULE MCReads ------------------------------
(* A reading client beside the writing service, for TLC. *)
EXTENDS WritingReads, MCWriting

\* The reads tell answers of Gemini apart by their verdict alone.
Verdicts ==
    {ResultOf([json |-> TRUE, isPenHandwriting |-> TRUE, similarityScore |-> score]) :
        score \in {59, 60}}

\* The banner and the last page are judged as they come, and then the client is not followed.
StillReading == screen.pc \notin {"banner", "listed"}

\* When saveStatistics may fail after the verdict was stored, the verdict is revoked, and
\* PolledVerdictStands and PagesSkipNothing do not hold.
FaultsAfterVerdict == FaultsBeforeVerdict \cup SaveFails
=============================================================================
