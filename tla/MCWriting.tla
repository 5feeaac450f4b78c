----------------------------- MODULE MCWriting -----------------------------
(***************************************************************************)
(* Instances of the writing service for TLC.  Requests are interchangeable *)
(* and so are the sessions of one owner whose ranges are alike.            *)
(***************************************************************************)
EXTENDS WritingService, TLC

CONSTANTS u1, u2, inRange, outOfRange

Symmetry == Permutations(Requests) \cup Permutations(Sessions)

OneOwner == [s \in Sessions |-> u1]
OneVerse == [s \in Sessions |-> {inRange}]

\* The results of a text that passes and of three that do not.
Answers ==
    {ResultOf(text) : text \in
        {[json |-> TRUE, isPenHandwriting |-> TRUE, similarityScore |-> 60],
         [json |-> TRUE, isPenHandwriting |-> TRUE, similarityScore |-> 59],
         [json |-> TRUE, isPenHandwriting |-> FALSE, similarityScore |-> 90],
         [json |-> FALSE]}}

NoFaults == {}

\* The row of statistics cannot be saved, after the cell of grass was.
SaveFails == {<<"saveStatistics", "error">>}

Errors(ops) == ops \X {"error"}
AnyFault(ops) == ops \X {"error", "lost"}

StatsCalls == {"findStatistics", "readActivity", "writeActivity", "saveStatistics"}
SessionCalls == {"create", "createSignedUploadUrl", "findById", "claimForProcessing", "inspect",
                 "markCompleted", "markFailed", "failStaleProcessing"}

Reads == {"findById", "createSignedUploadUrl", "inspect"}

(***************************************************************************)
(* Every call may fail, every way; a read that is lost is a read that      *)
(* failed.  Of the statistics service's calls one is enough: a job sees no *)
(* more of them than that recordWriting threw, before or after the grass   *)
(* was painted (MCStats has them all).                                     *)
(***************************************************************************)
AllFaults == AnyFault({"writeActivity"} \cup (SessionCalls \ Reads)) \cup Errors(Reads)

\* Everything but the three calls that leave a session in processing behind.
RecoverableFaults ==
    AnyFault(StatsCalls \cup {"markCompleted"})
      \cup Errors({"findById", "inspect", "claimForProcessing"})
      \cup {<<"markFailed", "lost">>, <<"failStaleProcessing", "lost">>}

(***************************************************************************)
(* Every fault of a check before its verdict is stored: none of them can   *)
(* revoke a verdict.  An answer that nobody acts upon (of markFailed and   *)
(* the sweep) is the same lost as received, and a request whose first read *)
(* fails is the same as one that is refused.                               *)
(***************************************************************************)
FaultsBeforeVerdict ==
    AnyFault({"claimForProcessing"})
      \cup Errors({"inspect", "markCompleted", "markFailed", "failStaleProcessing"})
=============================================================================
