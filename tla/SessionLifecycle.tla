-------------------------- MODULE SessionLifecycle --------------------------
(***************************************************************************)
(* What a client polling GET /writing-sessions/:id may rely on: the        *)
(* lifecycle of a writing session as the API documents it, with no trace   *)
(* of requests, jobs, queue or restarts.  A session is checked, fails and  *)
(* is checked again until one check decides it, once and for all.          *)
(***************************************************************************)
CONSTANT Sessions

VARIABLES status,   \* what the session's row says
          passed    \* the verdict, FALSE until there is one

Init ==
    /\ status = [s \in Sessions |-> "absent"]
    /\ passed = [s \in Sessions |-> FALSE]

Create(s) ==
    /\ status[s] = "absent"
    /\ status' = [status EXCEPT ![s] = "pending"]
    /\ UNCHANGED passed

BeginCheck(s) ==
    /\ status[s] \in {"pending", "failed"}
    /\ status' = [status EXCEPT ![s] = "processing"]
    /\ UNCHANGED passed

Decide(s) ==
    /\ status[s] = "processing"
    /\ status' = [status EXCEPT ![s] = "completed"]
    /\ \E verdict \in BOOLEAN : passed' = [passed EXCEPT ![s] = verdict]

\* A check breaks down; a restart does this to every check under way at once.
BreakDown(S) ==
    /\ S # {}
    /\ \A s \in S : status[s] = "processing"
    /\ status' = [s \in Sessions |-> IF s \in S THEN "failed" ELSE status[s]]
    /\ UNCHANGED passed

Next ==
    \/ \E s \in Sessions : Create(s) \/ BeginCheck(s) \/ Decide(s)
    \/ \E S \in SUBSET Sessions : BreakDown(S)

Spec == Init /\ [][Next]_<<status, passed>>
=============================================================================
