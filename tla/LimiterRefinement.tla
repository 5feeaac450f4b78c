------------------------- MODULE LimiterRefinement -------------------------
(***************************************************************************)
(* The limiter implements first-come-first-served admission.  The order of *)
(* the calls is not part of the limiter's state, so a history variable     *)
(* records it.                                                             *)
(***************************************************************************)
EXTENDS ConcurrencyLimiter

VARIABLE arrivals   \* history: the calls of run() in the order they were made

histVars == <<active, waiters, task, arrivals>>

HistInit == Init /\ arrivals = <<>>

HistRun(t) == Run(t) /\ arrivals' = Append(arrivals, t)
HistStart(t) == Start(t) /\ UNCHANGED arrivals
HistFinish(t) == Finish(t) /\ UNCHANGED arrivals

HistNext == \E t \in Tasks : HistRun(t) \/ HistStart(t) \/ HistFinish(t)

HistSpec == HistInit /\ [][HistNext]_histVars

\* The fairness of ConcurrencyLimiter.
HistFairSpec ==
    HistSpec /\ \A t \in Tasks : WF_histVars(HistStart(t)) /\ WF_histVars(HistFinish(t))

Abstract == INSTANCE FifoAdmission
    WITH finished <- {t \in Tasks : task[t] = "done"}

\* Every behaviour of the limiter is one of first-come-first-served admission.
ImplementsFifo == Abstract!Spec
=============================================================================
