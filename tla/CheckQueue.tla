----------------------------- MODULE CheckQueue -----------------------------
(***************************************************************************)
(* The handwriting checks behind the limiter: processSimilarity holds a    *)
(* slot from the moment run() starts it until checkAndLog settles, so a    *)
(* Gemini that does not answer holds it too.  The timeout exists so that   *)
(* such a call does not tie up the slots (handwriting-check.service.ts).   *)
(***************************************************************************)
EXTENDS HandwritingCheck, Sequences, FiniteSets

CONSTANT Max                        \* SIMILARITY_MAX_CONCURRENCY

\* env.validation.ts: an integer of at least 1.
ASSUME LimitAssumption == Max \in Nat \ {0}

VARIABLES active, waiters, task     \* the limiter

limiterVars == <<active, waiters, task>>
queueVars == <<hasKey, call, active, waiters, task>>

Limiter == INSTANCE ConcurrencyLimiter WITH Tasks <- Calls

QueueInit == Init /\ Limiter!Init

\* complete() gives the check to the limiter.
Enqueue(c) == call[c] = Idle /\ Limiter!Run(c) /\ UNCHANGED vars

\* debugCheck, in development only, calls checkAndLog past the limiter.
DebugCheck(c) == task[c] = "new" /\ CheckAndLog(c) /\ UNCHANGED limiterVars

\* The limiter calls processSimilarity.
StartJob(c) == Limiter!Start(c) /\ UNCHANGED vars

\* processSimilarity calls checkAndLog.
CallCheck(c) == task[c] = "running" /\ CheckAndLog(c) /\ UNCHANGED limiterVars

Answer(c) == Gemini(c) /\ UNCHANGED limiterVars

TimerFires(c) == Timeout(c) /\ UNCHANGED limiterVars

\* The check has settled; run() gives the slot back.
ReleaseSlot(c) ==
    /\ call[c].pc \in {"returned", "threw"}
    /\ Limiter!Finish(c)
    /\ UNCHANGED vars

QueueNext ==
    \E c \in Calls : \/ Enqueue(c) \/ StartJob(c) \/ CallCheck(c) \/ ReleaseSlot(c)
                     \/ DebugCheck(c) \/ Answer(c) \/ TimerFires(c)

QueueSpec == QueueInit /\ [][QueueNext]_queueVars

\* The process takes its own steps and the timer fires; Gemini owes nothing.
QueueFairness ==
    \A c \in Calls : /\ WF_queueVars(StartJob(c))
                     /\ WF_queueVars(CallCheck(c))
                     /\ WF_queueVars(TimerFires(c))
                     /\ WF_queueVars(ReleaseSlot(c))

FairQueueSpec == QueueSpec /\ QueueFairness

-----------------------------------------------------------------------------
(***************************************************************************)
(* Gemini never has more checks of writings than the limit allows: a slot  *)
(* changes hands only when its check has settled, so that requests past    *)
(* the limit could only come from a developer's debugCheck.                *)
(***************************************************************************)
RequestsBounded ==
    Cardinality({c \in Calls : task[c] # "new" /\ call[c].pc \in Awaiting}) <= Max

\* The queue drains though Gemini answers none of the requests.
QueueDrains == \A c \in Calls : (task[c] # "new") ~> (task[c] = "done")
=============================================================================
