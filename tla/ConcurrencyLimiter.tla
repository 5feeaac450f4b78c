------------------------- MODULE ConcurrencyLimiter -------------------------
(***************************************************************************)
(* The in-process semaphore of src/common/concurrency-limiter.ts.  It      *)
(* bounds how many similarity checks run at once and starts the others in  *)
(* the order in which they asked.                                          *)
(*                                                                         *)
(* The code runs on one JavaScript thread: the synchronous stretches       *)
(* between two awaits are atomic, and each is one action.  A task that is  *)
(* granted a slot does not run yet: the promise acquire() returned is      *)
(* resolved, and run() resumes in a later microtask.  That instant is the  *)
(* state "starting", in which other calls of run() may come in.            *)
(***************************************************************************)
EXTENDS Integers, Sequences, FiniteSets

CONSTANTS Tasks,    \* the calls of run(): each is made at most once
          Max       \* constructor argument (SIMILARITY_MAX_CONCURRENCY)

\* The constructor throws unless max is an integer of at least 1.
ASSUME MaxAssumption == Max \in Nat \ {0}

VARIABLES active,   \* private active
          waiters,  \* private waiters: the closures waiting for a slot, oldest first
          task      \* how far each call of run() has got

limiterVars == <<active, waiters, task>>

TaskStates == {"new", "queued", "starting", "running", "done"}

Init ==
    /\ active = 0
    /\ waiters = <<>>
    /\ task = [t \in Tasks |-> "new"]

\* Mutant of Run: acquire() tests active <= max.
RunPastLimit(t) ==
    /\ task[t] = "new"
    /\ \/ /\ active <= Max
          /\ active' = active + 1
          /\ task' = [task EXCEPT ![t] = "starting"]
          /\ UNCHANGED waiters
       \/ /\ active > Max
          /\ waiters' = Append(waiters, t)
          /\ task' = [task EXCEPT ![t] = "queued"]
          /\ UNCHANGED active

(***************************************************************************)
(* run(task) up to its await: acquire() takes a free slot at once or puts  *)
(* a closure at the end of the queue.                                      *)
(***************************************************************************)
Run(t) ==
    /\ task[t] = "new"
    /\ \/ /\ active < Max
          /\ active' = active + 1
          /\ task' = [task EXCEPT ![t] = "starting"]
          /\ UNCHANGED waiters
       \/ /\ ~(active < Max)
          /\ waiters' = Append(waiters, t)
          /\ task' = [task EXCEPT ![t] = "queued"]
          /\ UNCHANGED active

\* The await of acquire() resumes and the task is called.
Start(t) ==
    /\ task[t] = "starting"
    /\ task' = [task EXCEPT ![t] = "running"]
    /\ UNCHANGED <<active, waiters>>

\* Mutant of Finish: release() never calls the closure it shifts.
FinishWakesNobody(t) ==
    /\ task[t] = "running"
    /\ active' = active - 1
    /\ task' = [task EXCEPT ![t] = "done"]
    /\ waiters' = IF waiters = <<>> THEN waiters ELSE Tail(waiters)

\* Mutant of Finish: the closure is called but stays in the queue.
FinishKeepsClosure(t) ==
    /\ task[t] = "running"
    /\ IF waiters = <<>>
       THEN /\ active' = active - 1
            /\ task' = [task EXCEPT ![t] = "done"]
       ELSE /\ task' = [task EXCEPT ![t] = "done", ![Head(waiters)] = "starting"]
            /\ UNCHANGED active
    /\ UNCHANGED waiters

\* Mutant of Finish: pop() for shift(), the newest call is served first.
FinishWakesNewest(t) ==
    /\ task[t] = "running"
    /\ IF waiters = <<>>
       THEN /\ active' = active - 1
            /\ task' = [task EXCEPT ![t] = "done"]
            /\ UNCHANGED waiters
       ELSE /\ task' = [task EXCEPT ![t] = "done", ![waiters[Len(waiters)]] = "starting"]
            /\ waiters' = SubSeq(waiters, 1, Len(waiters) - 1)
            /\ UNCHANGED active

\* Mutant of Finish: the finally clause is missing, an ended task keeps its slot.
FinishLeaksSlot(t) ==
    /\ task[t] = "running"
    /\ UNCHANGED <<active, waiters>>
    /\ task' = [task EXCEPT ![t] = "done"]

(***************************************************************************)
(* The task's promise settles, with a value or an error, and the finally   *)
(* clause calls release(): the slot is given back and, if someone waits,   *)
(* the oldest closure takes it in the same breath.                         *)
(***************************************************************************)
Finish(t) ==
    /\ task[t] = "running"
    /\ \/ /\ waiters = <<>>
          /\ active' = active - 1
          /\ task' = [task EXCEPT ![t] = "done"]
          /\ UNCHANGED waiters
       \/ /\ waiters # <<>>
          /\ active' = (active - 1) + 1
          /\ waiters' = Tail(waiters)
          /\ task' = [task EXCEPT ![t] = "done", ![Head(waiters)] = "starting"]

Next == \E t \in Tasks : Run(t) \/ Start(t) \/ Finish(t)

(***************************************************************************)
(* The event loop resumes every ready continuation, and every task ends:   *)
(* it is bounded by the timeouts of the calls it awaits.  Nobody has to    *)
(* call run().                                                             *)
(***************************************************************************)
Fairness == \A t \in Tasks : WF_limiterVars(Start(t)) /\ WF_limiterVars(Finish(t))

Spec == Init /\ [][Next]_limiterVars
FairSpec == Spec /\ Fairness

-----------------------------------------------------------------------------
\* The tasks that hold a slot.
Holders == {t \in Tasks : task[t] \in {"starting", "running"}}

\* Type invariant.
TypeOK ==
    /\ active \in 0..Max
    /\ waiters \in Seq(Tasks)
    /\ task \in [Tasks -> TaskStates]

(***************************************************************************)
(* The counter is exact: no path of acquire() and release(), immediate or  *)
(* through the queue, leaks a slot or hands one out twice.                 *)
(***************************************************************************)
SlotsAreCounted == active = Cardinality(Holders)

(***************************************************************************)
(* The queue holds exactly the tasks that wait, each of them once: none is *)
(* dropped by release() and none is started twice.                         *)
(***************************************************************************)
QueueIsExact ==
    /\ \A t \in Tasks : task[t] = "queued" <=> \E i \in DOMAIN waiters : waiters[i] = t
    /\ \A i, j \in DOMAIN waiters : waiters[i] = waiters[j] => i = j

\* Nobody waits while a slot is free (the queue is only used at the limit).
NoIdleSlot == waiters # <<>> => active = Max

(***************************************************************************)
(* The inductive invariant.  The bound on active needs the exact counter   *)
(* (an ended task held a slot, so the decrement stays above zero) and the  *)
(* exact queue (the task that is woken did not hold one already).          *)
(***************************************************************************)
LimiterInv ==
    /\ TypeOK
    /\ IsFiniteSet(Holders)
    /\ SlotsAreCounted
    /\ QueueIsExact
    /\ NoIdleSlot

(***************************************************************************)
(* Every call of run() gets its turn: a burst of uploads delays a check    *)
(* and never starves it.                                                   *)
(***************************************************************************)
EveryTaskRuns == \A t \in Tasks : (task[t] = "queued") ~> (task[t] = "done")
=============================================================================
