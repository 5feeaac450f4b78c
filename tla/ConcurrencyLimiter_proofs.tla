---------------------- MODULE ConcurrencyLimiter_proofs ----------------------
(***************************************************************************)
(* The limiter's safety, for every set of tasks and every limit.  All of   *)
(* it follows from one inductive invariant, LimiterInv; each action is     *)
(* shown to preserve it in a lemma of its own.                             *)
(***************************************************************************)
EXTENDS LimiterRefinement, FiniteSetTheorems, SequenceTheorems, TLAPS

LEMMA InitEstablishes == Init => LimiterInv
<1> SUFFICES ASSUME Init PROVE LimiterInv
  OBVIOUS
<1> USE DEF Init
<1>1. TypeOK
  BY MaxAssumption, EmptySeq DEF TypeOK, TaskStates
<1>2. Holders = {}
  BY DEF Holders
<1>3. IsFiniteSet(Holders) /\ SlotsAreCounted
  BY <1>2, FS_EmptySet DEF SlotsAreCounted
<1>4. DOMAIN waiters = {}
  OBVIOUS
<1>5. QueueIsExact /\ NoIdleSlot
  BY <1>4 DEF QueueIsExact, NoIdleSlot
<1> QED
  BY <1>1, <1>3, <1>5 DEF LimiterInv

\* A new task takes the free slot or joins the queue.
LEMMA RunPreserves ==
  ASSUME LimiterInv, NEW t \in Tasks, Run(t)
  PROVE  LimiterInv'
<1> USE MaxAssumption DEF LimiterInv, TypeOK, TaskStates
<1>1. t \notin Holders
  BY DEF Run, Holders
<1>2. CASE /\ active < Max
           /\ active' = active + 1
           /\ task' = [task EXCEPT ![t] = "starting"]
           /\ UNCHANGED waiters
  <2>1. Holders' = Holders \cup {t}
    BY <1>2 DEF Holders
  <2>2. IsFiniteSet(Holders') /\ SlotsAreCounted'
    BY <1>1, <1>2, <2>1, FS_AddElement DEF SlotsAreCounted
  <2>3. QueueIsExact'
    BY <1>2 DEF QueueIsExact, Run
  <2>4. TypeOK' /\ NoIdleSlot'
    BY <1>2 DEF NoIdleSlot
  <2> QED
    BY <2>2, <2>3, <2>4
<1>3. CASE /\ ~(active < Max)
           /\ waiters' = Append(waiters, t)
           /\ task' = [task EXCEPT ![t] = "queued"]
           /\ UNCHANGED active
  <2>1. Holders' = Holders
    BY <1>3 DEF Holders, Run
  <2>2. IsFiniteSet(Holders') /\ SlotsAreCounted'
    BY <1>3, <2>1 DEF SlotsAreCounted
  <2>3. /\ DOMAIN waiters = 1..Len(waiters)
        /\ DOMAIN waiters' = 1..(Len(waiters) + 1)
        /\ Len(waiters) \in Nat
        /\ waiters'[Len(waiters) + 1] = t
        /\ \A i \in 1..Len(waiters) : waiters'[i] = waiters[i]
    BY <1>3
  <2>4. \A i \in DOMAIN waiters : waiters[i] # t
    BY DEF QueueIsExact, Run
  <2>5. QueueIsExact'
    <3>1. ASSUME NEW x \in Tasks
          PROVE  task'[x] = "queued" <=> \E i \in DOMAIN waiters' : waiters'[i] = x
      BY <1>3, <2>3 DEF QueueIsExact
    <3>2. ASSUME NEW i \in DOMAIN waiters', NEW j \in DOMAIN waiters',
                 waiters'[i] = waiters'[j]
          PROVE  i = j
      BY <2>3, <2>4, <3>2 DEF QueueIsExact
    <3> QED
      BY <3>1, <3>2 DEF QueueIsExact
  <2>6. TypeOK'
    BY <1>3
  <2>7. NoIdleSlot'
    BY <1>3 DEF NoIdleSlot
  <2> QED
    BY <2>2, <2>5, <2>6, <2>7
<1> QED
  BY <1>2, <1>3 DEF Run

\* Starting the task changes neither the slots nor the queue.
LEMMA StartPreserves ==
  ASSUME LimiterInv, NEW t \in Tasks, Start(t)
  PROVE  LimiterInv'
<1> USE DEF LimiterInv, TypeOK, TaskStates, Start
<1>1. Holders' = Holders
  BY DEF Holders
<1>2. IsFiniteSet(Holders') /\ SlotsAreCounted' /\ NoIdleSlot' /\ TypeOK'
  BY <1>1 DEF SlotsAreCounted, NoIdleSlot
<1>3. QueueIsExact'
  BY DEF QueueIsExact
<1> QED
  BY <1>2, <1>3

\* A finished task gives its slot back, or hands it to the head of the queue.
LEMMA FinishPreserves ==
  ASSUME LimiterInv, NEW t \in Tasks, Finish(t)
  PROVE  LimiterInv'
<1> USE MaxAssumption DEF LimiterInv, TypeOK, TaskStates
<1>1. /\ t \in Holders
      /\ IsFiniteSet(Holders \ {t})
      /\ Cardinality(Holders \ {t}) = active - 1
      /\ Cardinality(Holders \ {t}) \in Nat
  <2>1. t \in Holders
    BY DEF Finish, Holders
  <2>2. IsFiniteSet(Holders \ {t}) /\ Cardinality(Holders \ {t}) = active - 1
    BY <2>1, FS_RemoveElement DEF SlotsAreCounted
  <2> QED
    BY <2>1, <2>2, FS_CardinalityType
<1>2. CASE /\ waiters = <<>>
           /\ active' = active - 1
           /\ task' = [task EXCEPT ![t] = "done"]
           /\ UNCHANGED waiters
  <2>1. Holders' = Holders \ {t}
    BY <1>2 DEF Holders
  <2>2. TypeOK' /\ IsFiniteSet(Holders') /\ SlotsAreCounted'
    BY <1>1, <1>2, <2>1 DEF SlotsAreCounted
  <2>3. NoIdleSlot' /\ QueueIsExact'
    BY <1>2 DEF NoIdleSlot, QueueIsExact, Finish
  <2> QED
    BY <2>2, <2>3
<1>3. CASE /\ waiters # <<>>
           /\ active' = (active - 1) + 1
           /\ waiters' = Tail(waiters)
           /\ task' = [task EXCEPT ![t] = "done", ![Head(waiters)] = "starting"]
  <2> DEFINE h == Head(waiters)
  <2>1. /\ Len(waiters) \in Nat \ {0}
        /\ DOMAIN waiters = 1..Len(waiters)
        /\ h = waiters[1]
        /\ DOMAIN waiters' = 1..(Len(waiters) - 1)
        /\ \A i \in DOMAIN waiters' : i + 1 \in DOMAIN waiters /\ waiters'[i] = waiters[i + 1]
        /\ waiters' \in Seq(Tasks)
    <3>1. /\ Len(waiters) \in Nat \ {0}
          /\ DOMAIN waiters = 1..Len(waiters)
      BY <1>3, EmptySeq, LenProperties
    <3>2. /\ Tail(waiters) \in Seq(Tasks)
          /\ Len(Tail(waiters)) = Len(waiters) - 1
          /\ \A i \in 1..Len(Tail(waiters)) : Tail(waiters)[i] = waiters[i + 1]
      BY <1>3, HeadTailProperties
    <3>3. DOMAIN Tail(waiters) = 1..Len(Tail(waiters))
      BY <3>2, LenProperties
    <3> QED
      BY <1>3, <3>1, <3>2, <3>3
  <2>2. h \in Tasks /\ task[h] = "queued"
    BY <2>1 DEF QueueIsExact
  <2>3. h # t /\ h \notin Holders
    BY <2>2 DEF Finish, Holders
  <2> HIDE DEF h
  <2>4. task' = [task EXCEPT ![t] = "done", ![h] = "starting"]
    BY <1>3 DEF h
  <2>5. Holders' = (Holders \ {t}) \cup {h}
    BY <2>2, <2>3, <2>4 DEF Holders
  <2>6. IsFiniteSet(Holders') /\ SlotsAreCounted'
    <3> DEFINE rest == Holders \ {t}
    <3>1. h \notin rest
      BY <2>3
    <3>2. IsFiniteSet(rest) /\ Cardinality(rest) = active - 1
      BY <1>1
    <3> HIDE DEF rest
    <3>3. IsFiniteSet(rest \cup {h}) /\ Cardinality(rest \cup {h}) = active - 1 + 1
      BY <3>1, <3>2, FS_AddElement
    <3> QED
      BY <1>3, <2>5, <3>3 DEF rest, SlotsAreCounted
  <2>7. TypeOK' /\ NoIdleSlot'
    <3>1. active' = active
      BY <1>3
    <3>2. task' \in [Tasks -> TaskStates]
      BY <2>4
    <3>3. active = Max
      BY <1>3 DEF NoIdleSlot
    <3> QED
      BY <2>1, <3>1, <3>2, <3>3 DEF NoIdleSlot
  <2>8. QueueIsExact'
    <3>1. \A i \in DOMAIN waiters' : waiters'[i] # h
      BY <2>1 DEF QueueIsExact
    <3>2. \A x \in Tasks : task'[x] = "queued" <=> task[x] = "queued" /\ x # h
      BY <2>2, <2>3, <2>4 DEF Finish
    <3>3. \A x \in Tasks \ {h} : (\E i \in DOMAIN waiters : waiters[i] = x)
                                   <=> \E i \in DOMAIN waiters' : waiters'[i] = x
      <4>1. \A k \in DOMAIN waiters :
               k # 1 => k - 1 \in DOMAIN waiters' /\ waiters'[k - 1] = waiters[k]
        BY <2>1
      <4> QED
        BY <2>1, <4>1
    <3>4. ASSUME NEW i \in DOMAIN waiters', NEW j \in DOMAIN waiters',
                 waiters'[i] = waiters'[j]
          PROVE  i = j
      <4>1. i + 1 = j + 1
        BY <2>1, <3>4 DEF QueueIsExact
      <4> QED
        BY <2>1, <4>1
    <3> QED
      BY <3>1, <3>2, <3>3, <3>4 DEF QueueIsExact
  <2> QED
    BY <2>6, <2>7, <2>8
<1> QED
  BY <1>2, <1>3 DEF Finish

\* The inductive invariant holds throughout.
THEOREM LimiterCorrect == Spec => []LimiterInv
<1>1. LimiterInv /\ [Next]_limiterVars => LimiterInv'
  <2> SUFFICES ASSUME LimiterInv, [Next]_limiterVars
               PROVE  LimiterInv'
    OBVIOUS
  <2>1. CASE UNCHANGED limiterVars
    BY <2>1 DEF limiterVars, LimiterInv, TypeOK, Holders, SlotsAreCounted,
                QueueIsExact, NoIdleSlot
  <2> QED
    BY <2>1, RunPreserves, StartPreserves, FinishPreserves DEF Next
<1> QED
  BY InitEstablishes, <1>1, PTL DEF Spec

(***************************************************************************)
(* Type correctness; in particular the number of slots in use stays within *)
(* 0..Max, whatever the interleaving of run(), resumption and release().   *)
(***************************************************************************)
THEOREM TypeCorrect == Spec => []TypeOK
<1>1. LimiterInv => TypeOK
  BY DEF LimiterInv
<1> QED
  BY LimiterCorrect, <1>1, PTL

\* The counter equals the number of tasks that hold a slot: no leak, no double grant.
THEOREM SlotsCounted == Spec => []SlotsAreCounted
<1>1. LimiterInv => SlotsAreCounted
  BY DEF LimiterInv
<1> QED
  BY LimiterCorrect, <1>1, PTL

\* The queue holds the waiting tasks, each once.
THEOREM QueueExact == Spec => []QueueIsExact
<1>1. LimiterInv => QueueIsExact
  BY DEF LimiterInv
<1> QED
  BY LimiterCorrect, <1>1, PTL

\* No task waits while a slot is free.
THEOREM WorkConserving == Spec => []NoIdleSlot
<1>1. LimiterInv => NoIdleSlot
  BY DEF LimiterInv
<1> QED
  BY LimiterCorrect, <1>1, PTL
-----------------------------------------------------------------------------
(* First come, first served. *)

Finished == {t \in Tasks : task[t] = "done"}
Left == Len(arrivals) - Len(waiters)   \* how many calls have left the queue, or never joined it

(***************************************************************************)
(* Where the limiter stands in its history: the queue is the end of the    *)
(* arrivals, and who is not in it holds a slot or is done.                 *)
(***************************************************************************)
HistoryInv ==
    /\ arrivals \in Seq(Tasks)
    /\ \A t \in Tasks : task[t] # "new" <=> \E i \in DOMAIN arrivals : arrivals[i] = t
    /\ Left >= 0
    /\ \A i \in DOMAIN waiters : waiters[i] = arrivals[Left + i]
    /\ IsFiniteSet(Finished)
    /\ Left = Cardinality(Finished) + active

\* The lengths as numbers, which the arithmetic below is about.
LEMMA Lengths ==
  ASSUME TypeOK, arrivals \in Seq(Tasks)
  PROVE  /\ Len(arrivals) \in Nat /\ DOMAIN arrivals = 1..Len(arrivals)
         /\ Len(waiters) \in Nat /\ DOMAIN waiters = 1..Len(waiters)
         /\ active \in Nat /\ active <= Max /\ Left \in Int
BY MaxAssumption DEF TypeOK, Left

\* FifoAdmission counts with its own instance of FiniteSets.
LEMMA SameCardinality == \A S : Abstract!Cardinality(S) = Cardinality(S)
BY DEF Abstract!Cardinality, Cardinality, Abstract!IsFiniteSet, IsFiniteSet

\* As many are admitted as have left the queue, and all who run are among them.
LEMMA AdmittedHaveLeft ==
  ASSUME LimiterInv, HistoryInv
  PROVE  /\ Abstract!AdmittedCount = Left
         /\ \A t \in Tasks : task[t] = "running" => t \in Abstract!Admitted
<1>1. Cardinality(Finished) \in Nat
  BY FS_CardinalityType DEF HistoryInv
<1>2. Abstract!AdmittedCount = Left
  <2>1. /\ Len(arrivals) \in Nat /\ Len(waiters) \in Nat
        /\ active \in Nat /\ active <= Max /\ Max \in Nat
        /\ Len(arrivals) - Len(waiters) = Cardinality(Finished) + active
    BY Lengths, MaxAssumption DEF LimiterInv, HistoryInv, Left
  <2>2. Len(waiters) # 0 => active = Max
    BY DEF LimiterInv, NoIdleSlot
  <2> QED
    BY <1>1, <2>1, <2>2, SameCardinality DEF Abstract!AdmittedCount, Finished, Left
<1>3. ASSUME NEW t \in Tasks, task[t] = "running"
      PROVE  t \in Abstract!Admitted
  <2>1. PICK i \in DOMAIN arrivals : arrivals[i] = t
    BY <1>3 DEF HistoryInv
  <2>2. i \in 1..Left
    <3>1. SUFFICES ASSUME i > Left PROVE FALSE
      BY <2>1, Lengths DEF LimiterInv, HistoryInv
    <3>2. i - Left \in DOMAIN waiters /\ Left + (i - Left) = i
      BY <2>1, <3>1, Lengths DEF LimiterInv, HistoryInv, Left
    <3>3. waiters[i - Left] = t
      BY <2>1, <3>2 DEF HistoryInv
    <3> QED
      BY <1>3, <3>2, <3>3 DEF LimiterInv, QueueIsExact
  <2> QED
    BY <1>2, <2>1, <2>2 DEF Abstract!Admitted
<1> QED
  BY <1>2, <1>3

LEMMA RunKeepsHistory ==
  ASSUME LimiterInv, HistoryInv, NEW t \in Tasks, HistRun(t)
  PROVE  HistoryInv' /\ Abstract!Arrive(t)
<1>1. /\ task[t] = "new" /\ arrivals' = Append(arrivals, t)
      /\ task \in [Tasks -> TaskStates] /\ waiters \in Seq(Tasks) /\ arrivals \in Seq(Tasks)
  BY DEF HistRun, Run, LimiterInv, TypeOK, HistoryInv
<1>2. /\ arrivals' \in Seq(Tasks) /\ Len(arrivals') = Len(arrivals) + 1
      /\ arrivals'[Len(arrivals) + 1] = t
      /\ \A i \in DOMAIN arrivals : arrivals'[i] = arrivals[i]
  BY <1>1, AppendProperties
<1>3. /\ DOMAIN arrivals = 1..Len(arrivals) /\ Len(arrivals) \in Nat
      /\ DOMAIN arrivals' = 1..(Len(arrivals) + 1)
      /\ DOMAIN waiters = 1..Len(waiters) /\ Len(waiters) \in Nat
      /\ active \in Nat /\ active <= Max
  BY <1>1, <1>2, Lengths DEF LimiterInv
<1>4. \E s \in {"starting", "queued"} : task' = [task EXCEPT ![t] = s]
  BY DEF HistRun, Run
<1>5. Finished' = Finished
  BY <1>1, <1>4 DEF Finished
<1>6. \A x \in Tasks : task'[x] # "new" <=> \E i \in DOMAIN arrivals' : arrivals'[i] = x
  <2>1. \A x \in Tasks : task'[x] # "new" <=> task[x] # "new" \/ x = t
    BY <1>1, <1>4
  <2>2. \A x \in Tasks : (\E i \in DOMAIN arrivals' : arrivals'[i] = x)
                            <=> (\E i \in DOMAIN arrivals : arrivals[i] = x) \/ x = t
    BY <1>2, <1>3
  <2> QED
    BY <2>1, <2>2 DEF HistoryInv
<1>7. CASE active < Max /\ active' = active + 1 /\ waiters' = waiters
  <2>1. waiters = <<>>
    BY <1>3, <1>7 DEF LimiterInv, NoIdleSlot
  <2>2. Left' = Left + 1 /\ Left \in Int
    BY <1>2, <1>3, <1>7 DEF Left
  <2>3. Left' >= 0 /\ Left' = Cardinality(Finished') + active'
    BY <1>3, <1>5, <1>7, <2>2, FS_CardinalityType DEF HistoryInv
  <2>4. DOMAIN waiters' = {}
    BY <1>3, <1>7, <2>1
  <2> QED
    BY <1>1, <1>2, <1>3, <1>5, <1>6, <2>3, <2>4 DEF HistoryInv, Abstract!Arrive, Finished
<1>8. CASE active' = active /\ waiters' = Append(waiters, t)
  <2>1. /\ Len(waiters') = Len(waiters) + 1 /\ waiters'[Len(waiters) + 1] = t
        /\ \A i \in DOMAIN waiters : waiters'[i] = waiters[i]
        /\ DOMAIN waiters' = 1..(Len(waiters) + 1)
    BY <1>1, <1>3, <1>8, AppendProperties
  <2>2. Left' = Left /\ Left \in Int /\ Left + Len(waiters) = Len(arrivals)
    BY <1>2, <1>3, <2>1 DEF Left
  <2>3. ASSUME NEW i \in DOMAIN waiters'
        PROVE  waiters'[i] = arrivals'[Left' + i]
    <3>1. CASE i = Len(waiters) + 1
      BY <1>2, <1>3, <2>1, <2>2, <3>1
    <3>2. CASE i \in DOMAIN waiters
      <4>1. Left + i \in DOMAIN arrivals
        BY <1>3, <2>2, <3>2 DEF HistoryInv
      <4> QED
        BY <1>2, <2>1, <2>2, <3>2, <4>1 DEF HistoryInv
    <3> QED
      BY <1>3, <2>1, <3>1, <3>2
  <2>4. Left' >= 0 /\ Left' = Cardinality(Finished') + active'
    BY <1>5, <1>8, <2>2 DEF HistoryInv
  <2> QED
    BY <1>1, <1>2, <1>5, <1>6, <2>3, <2>4 DEF HistoryInv, Abstract!Arrive, Finished
<1> QED
  BY <1>7, <1>8 DEF HistRun, Run

LEMMA StartKeepsHistory ==
  ASSUME LimiterInv, HistoryInv, NEW t \in Tasks, HistStart(t)
  PROVE  HistoryInv' /\ Finished' = Finished /\ UNCHANGED arrivals
<1>1. Finished' = Finished /\ \A x \in Tasks : task'[x] # "new" <=> task[x] # "new"
  BY DEF HistStart, Start, LimiterInv, TypeOK, Finished
<1> QED
  BY <1>1 DEF HistStart, Start, HistoryInv, Left

LEMMA FinishKeepsHistory ==
  ASSUME LimiterInv, HistoryInv, NEW t \in Tasks, HistFinish(t)
  PROVE  HistoryInv' /\ Abstract!Complete(t)
<1>1. /\ task[t] = "running" /\ arrivals' = arrivals
      /\ task \in [Tasks -> TaskStates] /\ waiters \in Seq(Tasks) /\ arrivals \in Seq(Tasks)
  BY DEF HistFinish, Finish, LimiterInv, TypeOK, HistoryInv
<1>2. /\ Len(arrivals) \in Nat /\ DOMAIN waiters = 1..Len(waiters) /\ Len(waiters) \in Nat
      /\ active \in Nat /\ Left \in Int
  BY <1>1, Lengths DEF LimiterInv
<1>3. Finished' = Finished \cup {t} /\ t \notin Finished
      /\ \A x \in Tasks : task'[x] # "new" <=> task[x] # "new"
  <2>1. CASE waiters = <<>>
    BY <1>1, <2>1 DEF HistFinish, Finish, Finished
  <2>2. CASE waiters # <<>>
    <3>1. Head(waiters) \in Tasks /\ task[Head(waiters)] = "queued"
      BY <1>1, <1>2, <2>2 DEF LimiterInv, QueueIsExact
    <3>2. task' = [task EXCEPT ![t] = "done", ![Head(waiters)] = "starting"]
      BY <2>2 DEF HistFinish, Finish
    <3> QED
      BY <1>1, <3>1, <3>2 DEF Finished
  <2> QED
    BY <2>1, <2>2
<1>4. /\ IsFiniteSet(Finished') /\ Cardinality(Finished') = Cardinality(Finished) + 1
      /\ Cardinality(Finished) \in Nat
  BY <1>3, FS_AddElement, FS_CardinalityType DEF HistoryInv
<1>5. Abstract!Complete(t)
  BY <1>1, <1>3, AdmittedHaveLeft DEF Abstract!Complete, Finished
<1>6. Left >= 0 /\ Left = Cardinality(Finished) + active
  BY DEF HistoryInv
<1>7. CASE waiters = <<>> /\ active' = active - 1 /\ waiters' = waiters
  <2>1. Left' = Left
    BY <1>1, <1>7 DEF Left
  <2>2. Left' >= 0 /\ Left' = Cardinality(Finished') + active'
    BY <1>2, <1>4, <1>7, <1>6, <2>1
  <2>3. DOMAIN waiters' = {}
    BY <1>7
  <2> QED
    BY <1>1, <1>3, <1>4, <1>5, <2>2, <2>3 DEF HistoryInv
<1>8. CASE waiters # <<>> /\ active' = (active - 1) + 1 /\ waiters' = Tail(waiters)
  <2>1. /\ Len(waiters') = Len(waiters) - 1
        /\ \A i \in 1..(Len(waiters) - 1) : waiters'[i] = waiters[i + 1]
        /\ DOMAIN waiters' = 1..(Len(waiters) - 1)
    BY <1>1, <1>2, <1>8
  <2>2. Left' = Left + 1
    BY <1>1, <1>2, <2>1 DEF Left
  <2>3. ASSUME NEW i \in DOMAIN waiters'
        PROVE  waiters'[i] = arrivals'[Left' + i]
    <3>1. i \in Nat /\ 1 <= i /\ i <= Len(waiters) - 1
      BY <1>2, <2>1
    <3>2. i + 1 \in DOMAIN waiters /\ Left + (i + 1) = Left' + i
      BY <1>2, <2>2, <3>1
    <3>3. waiters'[i] = waiters[i + 1]
      BY <2>1
    <3> QED
      BY <1>1, <3>2, <3>3 DEF HistoryInv
  <2>4. Left' >= 0 /\ Left' = Cardinality(Finished') + active'
    BY <1>2, <1>4, <1>8, <1>6, <2>2
  <2> QED
    BY <1>1, <1>3, <1>4, <1>5, <2>3, <2>4 DEF HistoryInv
<1> QED
  BY <1>5, <1>7, <1>8 DEF HistFinish, Finish

(***************************************************************************)
(* The limiter is first-come-first-served admission: the calls whose task  *)
(* may run are the first to have called run(), as many as Max allows, for  *)
(* every number of calls and every limit.                                  *)
(***************************************************************************)
THEOREM FirstComeFirstServed == HistSpec => ImplementsFifo
<1>1. HistInit => HistoryInv /\ Abstract!Init
  <2> SUFFICES ASSUME HistInit
               PROVE  HistoryInv /\ Abstract!Init
    OBVIOUS
  <2>1. Finished = {}
    BY DEF HistInit, Init, Finished
  <2>2. Left = 0 /\ DOMAIN arrivals = {} /\ DOMAIN waiters = {} /\ arrivals \in Seq(Tasks)
    BY EmptySeq DEF HistInit, Init, Left
  <2>3. IsFiniteSet(Finished) /\ Cardinality(Finished) = 0
    BY <2>1, FS_EmptySet
  <2> QED
    BY <2>1, <2>2, <2>3 DEF HistInit, Init, HistoryInv, Abstract!Init, Finished
<1>2. LimiterInv /\ HistoryInv /\ [HistNext]_histVars
        => HistoryInv' /\ [Abstract!Next]_<<arrivals, Finished>>
  <2> SUFFICES ASSUME LimiterInv, HistoryInv, [HistNext]_histVars
               PROVE  HistoryInv' /\ [Abstract!Next]_<<arrivals, Finished>>
    OBVIOUS
  <2>1. CASE UNCHANGED histVars
    BY <2>1 DEF histVars, HistoryInv, Left, Finished
  <2>2. ASSUME NEW t \in Tasks, HistRun(t)
        PROVE  HistoryInv' /\ [Abstract!Next]_<<arrivals, Finished>>
    BY <2>2, RunKeepsHistory DEF Abstract!Next
  <2>3. ASSUME NEW t \in Tasks, HistStart(t)
        PROVE  HistoryInv' /\ [Abstract!Next]_<<arrivals, Finished>>
    BY <2>3, StartKeepsHistory
  <2>4. ASSUME NEW t \in Tasks, HistFinish(t)
        PROVE  HistoryInv' /\ [Abstract!Next]_<<arrivals, Finished>>
    BY <2>4, FinishKeepsHistory DEF Abstract!Next
  <2> QED
    BY <2>1, <2>2, <2>3, <2>4 DEF HistNext
<1>3. HistInit => Init
  BY DEF HistInit
<1>4. [HistNext]_histVars => [Next]_limiterVars
  BY DEF HistNext, HistRun, HistStart, HistFinish, histVars, Next, limiterVars
<1>5. HistSpec => Spec
  BY <1>3, <1>4, PTL DEF HistSpec, Spec
<1>6. HistSpec => []LimiterInv
  BY <1>5, LimiterCorrect, PTL
<1> QED
  BY <1>1, <1>2, <1>6, PTL DEF HistSpec, ImplementsFifo, Abstract!Spec, Finished
=============================================================================
