---------------------- MODULE HandwritingCheck_proofs ----------------------
(***************************************************************************)
(* The handwriting check passes on Gemini's word only, whatever texts      *)
(* Gemini may send and however many calls there are; and behind the        *)
(* limiter no more checks than the limit are at Gemini at once.            *)
(***************************************************************************)
EXTENDS CheckQueue, FiniteSetTheorems, TLAPS

(***************************************************************************)
(* What makes a text a pass, of the raw text: what PassesOnGeminisWord     *)
(* says of a call.                                                         *)
(***************************************************************************)
SaysPass(text) ==
    /\ text # Null
    /\ text.json
    /\ text.isPenHandwriting = TRUE
    /\ text.similarityScore \in Int
    /\ text.similarityScore >= PASS_MIN_SIMILARITY_SCORE

\* Clamping moves no number across the threshold, and nothing else becomes a number.
LEMMA ClampKeepsThreshold ==
    ASSUME NEW value
    PROVE  /\ ParseSimilarityScore(value) \in 0..100 \cup {Null}
           /\ ParseSimilarityScore(value) # Null <=> value \in Int
           /\ value \in Int => (ParseSimilarityScore(value) >= PASS_MIN_SIMILARITY_SCORE
                                  <=> value >= PASS_MIN_SIMILARITY_SCORE)
<1>1. Null \notin Int
  BY TextsAssumption
<1>2. CASE value \in Int
  BY <1>1, <1>2 DEF ParseSimilarityScore, PASS_MIN_SIMILARITY_SCORE
<1>3. CASE value \notin Int
  BY <1>1, <1>3 DEF ParseSimilarityScore
<1> QED
  BY <1>2, <1>3

\* The normalised result is well-formed and passes exactly when the raw text says so.
LEMMA ResultIsFaithful ==
    ASSUME NEW text \in Texts
    PROVE  /\ ResultOf(text) \in Results
           /\ Passes(ResultOf(text)) <=> SaysPass(text)
<1>1. Null \notin Int
  BY TextsAssumption
<1>2. Illegible \in Results /\ ~Passes(Illegible)
  BY DEF Illegible, Results, Passes
<1>3. CASE text = Null
  BY <1>2, <1>3 DEF ResultOf, SaysPass
<1>4. CASE text # Null /\ ~text.json
  BY <1>2, <1>4 DEF ResultOf, ParseResult, SaysPass
<1>5. CASE text # Null /\ text.json
  <2> DEFINE score == ParseSimilarityScore(text.similarityScore)
             pen == (text.isPenHandwriting = TRUE)
  <2>1. ResultOf(text) = [isPenHandwriting |-> pen, similarityScore |-> score]
    BY <1>5 DEF ResultOf, ParseResult
  <2>2. /\ score \in 0..100 \cup {Null}
        /\ score # Null <=> text.similarityScore \in Int
        /\ text.similarityScore \in Int =>
             (score >= PASS_MIN_SIMILARITY_SCORE
                <=> text.similarityScore >= PASS_MIN_SIMILARITY_SCORE)
    BY ClampKeepsThreshold
  <2>3. pen \in BOOLEAN
    OBVIOUS
  <2> HIDE DEF score, pen
  <2>4. ResultOf(text) \in Results
    BY <2>1, <2>2, <2>3 DEF Results
  <2>5. Passes(ResultOf(text)) <=> pen /\ score # Null /\ score >= PASS_MIN_SIMILARITY_SCORE
    BY <2>1 DEF Passes
  <2>6. SaysPass(text) <=> /\ pen
                           /\ text.similarityScore \in Int
                           /\ text.similarityScore >= PASS_MIN_SIMILARITY_SCORE
    BY <1>5 DEF SaysPass, pen
  <2> QED
    BY <2>2, <2>4, <2>5, <2>6
<1>6. text # Null => text.json \in BOOLEAN
  BY TextsAssumption
<1> QED
  BY <1>3, <1>4, <1>5, <1>6

(***************************************************************************)
(* The inductive invariant: a returned call holds the result of the text   *)
(* it received.  PassesOnGeminisWord alone says nothing of where a result  *)
(* comes from.                                                             *)
(***************************************************************************)
ResultInv ==
    /\ TypeOK
    /\ \A c \in Calls : call[c].pc = "returned" =>
          /\ call[c].text \in Texts
          /\ call[c].result = ResultOf(call[c].text)

\* Every behaviour of checkAndLog keeps the invariant.
THEOREM ResultInvariant == Spec => []ResultInv
<1> USE DEF ResultInv, TypeOK
<1>1. Init => ResultInv
  BY DEF Init, Idle
<1>2. ResultInv /\ [Next]_vars => ResultInv'
  <2> SUFFICES ASSUME ResultInv, [Next]_vars
               PROVE  ResultInv'
    OBVIOUS
  <2>1. ASSUME NEW c \in Calls, NEW pc \in {"threw"} \cup Awaiting,
               call' = [call EXCEPT ![c] = At(pc)], hasKey' = hasKey
        PROVE  ResultInv'
    BY <2>1 DEF At, Awaiting
  <2>2. Threw = At("threw")
    BY DEF Threw, At
  <2>3. ASSUME NEW c \in Calls, CheckAndLog(c) PROVE ResultInv'
    <3>1. CASE hasKey
      BY <2>1, <2>3, <3>1 DEF CheckAndLog, Awaiting
    <3>2. CASE ~hasKey
      BY <2>1, <2>2, <2>3, <3>2 DEF CheckAndLog
    <3> QED
      BY <3>1, <3>2
  <2>4. ASSUME NEW c \in Calls, Headers(c) PROVE ResultInv'
    <3>1. PICK ok \in BOOLEAN :
             call' = [call EXCEPT ![c] = At(IF ok THEN "body" ELSE "errorBody")]
      BY <2>4 DEF Headers
    <3>2. (IF ok THEN "body" ELSE "errorBody") \in {"threw"} \cup Awaiting
      BY DEF Awaiting
    <3> QED
      BY <2>1, <2>4, <3>1, <3>2 DEF Headers
  <2>5. ASSUME NEW c \in Calls, Body(c) PROVE ResultInv'
    <3>1. PICK text \in Texts :
             call' = [call EXCEPT ![c] = [pc |-> "returned", text |-> text,
                                          result |-> ResultOf(text)]]
      BY <2>5 DEF Body
    <3>2. ResultOf(text) \in Results
      BY ResultIsFaithful
    <3> QED
      BY <2>5, <3>1, <3>2 DEF Body
  <2>6. ASSUME NEW c \in Calls, ErrorBody(c) \/ Breakdown(c) \/ Timeout(c) PROVE ResultInv'
    BY <2>1, <2>2, <2>6 DEF ErrorBody, Breakdown, Timeout
  <2>7. CASE UNCHANGED vars
    BY <2>7 DEF vars
  <2> QED
    BY <2>3, <2>4, <2>5, <2>6, <2>7 DEF Next, Gemini
<1> QED
  BY <1>1, <1>2, PTL DEF Spec

(***************************************************************************)
(* Type correctness: whatever Gemini sends, a call that returns holds a    *)
(* result whose score is null or a whole number from 0 to 100.             *)
(***************************************************************************)
THEOREM TypeCorrect == Spec => []TypeOK
<1>1. ResultInv => TypeOK
  BY DEF ResultInv
<1> QED
  BY <1>1, ResultInvariant, PTL

(***************************************************************************)
(* A writing passes exactly when Gemini wrote so: with the threshold on    *)
(* either side of the clamp, for every set of texts.                       *)
(***************************************************************************)
THEOREM PassesAsGeminiSays == Spec => []PassesOnGeminisWord
<1>1. ResultInv => PassesOnGeminisWord
  BY ResultIsFaithful DEF ResultInv, PassesOnGeminisWord, SaysPass
<1> QED
  BY <1>1, ResultInvariant, PTL

(***************************************************************************)
(* Nothing but the whole body of a successful response makes checkAndLog   *)
(* return: every breakdown throws, and what has thrown stays thrown.       *)
(***************************************************************************)
THEOREM BreakdownsAlwaysThrow == Spec => BreakdownsThrow
<1> DEFINE Returning(c) == call'[c].pc = "returned" /\ call[c].pc # "returned"
           Whole(c) == call[c].pc = "body" /\ call'[c].text \in Texts
<1>1. ResultInv /\ [Next]_vars => [\A c \in Calls : Returning(c) => Whole(c)]_vars
  <2> SUFFICES ASSUME ResultInv, Next, NEW c \in Calls, Returning(c)
               PROVE  Whole(c)
    OBVIOUS
  <2>1. PICK d \in Calls : CheckAndLog(d) \/ Gemini(d) \/ Timeout(d)
    BY DEF Next
  <2>2. call \in [Calls -> [pc : {"idle", "threw"} \cup Awaiting]
                             \cup [pc : {"returned"}, text : Texts, result : Results]]
    BY DEF ResultInv, TypeOK
  <2>3. CASE Body(d)
    BY <2>2, <2>3 DEF Body
  <2>4. CASE Headers(d)
    BY <2>2, <2>4 DEF Headers, At
  <2>5. CASE CheckAndLog(d) \/ ErrorBody(d) \/ Breakdown(d) \/ Timeout(d)
    BY <2>2, <2>5 DEF CheckAndLog, ErrorBody, Breakdown, Timeout, At, Threw
  <2> QED
    BY <2>1, <2>3, <2>4, <2>5 DEF Gemini
<1> QED
  BY <1>1, ResultInvariant, PTL DEF Spec, BreakdownsThrow

-----------------------------------------------------------------------------
(* The checks behind the limiter. *)

\* Its theorems about the specification do not mention the history of arrivals.
LimiterProofs == INSTANCE ConcurrencyLimiter_proofs WITH Tasks <- Calls, arrivals <- <<>>

\* Every step of the queue is a step of the limiter, or none of its business.
LEMMA QueueStepIsLimiterStep ==
    [QueueNext]_queueVars => [LimiterProofs!Next]_(LimiterProofs!limiterVars)
<1> SUFFICES ASSUME [QueueNext]_queueVars
             PROVE  [LimiterProofs!Next]_(LimiterProofs!limiterVars)
  OBVIOUS
<1>1. CASE UNCHANGED queueVars
  BY <1>1 DEF queueVars, LimiterProofs!limiterVars
<1>2. ASSUME NEW c \in Calls, Enqueue(c) \/ StartJob(c) \/ ReleaseSlot(c)
      PROVE  LimiterProofs!Next
  <2>1. LimiterProofs!Run(c) \/ LimiterProofs!Start(c) \/ LimiterProofs!Finish(c)
    BY <1>2 DEF Enqueue, StartJob, ReleaseSlot, Limiter!Run, Limiter!Start, Limiter!Finish,
                LimiterProofs!Run, LimiterProofs!Start, LimiterProofs!Finish
  <2> QED
    BY <2>1 DEF LimiterProofs!Next
<1>3. ASSUME NEW c \in Calls, DebugCheck(c) \/ CallCheck(c) \/ Answer(c) \/ TimerFires(c)
      PROVE  UNCHANGED LimiterProofs!limiterVars
  BY <1>3 DEF DebugCheck, CallCheck, Answer, TimerFires, limiterVars, LimiterProofs!limiterVars
<1> QED
  BY <1>1, <1>2, <1>3 DEF QueueNext

\* The queue, seen through its limiter, is a limiter.
LEMMA QueueHasLimiterInv == QueueSpec => []LimiterProofs!LimiterInv
<1>1. QueueInit => LimiterProofs!Init
  BY DEF QueueInit, Limiter!Init, LimiterProofs!Init
<1>2. QueueSpec => LimiterProofs!Spec
  BY <1>1, QueueStepIsLimiterStep, PTL DEF QueueSpec, LimiterProofs!Spec
<1>3. LimiterProofs!MaxAssumption
  BY LimitAssumption DEF LimiterProofs!MaxAssumption
<1>4. LimiterProofs!Spec => []LimiterProofs!LimiterInv
  BY <1>3, LimiterProofs!LimiterCorrect
<1> QED
  BY <1>2, <1>4, PTL

\* Nor does the limiter change what a check does.
LEMMA QueueIsChecks == QueueSpec => Spec
<1>1. QueueInit => Init
  BY DEF QueueInit
<1>2. [QueueNext]_queueVars => [Next]_vars
  BY DEF QueueNext, queueVars, Enqueue, StartJob, ReleaseSlot, DebugCheck, CallCheck, Answer,
         TimerFires, Next, vars
<1> QED
  BY <1>1, <1>2, PTL DEF QueueSpec, Spec

(***************************************************************************)
(* Why the limit holds: a check that waits for its slot has not called     *)
(* Gemini, and one whose slot is given back has its answer.                *)
(***************************************************************************)
SlotInv ==
    \A c \in Calls : /\ task[c] \in {"queued", "starting"} => call[c] = Idle
                     /\ task[c] = "done" => call[c].pc \notin Awaiting

\* The limiter moves tasks from "new" only on Enqueue, and calls nobody who does not wait.
LEMMA LimiterStepKeepsSlots ==
  ASSUME LimiterProofs!LimiterInv, TypeOK, SlotInv, NEW c \in Calls, UNCHANGED vars,
         Enqueue(c) \/ StartJob(c) \/ ReleaseSlot(c)
  PROVE  SlotInv'
<1> USE DEF LimiterProofs!LimiterInv, LimiterProofs!TypeOK, LimiterProofs!TaskStates, vars
<1>1. CASE Enqueue(c)
  <2>1. call[c] = Idle /\ task' \in {[task EXCEPT ![c] = "starting"], [task EXCEPT ![c] = "queued"]}
    BY <1>1 DEF Enqueue, Limiter!Run
  <2> QED
    BY <2>1 DEF SlotInv
<1>2. CASE StartJob(c)
  <2>1. task' = [task EXCEPT ![c] = "running"]
    BY <1>2 DEF StartJob, Limiter!Start
  <2> QED
    BY <2>1 DEF SlotInv
<1>3. CASE ReleaseSlot(c)
  <2>1. call[c].pc \notin Awaiting
    BY <1>3 DEF ReleaseSlot, Awaiting
  <2>2. CASE task' = [task EXCEPT ![c] = "done"]
    BY <2>1, <2>2 DEF SlotInv
  <2>3. CASE waiters # <<>> /\ task' = [task EXCEPT ![c] = "done", ![Head(waiters)] = "starting"]
    <3> DEFINE h == Head(waiters)
    <3>1. 1 \in DOMAIN waiters /\ h = waiters[1] /\ h \in Calls
      BY <2>3
    <3>2. call[h] = Idle
      BY <3>1 DEF LimiterProofs!QueueIsExact, SlotInv
    <3>3. task' = [task EXCEPT ![c] = "done", ![h] = "starting"]
      BY <2>3
    <3> HIDE DEF h
    <3> QED
      BY <2>1, <3>1, <3>2, <3>3 DEF SlotInv
  <2> QED
    BY <1>3, <2>2, <2>3 DEF ReleaseSlot, Limiter!Finish
<1> QED
  BY <1>1, <1>2, <1>3

\* A check moves only while it runs, or past the limiter.
LEMMA CheckStepKeepsSlots ==
  ASSUME LimiterProofs!LimiterInv, TypeOK, SlotInv, NEW c \in Calls, UNCHANGED task,
         DebugCheck(c) \/ CallCheck(c) \/ Answer(c) \/ TimerFires(c)
  PROVE  SlotInv'
<1>1. \A d \in Calls \ {c} : call'[d] = call[d]
  BY DEF DebugCheck, CallCheck, Answer, TimerFires, CheckAndLog, Gemini, Headers, ErrorBody,
         Body, Breakdown, Timeout, TypeOK
<1>2. CASE DebugCheck(c) \/ CallCheck(c)
  <2>1. task[c] \in {"new", "running"}
    BY <1>2 DEF DebugCheck, CallCheck
  <2> QED
    BY <1>1, <2>1 DEF SlotInv
<1>3. CASE Answer(c) \/ TimerFires(c)
  <2>1. call[c].pc \in Awaiting
    BY <1>3 DEF Answer, TimerFires, Gemini, Headers, ErrorBody, Body, Breakdown, Timeout, Awaiting
  <2>2. call[c] # Idle
    BY <2>1 DEF Idle, Awaiting
  <2> QED
    BY <1>1, <2>1, <2>2 DEF SlotInv
<1> QED
  BY <1>2, <1>3

(***************************************************************************)
(* Never more checks of writings at Gemini than SIMILARITY_MAX_CONCURRENCY *)
(* for any number of calls: each of them holds one of the slots that the   *)
(* limiter counts.                                                         *)
(***************************************************************************)
THEOREM ChecksStayBounded == QueueSpec => []RequestsBounded
<1>1. QueueInit => SlotInv
  BY DEF QueueInit, Limiter!Init, Init, SlotInv, Idle, Awaiting
<1>2. /\ LimiterProofs!LimiterInv /\ ResultInv /\ SlotInv
      /\ [QueueNext]_queueVars
      => SlotInv'
  <2> SUFFICES ASSUME LimiterProofs!LimiterInv, ResultInv, SlotInv, [QueueNext]_queueVars
               PROVE  SlotInv'
    OBVIOUS
  <2>1. TypeOK
    BY DEF ResultInv
  <2>2. CASE UNCHANGED queueVars
    BY <2>2 DEF queueVars, SlotInv
  <2>3. ASSUME NEW c \in Calls, Enqueue(c) \/ StartJob(c) \/ ReleaseSlot(c)
        PROVE  SlotInv'
    <3>1. UNCHANGED vars
      BY <2>3 DEF Enqueue, StartJob, ReleaseSlot
    <3> QED
      BY <2>1, <2>3, <3>1, LimiterStepKeepsSlots
  <2>4. ASSUME NEW c \in Calls, DebugCheck(c) \/ CallCheck(c) \/ Answer(c) \/ TimerFires(c)
        PROVE  SlotInv'
    <3>1. UNCHANGED task
      BY <2>4 DEF DebugCheck, CallCheck, Answer, TimerFires, limiterVars
    <3> QED
      BY <2>1, <2>4, <3>1, CheckStepKeepsSlots
  <2> QED
    BY <2>2, <2>3, <2>4 DEF QueueNext
<1>3. LimiterProofs!LimiterInv /\ SlotInv => RequestsBounded
  <2> SUFFICES ASSUME LimiterProofs!LimiterInv, SlotInv
               PROVE  RequestsBounded
    OBVIOUS
  <2> DEFINE Waiting == {c \in Calls : task[c] # "new" /\ call[c].pc \in Awaiting}
             Slots == LimiterProofs!Holders
  <2>1. Waiting \subseteq Slots
    BY DEF SlotInv, Idle, Awaiting, LimiterProofs!LimiterInv, LimiterProofs!TypeOK,
           LimiterProofs!TaskStates, LimiterProofs!Holders
  <2>2. IsFiniteSet(Slots) /\ active = Cardinality(Slots) /\ active \in 0..Max
    <3>1. IsFiniteSet(LimiterProofs!Holders)
      BY DEF LimiterProofs!LimiterInv, LimiterProofs!IsFiniteSet, IsFiniteSet
    <3>2. active = Cardinality(LimiterProofs!Holders)
      BY DEF LimiterProofs!LimiterInv, LimiterProofs!SlotsAreCounted,
             LimiterProofs!Cardinality, Cardinality, LimiterProofs!IsFiniteSet, IsFiniteSet
    <3>3. active \in 0..Max
      BY DEF LimiterProofs!LimiterInv, LimiterProofs!TypeOK
    <3> QED
      BY <3>1, <3>2, <3>3
  <2> HIDE DEF Slots
  <2>3. Cardinality(Waiting) <= Cardinality(Slots) /\ Cardinality(Waiting) \in Nat
    BY <2>1, <2>2, FS_Subset, FS_CardinalityType
  <2> QED
    BY <2>2, <2>3, LimitAssumption DEF RequestsBounded
<1> QED
  BY <1>1, <1>2, <1>3, QueueHasLimiterInv, QueueIsChecks, ResultInvariant, PTL DEF QueueSpec

\* What the limiter starts is judged as before: the composition passes on Gemini's word only.
THEOREM QueuePassesAsGeminiSays == QueueSpec => []PassesOnGeminisWord /\ BreakdownsThrow
BY QueueIsChecks, PassesAsGeminiSays, BreakdownsAlwaysThrow, PTL
=============================================================================
