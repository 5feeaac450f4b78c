------------------------ MODULE ReferenceData_proofs ------------------------
(***************************************************************************)
(* The verse of the day is one per date, for every set of dates, verses    *)
(* and requests and any failures: the invariant, the property it implies   *)
(* and the refinement of OneVersePerDate.  The scripts that load the       *)
(* reference data keep their word for every file, every chunk size and any *)
(* number of failed, killed and repeated runs; and beside them the verse   *)
(* of the day stays one for all.                                           *)
(***************************************************************************)
EXTENDS ReferenceData, TLAPS

(* The verse of the day. *)

\* Calls that wait for the database, and calls that hold a verse.
Asking == [pc : {"findDailyVerse", "findRandomVerse"}, date : Dates, verse : {Null}]
Holding == [pc : {"assign", "findAgain", "returned"}, date : Dates, verse : Verses]

LEMMA TypesOfCalls ==
  ASSUME TypeOK, NEW r \in Requests
  PROVE  /\ req[r].pc \in {"findDailyVerse", "findRandomVerse"} => req[r] \in Asking
         /\ req[r].pc \in {"assign", "findAgain", "returned"} => req[r] \in Holding
<1>1. req[r] \in {Idle, Failed} \cup Asking \cup Holding
  BY DEF TypeOK, Asking, Holding
<1> QED
  BY <1>1 DEF Idle, Failed, Asking, Holding

LEMMA InitEstablishes == Init => VerseInv
BY DEF Init, VerseInv, TypeOK, Idle, Returned

(***************************************************************************)
(* Rows are only added, and a call becomes either one that has not         *)
(* answered, one about to look again at a row that is there, or one that   *)
(* answers what the table holds.                                           *)
(***************************************************************************)
LEMMA CallPreserves ==
  ASSUME VerseInv, NEW r \in Requests,
         NEW n \in {Idle, Failed} \cup Asking \cup Holding, req' = [req EXCEPT ![r] = n],
         verses' = verses, assigned' \in [Dates -> Verses \cup {Null}],
         \A d \in Dates : assigned[d] # Null => assigned'[d] = assigned[d],
         n.pc = "returned" => assigned'[n.date] = n.verse,
         n.pc = "findAgain" => assigned'[n.date] # Null
  PROVE  VerseInv'
<1>1. TypeOK'
  BY DEF VerseInv, TypeOK, Asking, Holding
<1>2. ASSUME NEW q \in Requests, req'[q].pc = "returned"
      PROVE  assigned'[req'[q].date] = req'[q].verse
  <2>1. CASE q = r
    BY <1>2, <2>1 DEF VerseInv, TypeOK
  <2>2. CASE q # r
    <3>1. req'[q] = req[q]
      BY <2>2 DEF VerseInv, TypeOK
    <3>2. req[q] \in Holding /\ assigned[req[q].date] = req[q].verse
      BY <1>2, <3>1, TypesOfCalls DEF VerseInv, Returned
    <3> QED
      BY <3>1, <3>2, NullAssumption DEF Holding
  <2> QED
    BY <2>1, <2>2
<1>3. ASSUME NEW q \in Requests, req'[q].pc = "findAgain"
      PROVE  assigned'[req'[q].date] # Null
  <2>1. CASE q = r
    BY <1>3, <2>1 DEF VerseInv, TypeOK
  <2>2. CASE q # r
    <3>1. req'[q] = req[q]
      BY <2>2 DEF VerseInv, TypeOK
    <3>2. req[q] \in Holding /\ assigned[req[q].date] # Null
      BY <1>3, <3>1, TypesOfCalls DEF VerseInv
    <3> QED
      BY <3>1, <3>2 DEF Holding
  <2> QED
    BY <2>1, <2>2
<1> QED
  BY <1>1, <1>2, <1>3 DEF VerseInv, Returned

(***************************************************************************)
(* What one step of a call does: the facts both the invariant and the      *)
(* refinement need.                                                        *)
(***************************************************************************)
Effect(r, n) ==
    /\ n \in {Idle, Failed} \cup Asking \cup Holding
    /\ req' = [req EXCEPT ![r] = n]
    /\ assigned' \in [Dates -> Verses \cup {Null}]
    /\ req[r].pc # "returned" /\ verses' = verses
    /\ n.pc = "returned" => assigned'[n.date] = n.verse /\ assigned' = assigned
    /\ n.pc = "findAgain" => assigned'[n.date] # Null
    /\ \/ assigned' = assigned
       \/ \E d \in Dates, v \in Verses :
             assigned[d] = Null /\ assigned' = [assigned EXCEPT ![d] = v]

LEMMA StepEffect ==
  ASSUME VerseInv, NEW r \in Requests, Get(r)
  PROVE  \E n : Effect(r, n)
<1>2. assigned \in [Dates -> Verses \cup {Null}] /\ verses \subseteq Verses
  BY DEF VerseInv, TypeOK
<1>3. CASE GetToday(r)
  <2>1. PICK date \in Dates :
          req' = [req EXCEPT ![r] = [pc |-> "findDailyVerse", date |-> date, verse |-> Null]]
    BY <1>3 DEF GetToday
  <2> DEFINE n == [pc |-> "findDailyVerse", date |-> date, verse |-> Null]
  <2>2. n \in Asking /\ n.pc = "findDailyVerse"
    BY DEF Asking
  <2>3. /\ req[r].pc = "idle" /\ assigned' = assigned /\ verses' = verses
        /\ req' = [req EXCEPT ![r] = n]
    <3>1. req[r].pc = "idle" /\ assigned' = assigned /\ verses' = verses
      BY <1>3 DEF GetToday, Idle
    <3> QED
      BY <2>1, <3>1
  <2> HIDE DEF n
  <2>4. Effect(r, n)
    BY <1>2, <2>2, <2>3 DEF Effect
  <2> QED
    BY <2>4
<1>4. CASE FindDailyVerse(r)
  <2>1. req[r] \in Asking
    BY <1>4, TypesOfCalls DEF FindDailyVerse, VerseInv
  <2> DEFINE hit == [req[r] EXCEPT !.pc = "returned", !.verse = assigned[req[r].date]]
             miss == [req[r] EXCEPT !.pc = "findRandomVerse"]
  <2>2. PICK n \in {Failed, hit, miss} :
          /\ req' = [req EXCEPT ![r] = n]
          /\ n = hit => assigned[req[r].date] # Null
    <3>1. hit.pc = "returned" /\ miss.pc = "findRandomVerse"
      BY <2>1 DEF Asking
    <3>2. PICK outcome \in Outcomes("findDailyVerse") :
            req' = [req EXCEPT ![r] =
                      IF outcome # "ok" THEN Failed
                      ELSE IF assigned[req[r].date] # Null THEN hit ELSE miss]
      BY <1>4 DEF FindDailyVerse
    <3> QED
      BY <3>1, <3>2 DEF Failed
  <2>3. /\ miss \in Asking /\ miss.pc = "findRandomVerse"
        /\ hit.pc = "returned" /\ hit.date = req[r].date /\ hit.verse = assigned[req[r].date]
        /\ assigned[req[r].date] # Null => hit \in Holding
    BY <1>2, <2>1 DEF Asking, Holding
  <2> HIDE DEF hit, miss
  <2>4. req[r].pc = "findDailyVerse" /\ assigned' = assigned /\ verses' = verses
    BY <1>4 DEF FindDailyVerse
  <2>5. /\ n \in {Idle, Failed} \cup Asking \cup Holding
        /\ n.pc = "returned" => n = hit
        /\ n.pc # "findAgain"
    BY <2>2, <2>3 DEF Failed
  <2>6. Effect(r, n)
    BY <1>2, <2>2, <2>3, <2>4, <2>5 DEF Effect
  <2> QED
    BY <2>6
<1>5. CASE FindRandomVerse(r)
  <2>1. req[r] \in Asking
    BY <1>5, TypesOfCalls DEF FindRandomVerse, VerseInv
  <2>2. CASE \E v \in verses : req' = [req EXCEPT ![r] = [@ EXCEPT !.pc = "assign", !.verse = v]]
    <3>1. PICK v \in verses : req' = [req EXCEPT ![r] = [@ EXCEPT !.pc = "assign", !.verse = v]]
      BY <2>2
    <3> DEFINE n == [req[r] EXCEPT !.pc = "assign", !.verse = v]
    <3>2. n \in Holding /\ n.pc = "assign"
      BY <1>2, <2>1 DEF Asking, Holding
    <3>3. Effect(r, n)
      BY <1>2, <1>5, <3>1, <3>2 DEF FindRandomVerse, Effect
    <3> QED
      BY <3>3
  <2>3. CASE req' = [req EXCEPT ![r] = Failed]
    <3>1. Effect(r, Failed)
      BY <1>2, <1>5, <2>3 DEF FindRandomVerse, Effect, Failed
    <3> QED
      BY <3>1
  <2> QED
    BY <1>5, <2>2, <2>3 DEF FindRandomVerse
<1>6. CASE Assign(r)
  <2>1. req[r] \in Holding
    BY <1>6, TypesOfCalls DEF Assign, VerseInv
  <2> DEFINE again == [req[r] EXCEPT !.pc = "findAgain"]
             d == req[r].date
  <2>2. PICK outcome \in Outcomes("assign") :
          /\ assigned' = IF outcome = "error" \/ assigned[d] # Null THEN assigned
                         ELSE [assigned EXCEPT ![d] = req[r].verse]
          /\ req' = [req EXCEPT ![r] = IF outcome = "ok" THEN again ELSE Failed]
    BY <1>6 DEF Assign
  <2>3. again \in Holding /\ again.pc = "findAgain" /\ again.date = d
    BY <2>1 DEF Holding
  <2>4. d \in Dates /\ req[r].verse \in Verses /\ req[r].verse # Null
    BY <2>1, NullAssumption DEF Holding
  <2> HIDE DEF again, d
  <2>5. /\ assigned' \in [Dates -> Verses \cup {Null}]
        /\ \/ assigned' = assigned
           \/ assigned[d] = Null /\ assigned' = [assigned EXCEPT ![d] = req[r].verse]
        /\ outcome = "ok" => assigned'[d] # Null
    BY <1>2, <2>2, <2>4
  <2>6. CASE outcome = "ok"
    <3>1. Effect(r, again)
      BY <1>6, <2>2, <2>3, <2>4, <2>5, <2>6 DEF Assign, Effect
    <3> QED
      BY <3>1
  <2>7. CASE outcome # "ok"
    <3>1. Effect(r, Failed)
      BY <1>6, <2>2, <2>4, <2>5, <2>7 DEF Assign, Effect, Failed
    <3> QED
      BY <3>1
  <2> QED
    BY <2>6, <2>7
<1>7. CASE FindAgain(r)
  <2>1. req[r] \in Holding /\ assigned[req[r].date] # Null
    BY <1>7, TypesOfCalls DEF FindAgain, VerseInv
  <2> DEFINE hit == [req[r] EXCEPT !.pc = "returned", !.verse = assigned[req[r].date]]
  <2>2. PICK n \in {Failed, hit} : req' = [req EXCEPT ![r] = n]
    BY <1>7, <2>1 DEF FindAgain
  <2>3. /\ hit.pc = "returned" /\ hit.date = req[r].date /\ hit.verse = assigned[req[r].date]
        /\ hit \in Holding
    BY <1>2, <2>1 DEF Holding
  <2> HIDE DEF hit
  <2>4. req[r].pc = "findAgain" /\ assigned' = assigned /\ verses' = verses
    BY <1>7 DEF FindAgain
  <2>5. /\ n \in {Idle, Failed} \cup Asking \cup Holding
        /\ n.pc = "returned" => n = hit
        /\ n.pc # "findAgain"
    BY <2>2, <2>3 DEF Failed
  <2>6. Effect(r, n)
    BY <1>2, <2>2, <2>3, <2>4, <2>5 DEF Effect
  <2> QED
    BY <2>6
<1> QED
  BY <1>3, <1>4, <1>5, <1>6, <1>7 DEF Get

LEMMA StepPreserves == VerseInv /\ [Next]_vars => VerseInv'
<1> SUFFICES ASSUME VerseInv, [Next]_vars PROVE VerseInv'
  OBVIOUS
<1>1. CASE \E r \in Requests : Get(r)
  <2>1. PICK r \in Requests : Get(r)
    BY <1>1
  <2>2. PICK n : Effect(r, n)
    BY <2>1, StepEffect
  <2>3. \A d \in Dates : assigned[d] # Null => assigned'[d] = assigned[d]
    BY <2>2 DEF Effect, VerseInv, TypeOK
  <2> QED
    BY <2>2, <2>3, CallPreserves DEF Effect
<1>2. CASE \E rows \in SUBSET Verses : Load(rows)
  BY <1>2 DEF Load, VerseInv, TypeOK, Returned
<1>3. CASE UNCHANGED vars
  BY <1>3 DEF vars, VerseInv, TypeOK, Returned
<1> QED
  BY <1>1, <1>2, <1>3 DEF Next

\* What was answered stands in the table, always.
THEOREM VerseInvariant == Spec => []VerseInv
BY InitEstablishes, StepPreserves, PTL DEF Spec

(***************************************************************************)
(* Everyone who asks for a date gets the same verse, however many requests *)
(* race to assign it and whatever fails.                                   *)
(***************************************************************************)
THEOREM SameVerse == Spec => []SameVerseForAll
<1>1. VerseInv => SameVerseForAll
  BY DEF VerseInv, SameVerseForAll, Returned
<1> QED
  BY <1>1, VerseInvariant, PTL

\* The verse of a date never changes.
THEOREM AssignmentFinal == Spec => AssignmentIsFinal
<1>1. VerseInv /\ [Next]_vars =>
        [\A d \in Dates : assigned[d] # Null => assigned'[d] = assigned[d]]_vars
  <2> SUFFICES ASSUME VerseInv, Next, NEW d \in Dates, assigned[d] # Null
               PROVE  assigned'[d] = assigned[d]
    OBVIOUS
  <2>1. CASE \E r \in Requests : Get(r)
    BY <2>1, StepEffect DEF Effect, VerseInv, TypeOK
  <2>2. CASE \E rows \in SUBSET Verses : Load(rows)
    BY <2>2 DEF Load
  <2> QED
    BY <2>1, <2>2 DEF Next
<1> QED
  BY <1>1, VerseInvariant, PTL DEF Spec, AssignmentIsFinal

-----------------------------------------------------------------------------
\* The answer the abstract specification sees.
Shown(r) == IF req[r].pc = "returned" THEN <<req[r].date, req[r].verse>> ELSE Null

(***************************************************************************)
(* Every behaviour of the calls is one of OneVersePerDate: a step chooses  *)
(* a verse for a date without one, answers one request with the verse of   *)
(* its date, or is invisible.                                              *)
(***************************************************************************)
THEOREM Refinement == Spec => ImplementsOneVersePerDate
<1>1. Init => Abstract!Init
  BY DEF Init, Abstract!Init, Idle
<1>2. VerseInv /\ [Next]_vars => [Abstract!Next]_<<assigned, [r \in Requests |-> Shown(r)]>>
  <2> SUFFICES ASSUME VerseInv, [Next]_vars
               PROVE  [Abstract!Next]_<<assigned, [r \in Requests |-> Shown(r)]>>
    OBVIOUS
  <2>1. CASE UNCHANGED vars \/ \E rows \in SUBSET Verses : Load(rows)
    BY <2>1 DEF vars, Load, Shown
  <2>2. CASE \E r \in Requests : Get(r)
    <3>1. PICK r \in Requests : Get(r)
      BY <2>2
    <3>2. PICK n : Effect(r, n)
      BY <3>1, StepEffect
    <3>3. /\ req'[r] = n
          /\ \A q \in Requests : q # r => req'[q] = req[q]
          /\ Shown(r) = Null
      BY <3>2 DEF Effect, VerseInv, TypeOK, Shown
    <3>4. CASE n.pc = "returned"
      <4>1. n \in Holding /\ assigned' = assigned /\ assigned[n.date] = n.verse
        BY <3>2, <3>4 DEF Effect, Holding, Asking, Idle, Failed
      <4>2. n.date \in Dates /\ assigned[n.date] # Null
        BY <4>1, NullAssumption DEF Holding
      <4>3. [q \in Requests |-> Shown(q)]' =
              [[q \in Requests |-> Shown(q)] EXCEPT ![r] = <<n.date, assigned[n.date]>>]
        BY <3>3, <3>4, <4>1 DEF Shown
      <4>4. Abstract!Answer(r, n.date)
        BY <3>3, <4>1, <4>2, <4>3 DEF Abstract!Answer, Shown
      <4> QED
        BY <4>2, <4>4 DEF Abstract!Next
    <3>5. CASE n.pc # "returned"
      <4>1. \A q \in Requests : Shown(q)' = Shown(q)
        BY <3>3, <3>5 DEF Shown
      <4>2. [q \in Requests |-> Shown(q)]' = [q \in Requests |-> Shown(q)]
        BY <4>1
      <4>3. CASE assigned' = assigned
        BY <4>2, <4>3
      <4>4. CASE \E d \in Dates, v \in Verses :
                    assigned[d] = Null /\ assigned' = [assigned EXCEPT ![d] = v]
        BY <4>2, <4>4 DEF Abstract!Next, Abstract!Choose, Shown
      <4> QED
        BY <3>2, <4>3, <4>4 DEF Effect
    <3> QED
      BY <3>4, <3>5
  <2> QED
    BY <2>1, <2>2 DEF Next
<1>3. VerseInv /\ [Next]_vars =>
        [Abstract!Next]_<<assigned, [r \in Requests |-> IF req[r].pc = "returned"
                                        THEN <<req[r].date, req[r].verse>> ELSE Null]>>
  BY <1>2 DEF Shown
<1> QED
  BY <1>1, <1>3, VerseInvariant, PTL DEF Spec, ImplementsOneVersePerDate, Abstract!Spec

-----------------------------------------------------------------------------
(* The scripts. *)

LEMMA Files ==
    /\ Len(VerseFile) \in Nat /\ DOMAIN VerseFile = 1..Len(VerseFile)
    /\ \A n \in DOMAIN VerseFile : VerseFile[n] \in Verses
    /\ Len(EmotionFile) \in Nat /\ DOMAIN EmotionFile = 1..Len(EmotionFile)
    /\ 1 \in DOMAIN EmotionFile
    /\ \A i \in DOMAIN EmotionFile : EmotionFile[i] \subseteq Verses
BY FileAssumption

\* The loader and the service write different tables; rows of verses only appear.
LEMMA VersesStay ==
    ASSUME [DataNext]_<<vars, scriptVars>>
    PROVE  verses \subseteq verses'
<1>1. CASE UNCHANGED <<vars, scriptVars>>
  BY <1>1 DEF vars
<1>2. CASE UpsertChunk
  BY <1>2 DEF UpsertChunk, Load
<1>3. CASE \/ SeedVerses \/ SeedEmotions \/ ResolveVerseId \/ NextEmotion \/ UpsertEmotions \/ Kill
  BY <1>3 DEF SeedVerses, SeedEmotions, ResolveVerseId, NextEmotion, UpsertEmotions, Kill, vars
<1>4. ASSUME NEW r \in Requests, Get(r) PROVE verses' = verses
  BY <1>4 DEF Get, GetToday, FindDailyVerse, FindRandomVerse, Assign, FindAgain
<1> QED
  BY <1>1, <1>2, <1>3, <1>4 DEF DataNext

-----------------------------------------------------------------------------
(* seed-verses.mjs *)

(***************************************************************************)
(* What a run of seed-verses.mjs rests on: the chunks before its index are *)
(* stored.  SeedIsComplete alone says nothing of a run under way.          *)
(***************************************************************************)
SeedInv ==
    /\ verseSeed \in {NoRun, Failed, [pc |-> "done"]} \cup [pc : {"upsert"}, next : Nat]
    /\ verseSeed.pc = "upsert" =>
          \A n \in DOMAIN VerseFile : n <= verseSeed.next => VerseFile[n] \in verses
    /\ SeedIsComplete

LEMMA SeedStep == SeedInv /\ [DataNext]_<<vars, scriptVars>> => SeedInv'
<1> SUFFICES ASSUME SeedInv, [DataNext]_<<vars, scriptVars>>
             PROVE  SeedInv'
  OBVIOUS
<1>1. verses \subseteq verses'
  BY VersesStay
<1>2. CASE verseSeed' = verseSeed
  BY <1>1, <1>2 DEF SeedInv, SeedIsComplete
<1>3. CASE SeedVerses
  BY <1>3, Files DEF SeedVerses, SeedInv, SeedIsComplete
<1>4. CASE UpsertChunk
  <2>1. /\ verseSeed.pc = "upsert" /\ verseSeed.next \in Nat
        /\ verseSeed = [pc |-> "upsert", next |-> verseSeed.next]
    BY <1>4 DEF UpsertChunk, SeedInv, NoRun, Failed
  <2> DEFINE next == verseSeed.next + CHUNK_SIZE
  <2>2. PICK outcome \in Outcomes("upsertChunk") :
          /\ Load(IF outcome = "error" THEN {} ELSE Chunk(verseSeed.next))
          /\ verseSeed' = IF outcome # "ok" THEN Failed
                          ELSE IF next < Len(VerseFile) THEN [verseSeed EXCEPT !.next = next]
                          ELSE [pc |-> "done"]
    BY <1>4 DEF UpsertChunk
  <2>3. CASE outcome # "ok"
    BY <2>2, <2>3 DEF SeedInv, SeedIsComplete, Failed
  <2>4. CASE outcome = "ok"
    <3>1. \A n \in DOMAIN VerseFile : n <= next => VerseFile[n] \in verses'
      <4> SUFFICES ASSUME NEW n \in DOMAIN VerseFile, n <= next
                   PROVE  VerseFile[n] \in verses'
        OBVIOUS
      <4>1. CASE n <= verseSeed.next
        BY <1>1, <2>1, <4>1 DEF SeedInv
      <4>2. CASE verseSeed.next < n
        <5>1. VerseFile[n] \in Chunk(verseSeed.next)
          BY <4>2 DEF Chunk
        <5> QED
          BY <2>2, <2>4, <5>1 DEF Load
      <4> QED
        BY <2>1, <4>1, <4>2, Files
    <3>2. CASE next < Len(VerseFile)
      <4>1. verseSeed' = [pc |-> "upsert", next |-> next] /\ next \in Nat
        BY <2>1, <2>2, <2>4, <3>2, FileAssumption
      <4> HIDE DEF next
      <4> QED
        BY <3>1, <4>1 DEF SeedInv, SeedIsComplete
    <3>3. CASE ~(next < Len(VerseFile))
      <4>1. verseSeed' = [pc |-> "done"]
        BY <2>2, <2>4, <3>3
      <4>2. \A n \in DOMAIN VerseFile : VerseFile[n] \in verses'
        BY <2>1, <3>1, <3>3, Files, FileAssumption
      <4> QED
        BY <4>1, <4>2 DEF SeedInv, SeedIsComplete
    <3> QED
      BY <3>2, <3>3
  <2> QED
    BY <2>3, <2>4
<1>5. CASE Kill
  <2>1. verseSeed' \in {verseSeed, Failed}
    BY <1>5 DEF Kill
  <2>2. CASE verseSeed' = Failed
    BY <2>2 DEF SeedInv, SeedIsComplete, Failed
  <2> QED
    BY <1>2, <2>1, <2>2
<1>6. CASE SeedEmotions \/ ResolveVerseId \/ NextEmotion \/ UpsertEmotions
  BY <1>2, <1>6 DEF SeedEmotions, ResolveVerseId, NextEmotion, UpsertEmotions
<1> QED
  BY <1>2, <1>3, <1>4, <1>5, <1>6 DEF DataNext, scriptVars

(***************************************************************************)
(* A run of seed-verses.mjs that is done has stored the whole file, for    *)
(* every file and chunk size.                                              *)
(***************************************************************************)
THEOREM SeedCompletes == DataSpec => []SeedIsComplete
<1>1. DataInit => SeedInv
  BY DEF DataInit, SeedInv, SeedIsComplete, NoRun
<1>2. SeedInv => SeedIsComplete
  BY DEF SeedInv
<1> QED
  BY <1>1, <1>2, SeedStep, PTL DEF DataSpec

-----------------------------------------------------------------------------
(* seed-emotion-verses.mjs *)

Pairs == {<<i, v>> : i \in DOMAIN EmotionFile, v \in Verses}

\* The pairs of the file whose verse is stored.
Curated == {p \in Pairs : p[2] \in EmotionFile[p[1]] /\ p[2] \in verses}

\* Every curated address of the first emotions is in the set of pairs.
AccountsFor(first, pairs) ==
    \A i \in DOMAIN EmotionFile : i <= first => \A v \in EmotionFile[i] : <<i, v>> \in pairs

SeedRuns ==
    {NoRun, Failed}
      \cup [pc : {"done"}, missing : SUBSET Pairs]
      \cup [pc : {"resolve", "save"}, at : DOMAIN EmotionFile, waiting : SUBSET Verses,
            rows : SUBSET Pairs, missing : SUBSET Pairs]

(***************************************************************************)
(* The inductive invariant of seed-emotion-verses.mjs: what was looked up  *)
(* is a row or a miss, of all emotions before the present one, and rows    *)
(* are curated and stored, in the script as in the table.                  *)
(***************************************************************************)
Accounted(seed) ==
    LET found == seed.rows \cup seed.missing
    IN  /\ seed.pc = "resolve" =>
              /\ AccountsFor(seed.at - 1, found)
              /\ seed.waiting \subseteq EmotionFile[seed.at]
              /\ \A v \in EmotionFile[seed.at] : v \in seed.waiting \/ <<seed.at, v>> \in found
        /\ seed.pc = "save" => AccountsFor(Len(EmotionFile), found)
        /\ seed.pc \in {"resolve", "save"} => seed.rows \subseteq Curated
        /\ seed.pc = "done" => AccountsFor(Len(EmotionFile), emotionVerses \cup seed.missing)

EmotionInv ==
    /\ emotionSeed \in SeedRuns
    /\ emotionVerses \subseteq Curated
    /\ Accounted(emotionSeed)

LEMMA QuietEmotionStep ==
  ASSUME EmotionInv, verses \subseteq verses', emotionVerses' = emotionVerses,
         emotionSeed' \in {emotionSeed, Failed}
  PROVE  EmotionInv'
<1>1. Curated \subseteq Curated'
  BY DEF Curated
<1>2. CASE emotionSeed' = Failed
  BY <1>1, <1>2 DEF EmotionInv, SeedRuns, Accounted, Failed
<1>3. CASE emotionSeed' = emotionSeed
  BY <1>1, <1>3 DEF EmotionInv, SeedRuns, Accounted, AccountsFor
<1> QED
  BY <1>2, <1>3

LEMMA EmotionStep == EmotionInv /\ [DataNext]_<<vars, scriptVars>> => EmotionInv'
<1> SUFFICES ASSUME EmotionInv, [DataNext]_<<vars, scriptVars>>
             PROVE  EmotionInv'
  OBVIOUS
<1> DEFINE at == emotionSeed.at
           found == emotionSeed.rows \cup emotionSeed.missing
<1>1. verses \subseteq verses'
  BY VersesStay
<1>2. Curated \subseteq Curated'
  BY <1>1 DEF Curated
<1>3. emotionSeed.pc \in {"resolve", "save"} =>
        /\ emotionSeed \in [pc : {"resolve", "save"}, at : DOMAIN EmotionFile,
                            waiting : SUBSET Verses, rows : SUBSET Pairs, missing : SUBSET Pairs]
        /\ at \in 1..Len(EmotionFile) /\ EmotionFile[at] \subseteq Verses
  BY Files DEF EmotionInv, SeedRuns, NoRun, Failed
<1>4. CASE emotionVerses' = emotionVerses /\ emotionSeed' \in {emotionSeed, Failed}
  BY <1>1, <1>4, QuietEmotionStep
<1>5. CASE SeedEmotions
  <2>1. /\ emotionSeed' = [pc |-> "resolve", at |-> 1, waiting |-> EmotionFile[1],
                           rows |-> {}, missing |-> {}]
        /\ emotionVerses' = emotionVerses
    BY <1>5 DEF SeedEmotions
  <2>2. emotionSeed' \in SeedRuns
    BY <2>1, Files DEF SeedRuns
  <2>3. \A i \in DOMAIN EmotionFile : ~(i <= 1 - 1)
    BY Files
  <2>4. Accounted(emotionSeed)'
    BY <2>1, <2>3 DEF Accounted, AccountsFor
  <2> QED
    BY <1>2, <2>1, <2>2, <2>4 DEF EmotionInv
<1>6. CASE ResolveVerseId
  <2>1. emotionSeed.pc = "resolve" /\ verses' = verses /\ emotionVerses' = emotionVerses
    BY <1>6 DEF ResolveVerseId, vars
  <2>2. PICK v \in emotionSeed.waiting, outcome \in Outcomes("resolveVerseId") :
          emotionSeed' =
            IF outcome # "ok" THEN Failed
            ELSE IF v \in verses
            THEN [emotionSeed EXCEPT !.waiting = @ \ {v}, !.rows = @ \cup {<<at, v>>}]
            ELSE [emotionSeed EXCEPT !.waiting = @ \ {v}, !.missing = @ \cup {<<at, v>>}]
    BY <1>6 DEF ResolveVerseId
  <2>3. /\ v \in EmotionFile[at] /\ <<at, v>> \in Pairs
        /\ v \in verses => <<at, v>> \in Curated
    <3>1. v \in EmotionFile[at] /\ v \in Verses /\ at \in DOMAIN EmotionFile
      BY <1>3, <2>1 DEF EmotionInv, Accounted
    <3> HIDE DEF at
    <3>2. \A i \in DOMAIN EmotionFile, w \in Verses : <<i, w>> \in Pairs
      BY DEF Pairs
    <3> QED
      BY <3>1, <3>2 DEF Curated
  <2> DEFINE rows == IF v \in verses THEN emotionSeed.rows \cup {<<at, v>>} ELSE emotionSeed.rows
             missing == IF v \in verses THEN emotionSeed.missing
                        ELSE emotionSeed.missing \cup {<<at, v>>}
             n == [pc |-> "resolve", at |-> at, waiting |-> emotionSeed.waiting \ {v},
                   rows |-> rows, missing |-> missing]
  <2>4. emotionSeed' \in {Failed, n}
    BY <1>3, <2>1, <2>2
  <2>5. /\ rows \cup missing = found \cup {<<at, v>>}
        /\ rows \subseteq Curated
        /\ rows \in SUBSET Pairs /\ missing \in SUBSET Pairs
    BY <1>3, <2>1, <2>3 DEF EmotionInv, Accounted
  <2> HIDE DEF rows, missing
  <2>6. n \in SeedRuns
    BY <1>3, <2>1, <2>5 DEF SeedRuns
  <2>7. Accounted(n)
    BY <2>1, <2>3, <2>5 DEF EmotionInv, Accounted, AccountsFor
  <2>8. CASE emotionSeed' = n
    <3>1. Curated' = Curated
      BY <2>1 DEF Curated
    <3>2. Accounted(emotionSeed)'
      BY <2>1, <2>7, <2>8, <3>1 DEF Accounted
    <3> HIDE DEF n
    <3> QED
      BY <2>1, <2>6, <2>8, <3>1, <3>2 DEF EmotionInv
  <2>9. CASE emotionSeed' = Failed
    BY <1>4, <2>1, <2>9
  <2> QED
    BY <2>4, <2>8, <2>9
<1>7. CASE NextEmotion
  <2>1. /\ emotionSeed.pc = "resolve" /\ emotionSeed.waiting = {}
        /\ verses' = verses /\ emotionVerses' = emotionVerses /\ Curated' = Curated
    BY <1>7 DEF NextEmotion, vars, Curated
  <2>2. AccountsFor(at, found)
    <3>1. \A i \in DOMAIN EmotionFile : i <= at => i <= at - 1 \/ i = at
      BY <1>3, <2>1, Files
    <3>2. AccountsFor(at - 1, found) /\ \A v \in EmotionFile[at] : <<at, v>> \in found
      BY <2>1 DEF EmotionInv, Accounted
    <3> QED
      BY <3>1, <3>2 DEF AccountsFor
  <2>3. emotionSeed.rows \subseteq Curated
    BY <2>1 DEF EmotionInv, Accounted
  <2>4. CASE at < Len(EmotionFile)
    <3> DEFINE n == [pc |-> "resolve", at |-> at + 1, waiting |-> EmotionFile[at + 1],
                     rows |-> emotionSeed.rows, missing |-> emotionSeed.missing]
    <3>1. emotionSeed' = n
      BY <1>3, <1>7, <2>1, <2>4 DEF NextEmotion
    <3>2. at + 1 \in DOMAIN EmotionFile /\ (at + 1) - 1 = at
      BY <1>3, <2>1, <2>4, Files
    <3>3. n \in SeedRuns
      BY <1>3, <2>1, <3>2, Files DEF SeedRuns
    <3>4. Accounted(emotionSeed)'
      BY <2>1, <2>2, <2>3, <3>1, <3>2 DEF Accounted, AccountsFor
    <3> HIDE DEF n
    <3> QED
      BY <2>1, <3>1, <3>3, <3>4 DEF EmotionInv
  <2>5. CASE ~(at < Len(EmotionFile))
    <3> DEFINE n == [emotionSeed EXCEPT !.pc = "save"]
    <3>1. emotionSeed' = n
      BY <1>7, <2>5 DEF NextEmotion
    <3>2. /\ n \in SeedRuns
          /\ n.pc = "save" /\ n.rows = emotionSeed.rows /\ n.missing = emotionSeed.missing
      BY <1>3, <2>1 DEF SeedRuns
    <3>3. at = Len(EmotionFile)
      BY <1>3, <2>1, <2>5, Files
    <3> HIDE DEF n
    <3>4. Accounted(emotionSeed)'
      BY <2>1, <2>2, <2>3, <3>1, <3>2, <3>3 DEF Accounted, AccountsFor
    <3> QED
      BY <2>1, <3>1, <3>2, <3>4 DEF EmotionInv
  <2> QED
    BY <2>4, <2>5
<1>8. CASE UpsertEmotions
  <2>1. emotionSeed.pc = "save" /\ verses' = verses /\ Curated' = Curated
    BY <1>8 DEF UpsertEmotions, vars, Curated
  <2>2. /\ emotionVerses \subseteq Curated /\ emotionSeed.rows \subseteq Curated
        /\ AccountsFor(Len(EmotionFile), found)
    BY <2>1 DEF EmotionInv, Accounted
  <2>3. PICK outcome :
          /\ emotionVerses' = IF outcome = "error" THEN emotionVerses
                              ELSE emotionVerses \cup emotionSeed.rows
          /\ emotionSeed' = IF outcome # "ok" THEN Failed
                            ELSE [pc |-> "done", missing |-> emotionSeed.missing]
    BY <1>8 DEF UpsertEmotions
  <2>4. emotionVerses' \subseteq Curated'
    BY <2>1, <2>2, <2>3
  <2>5. CASE outcome # "ok"
    BY <2>3, <2>4, <2>5 DEF EmotionInv, SeedRuns, Accounted, Failed
  <2>6. CASE outcome = "ok"
    <3>1. /\ emotionSeed' = [pc |-> "done", missing |-> emotionSeed.missing]
          /\ emotionVerses' = emotionVerses \cup emotionSeed.rows
      BY <2>3, <2>6
    <3>2. emotionSeed' \in SeedRuns
      BY <1>3, <2>1, <3>1 DEF SeedRuns
    <3>3. Accounted(emotionSeed)'
      BY <2>2, <3>1 DEF Accounted, AccountsFor
    <3> QED
      BY <2>4, <3>2, <3>3 DEF EmotionInv
  <2> QED
    BY <2>5, <2>6
<1>9. CASE Kill
  BY <1>4, <1>9 DEF Kill
<1>10. CASE \/ SeedVerses \/ UpsertChunk \/ UNCHANGED scriptVars
  BY <1>4, <1>10 DEF SeedVerses, UpsertChunk, scriptVars
<1> QED
  BY <1>5, <1>6, <1>7, <1>8, <1>9, <1>10 DEF DataNext

(***************************************************************************)
(* After a run of seed-emotion-verses.mjs that is done, every curated      *)
(* address is a candidate or was reported missing, for every file and      *)
(* whatever is loaded meanwhile; and no candidate is uncurated.            *)
(***************************************************************************)
THEOREM ReportAccounts == DataSpec => []ReportIsAccurate
<1>1. DataInit => EmotionInv
  BY DEF DataInit, EmotionInv, SeedRuns, Accounted, NoRun
<1>2. EmotionInv => ReportIsAccurate
  <2> SUFFICES ASSUME EmotionInv, NEW i \in DOMAIN EmotionFile
               PROVE  /\ FindEmotionVerseCandidates(i) \subseteq EmotionFile[i]
                      /\ emotionSeed.pc = "done" =>
                           \A v \in EmotionFile[i] : \/ v \in FindEmotionVerseCandidates(i)
                                                    \/ <<i, v>> \in emotionSeed.missing
    BY DEF ReportIsAccurate
  <2>1. \A v : <<i, v>> \in emotionVerses => v \in EmotionFile[i] /\ v \in verses
    BY DEF EmotionInv, Curated
  <2>2. emotionSeed.pc = "done" =>
          \A v \in EmotionFile[i] : <<i, v>> \in emotionVerses \cup emotionSeed.missing
    BY Files DEF EmotionInv, Accounted, AccountsFor
  <2> QED
    BY <2>1, <2>2 DEF FindEmotionVerseCandidates
<1> QED
  BY <1>1, <1>2, EmotionStep, PTL DEF DataSpec

-----------------------------------------------------------------------------
(* The service beside the scripts. *)

\* The scripts are to the service what Load is: verses that appear.
LEMMA ScriptsOnlyLoad == DataSpec => Spec
<1>1. [DataNext]_<<vars, scriptVars>> => [Next]_vars
  <2> SUFFICES ASSUME [DataNext]_<<vars, scriptVars>>
               PROVE  [Next]_vars
    OBVIOUS
  <2>1. CASE UpsertChunk
    <3>1. PICK rows \in {{}, Chunk(verseSeed.next)} : Load(rows)
      BY <2>1 DEF UpsertChunk
    <3>2. rows \in SUBSET Verses
      BY <3>1, Files DEF Chunk
    <3> QED
      BY <3>1, <3>2 DEF Next
  <2>2. CASE \/ SeedVerses \/ SeedEmotions \/ ResolveVerseId \/ NextEmotion \/ UpsertEmotions
             \/ Kill \/ UNCHANGED <<vars, scriptVars>>
    BY <2>2 DEF SeedVerses, SeedEmotions, ResolveVerseId, NextEmotion, UpsertEmotions, Kill, vars
  <2>3. ASSUME NEW r \in Requests, Get(r) PROVE Next
    BY <2>3 DEF Next
  <2> QED
    BY <2>1, <2>2, <2>3 DEF DataNext
<1>2. DataInit => Init
  BY DEF DataInit
<1> QED
  BY <1>1, <1>2, PTL DEF DataSpec, Spec

(***************************************************************************)
(* While the scripts load, fail and are repeated, everyone still gets the  *)
(* same verse for a date, and it does not change.                          *)
(***************************************************************************)
THEOREM SameVerseWhileLoading == DataSpec => []SameVerseForAll /\ AssignmentIsFinal
BY ScriptsOnlyLoad, SameVerse, AssignmentFinal, PTL
=============================================================================
