------------------------- MODULE StatsService_proofs -------------------------
(***************************************************************************)
(* The streak shown to a user is backed by grass, for every set of users,  *)
(* dates, concurrent calls and failures.                                   *)
(*                                                                         *)
(* The argument: counts above zero never return to zero (WriteActivity     *)
(* stores a natural number plus one), so a window that was backed when a   *)
(* snapshot was taken is backed however late the snapshot is used; and the *)
(* row that is saved covers the snapshot's window, possibly with today,    *)
(* whose cell the same call has written already.                           *)
(*                                                                         *)
(* And no writing is counted twice: a snapshot or a count that was read    *)
(* never exceeds the calls that had done their write by then, and the call *)
(* that adds one to it is not among these.  Nor is one lost that was       *)
(* recorded alone: no snapshot can be older than it.                       *)
(***************************************************************************)
EXTENDS StatsHistory, FiniteSetTheorems, TLAPS

\* Counts stay above zero once they are.
GrassGrows == \A u \in Users, day \in Dates : daily[u][day] > 0 => daily'[u][day] > 0

\* A call that is not idle carries a user, a day, a snapshot and a count.
LEMMA ActiveCall ==
  ASSUME TypeOK, NEW w \in Workers, rec[w].pc \in CallStates
  PROVE  rec[w] \in Calls
<1>1. rec[w] \in {IdleCall} \cup Calls
  BY DEF TypeOK
<1>2. rec[w] # IdleCall
  BY DEF IdleCall, CallStates
<1> QED
  BY <1>1, <1>2

\* The streak rules stay within the natural numbers.
LEMMA StreakType ==
  ASSUME NEW s \in Statistics, NEW today \in Dates
  PROVE  NewStatistics(s, today) \in Statistics
<1> USE NoDateAssumption, DatesAssumption DEF Statistics
<1>1. CASE s.lastWrittenDate = NoDate
  BY <1>1 DEF NewStatistics, CalculateStreak
<1>2. CASE s.lastWrittenDate # NoDate
  <2>1. s.lastWrittenDate \in Dates
    BY <1>2
  <2>2. CASE today - s.lastWrittenDate <= 0
    BY <2>1, <2>2, <1>2 DEF NewStatistics, CalculateStreak, DiffInUtcDays, MaxOf
  <2>3. CASE today - s.lastWrittenDate = 1
    BY <2>1, <2>3, <1>2 DEF NewStatistics, CalculateStreak, DiffInUtcDays, MaxOf
  <2>4. CASE today - s.lastWrittenDate > 1
    BY <2>1, <2>4, <1>2 DEF NewStatistics, CalculateStreak, DiffInUtcDays, MaxOf
  <2>5. \/ today - s.lastWrittenDate <= 0
        \/ today - s.lastWrittenDate = 1
        \/ today - s.lastWrittenDate > 1
    <3> DEFINE last == s.lastWrittenDate
    <3>1. last \in Int /\ today \in Int
      BY <2>1
    <3> HIDE DEF last
    <3>2. \/ today - last <= 0
          \/ today - last = 1
          \/ today - last > 1
      BY <3>1
    <3> QED
      BY <3>2 DEF last
  <2> QED
    BY <2>2, <2>3, <2>4, <2>5
<1> QED
  BY <1>1, <1>2

\* The row computed from a backed snapshot is backed, once today's cell is.
LEMMA StreakExtends ==
  ASSUME TypeOK, NEW u \in Users, NEW s \in Statistics, NEW today \in Dates,
         WindowHolds(u, s), daily[u][today] > 0
  PROVE  WindowHolds(u, NewStatistics(s, today))
<1> USE NoDateAssumption, DatesAssumption DEF Statistics, StreakStartDate
<1>1. CASE s.lastWrittenDate = NoDate
  BY <1>1 DEF NewStatistics, CalculateStreak, WindowHolds
<1>2. CASE s.lastWrittenDate # NoDate
  <2>1. /\ s.lastWrittenDate \in Dates
        /\ s.currentStreak \in 1..s.longestStreak
        /\ s.currentStreak \in Nat /\ s.longestStreak \in Nat
        /\ \A day \in (s.lastWrittenDate - (s.currentStreak - 1))..s.lastWrittenDate :
              day \in Dates /\ daily[u][day] > 0
    BY <1>2 DEF WindowHolds
  <2>2. CASE today - s.lastWrittenDate <= 0
    <3>1. /\ NewStatistics(s, today).lastWrittenDate = s.lastWrittenDate
          /\ NewStatistics(s, today).currentStreak = s.currentStreak
          /\ NewStatistics(s, today).longestStreak = s.longestStreak
      BY <1>2, <2>1, <2>2 DEF NewStatistics, CalculateStreak, DiffInUtcDays, MaxOf
    <3> QED
      BY <3>1 DEF WindowHolds
  <2>3. CASE today - s.lastWrittenDate = 1
    <3>1. /\ NewStatistics(s, today).lastWrittenDate = today
          /\ NewStatistics(s, today).currentStreak = s.currentStreak + 1
          /\ NewStatistics(s, today).longestStreak
                = MaxOf(s.longestStreak, s.currentStreak + 1)
      BY <1>2, <2>1, <2>3 DEF NewStatistics, CalculateStreak, DiffInUtcDays, MaxOf
    <3>2. s.currentStreak + 1 \in 1..MaxOf(s.longestStreak, s.currentStreak + 1)
      BY <2>1 DEF MaxOf
    <3>3. ASSUME NEW day \in (today - s.currentStreak)..today
          PROVE  day \in Dates /\ daily[u][day] > 0
      <4>1. CASE day = today
        BY <4>1
      <4>2. CASE day # today
        <5> DEFINE last == s.lastWrittenDate
                   cur == s.currentStreak
        <5>a. last \in Int /\ today \in Int /\ cur \in Nat /\ today - last = 1
          BY <2>1, <2>3
        <5>b. day \in (today - cur)..today
          OBVIOUS
        <5> HIDE DEF last, cur
        <5>c. day \in (last - (cur - 1))..last
          BY <4>2, <5>a, <5>b
        <5>1. day \in (s.lastWrittenDate - (s.currentStreak - 1))..s.lastWrittenDate
          BY <5>c DEF last, cur
        <5> QED
          BY <2>1, <5>1
      <4> QED
        BY <4>1, <4>2
    <3> QED
      BY <2>1, <3>1, <3>2, <3>3 DEF WindowHolds
  <2>4. CASE today - s.lastWrittenDate > 1
    <3>1. /\ NewStatistics(s, today).lastWrittenDate = today
          /\ NewStatistics(s, today).currentStreak = 1
          /\ NewStatistics(s, today).longestStreak = s.longestStreak
      BY <1>2, <2>1, <2>4 DEF NewStatistics, CalculateStreak, DiffInUtcDays, MaxOf
    <3> QED
      BY <2>1, <3>1 DEF WindowHolds
  <2>5. \/ today - s.lastWrittenDate <= 0
        \/ today - s.lastWrittenDate = 1
        \/ today - s.lastWrittenDate > 1
    <3> DEFINE last == s.lastWrittenDate
    <3>1. last \in Int /\ today \in Int
      BY <2>1
    <3> HIDE DEF last
    <3>2. \/ today - last <= 0
          \/ today - last = 1
          \/ today - last > 1
      BY <3>1
    <3> QED
      BY <3>2 DEF last
  <2> QED
    BY <2>2, <2>3, <2>4, <2>5
<1> QED
  BY <1>1, <1>2

-----------------------------------------------------------------------------
\* A call that ends, or a new call, is well typed.
LEMMA EmptyIsStatistics == EmptyStatistics \in Statistics
BY DEF EmptyStatistics, Statistics

\* The invariant of one call: its snapshot, and its day once written.
CallInv(w) ==
    /\ rec[w].pc \in {"readActivity", "writeActivity", "saveStatistics"}
          => WindowHolds(rec[w].user, rec[w].existing)
    /\ rec[w].pc = "saveStatistics" => daily[rec[w].user][rec[w].today] > 0

LEMMA StreakInvParts ==
  StreakInv <=> TypeOK /\ StreakWindow /\ \A w \in Workers : CallInv(w)
BY DEF StreakInv, CallInv

\* Calls that do not move keep their invariant while the grass grows.
LEMMA CallPersists ==
  ASSUME TypeOK, GrassGrows, NEW w \in Workers, CallInv(w), rec'[w] = rec[w]
  PROVE  CallInv(w)'
<1>1. CASE rec[w].pc \in CallStates
  <2>1. rec[w] \in Calls
    BY <1>1, ActiveCall
  <2>2. rec[w].user \in Users /\ rec[w].today \in Dates /\ rec[w].existing \in Statistics
    BY <2>1 DEF Calls
  <2>3. WindowHolds(rec[w].user, rec[w].existing) => WindowHolds(rec[w].user, rec[w].existing)'
    BY <2>2 DEF GrassGrows, WindowHolds
  <2> QED
    BY <2>2, <2>3 DEF CallInv, GrassGrows
<1>2. CASE rec[w].pc \notin CallStates
  BY <1>2 DEF CallInv, CallStates
<1> QED
  BY <1>1, <1>2

\* A step that changes no table and moves one call only has that call to check.
LEMMA LocalStep ==
  ASSUME StreakInv, NEW w \in Workers, NEW r \in Calls,
         rec' = [rec EXCEPT ![w] = r], UNCHANGED <<stats, daily>>, CallInv(w)'
  PROVE  StreakInv'
<1>1. TypeOK' /\ GrassGrows
  BY DEF StreakInv, TypeOK, GrassGrows
<1>2. StreakWindow'
  BY DEF StreakInv, StreakWindow, WindowHolds
<1>3. ASSUME NEW v \in Workers, v # w
      PROVE  CallInv(v)'
  <2>1. rec'[v] = rec[v]
    BY <1>3 DEF StreakInv, TypeOK
  <2> QED
    BY <1>1, <2>1, StreakInvParts, CallPersists DEF StreakInv
<1>4. (TypeOK /\ StreakWindow /\ \A v \in Workers : CallInv(v))'
  BY <1>1, <1>2, <1>3
<1> QED
  BY <1>4 DEF StreakInv, CallInv

\* recordWriting is called: nothing is held yet.
LEMMA BeginPreserves ==
  ASSUME StreakInv, NEW w \in Workers, NEW u \in Users, NEW d \in Dates, Begin(w, u, d)
  PROVE  StreakInv'
<1> DEFINE r == [pc |-> "findStatistics", user |-> u, today |-> d,
                 existing |-> EmptyStatistics, count |-> 0]
<1>1. r \in Calls
  BY EmptyIsStatistics DEF Calls, CallStates
<1>2. rec' = [rec EXCEPT ![w] = r] /\ UNCHANGED <<stats, daily>>
  BY DEF Begin
<1>3. rec'[w].pc = "findStatistics"
  BY <1>2 DEF StreakInv, TypeOK
<1>4. CallInv(w)'
  BY <1>3 DEF CallInv
<1> QED
  BY <1>1, <1>2, <1>4, LocalStep

\* A call that is over holds nothing.
LEMMA ReturnPreserves ==
  ASSUME StreakInv, NEW w \in Workers, rec[w] \in Calls, NEW pc \in {"done", "failed"},
         Return(w, pc), UNCHANGED <<stats, daily>>
  PROVE  StreakInv'
<1> DEFINE r == [rec[w] EXCEPT !.pc = pc, !.existing = EmptyStatistics, !.count = 0]
<1>1. r \in Calls
  BY EmptyIsStatistics DEF Calls, CallStates
<1>2. rec' = [rec EXCEPT ![w] = r]
  BY DEF Return
<1>3. rec'[w].pc = pc
  BY <1>2 DEF StreakInv, TypeOK, Calls
<1>4. CallInv(w)'
  BY <1>3 DEF CallInv
<1> QED
  BY <1>1, <1>2, <1>4, LocalStep

\* The snapshot is the row of the moment, which is backed.
LEMMA FindStatisticsPreserves ==
  ASSUME StreakInv, NEW w \in Workers, FindStatistics(w)
  PROVE  StreakInv'
<1>1. rec[w] \in Calls
  BY ActiveCall DEF StreakInv, FindStatistics, CallStates
<1>2. UNCHANGED <<stats, daily>>
  BY DEF FindStatistics
<1>3. CASE Return(w, "failed")
  BY <1>1, <1>2, <1>3, ReturnPreserves
<1>4. CASE rec' = [rec EXCEPT ![w] = [@ EXCEPT !.pc = "readActivity",
                                               !.existing = stats[rec[w].user]]]
  <2> DEFINE r == [rec[w] EXCEPT !.pc = "readActivity", !.existing = stats[rec[w].user]]
  <2>1. rec[w].user \in Users /\ stats[rec[w].user] \in Statistics
    BY <1>1 DEF Calls, StreakInv, TypeOK
  <2>2. r \in Calls /\ r.user = rec[w].user /\ r.existing = stats[rec[w].user]
            /\ r.pc = "readActivity"
    BY <1>1, <2>1 DEF Calls, CallStates
  <2> HIDE DEF r
  <2>3. rec' = [rec EXCEPT ![w] = r]
    BY <1>4 DEF r
  <2>4. /\ rec'[w].user = rec[w].user
        /\ rec'[w].existing = stats[rec[w].user]
        /\ rec'[w].pc = "readActivity"
    BY <2>2, <2>3 DEF StreakInv, TypeOK
  <2>5. WindowHolds(rec[w].user, rec[w].existing)'
    BY <1>2, <2>1, <2>4 DEF StreakInv, StreakWindow, WindowHolds
  <2>6. CallInv(w)'
    BY <2>4, <2>5 DEF CallInv
  <2> QED
    BY <1>2, <2>2, <2>3, <2>6, LocalStep
<1> QED
  BY <1>3, <1>4 DEF FindStatistics

\* Reading the cell keeps the snapshot.
LEMMA ReadActivityPreserves ==
  ASSUME StreakInv, NEW w \in Workers, ReadActivity(w)
  PROVE  StreakInv'
<1>1. rec[w] \in Calls
  BY ActiveCall DEF StreakInv, ReadActivity, CallStates
<1>2. UNCHANGED <<stats, daily>>
  BY DEF ReadActivity
<1>3. CASE Return(w, "failed")
  BY <1>1, <1>2, <1>3, ReturnPreserves
<1>4. CASE rec' = [rec EXCEPT ![w] = [@ EXCEPT !.pc = "writeActivity",
                                      !.count = daily[rec[w].user][rec[w].today]]]
  <2> DEFINE r == [rec[w] EXCEPT !.pc = "writeActivity",
                                 !.count = daily[rec[w].user][rec[w].today]]
  <2>1. daily[rec[w].user][rec[w].today] \in Nat
    BY <1>1 DEF Calls, StreakInv, TypeOK
  <2>2. r \in Calls /\ r.user = rec[w].user /\ r.existing = rec[w].existing
            /\ r.pc = "writeActivity"
    BY <1>1, <2>1 DEF Calls, CallStates
  <2> HIDE DEF r
  <2>3. rec' = [rec EXCEPT ![w] = r]
    BY <1>4 DEF r
  <2>4. /\ rec'[w].user = rec[w].user
        /\ rec'[w].existing = rec[w].existing
        /\ rec'[w].pc = "writeActivity"
    BY <2>2, <2>3 DEF StreakInv, TypeOK
  <2>5. WindowHolds(rec[w].user, rec[w].existing)
    BY DEF StreakInv, ReadActivity
  <2>6. WindowHolds(rec[w].user, rec[w].existing)'
    BY <1>2, <2>4, <2>5 DEF WindowHolds
  <2>7. CallInv(w)'
    BY <2>4, <2>6 DEF CallInv
  <2> QED
    BY <1>2, <2>2, <2>3, <2>7, LocalStep
<1> QED
  BY <1>3, <1>4 DEF ReadActivity

\* The cell grows; every window that was backed stays backed.
LEMMA WriteActivityPreserves ==
  ASSUME StreakInv, NEW w \in Workers, WriteActivity(w)
  PROVE  StreakInv'
<1>1. /\ rec[w] \in Calls
      /\ rec[w].user \in Users /\ rec[w].today \in Dates
      /\ rec[w].count \in Nat /\ rec[w].existing \in Statistics
  BY ActiveCall DEF StreakInv, WriteActivity, CallStates, Calls
<1>2. WindowHolds(rec[w].user, rec[w].existing)
  BY DEF StreakInv, WriteActivity
<1>3. PICK outcome \in Outcomes("writeActivity") :
        /\ daily' = IF outcome = "error" THEN daily
                    ELSE [daily EXCEPT ![rec[w].user][rec[w].today] = rec[w].count + 1]
        /\ IF outcome = "ok" THEN Advance(w, "saveStatistics") ELSE Return(w, "failed")
  BY DEF WriteActivity
<1>4. UNCHANGED stats
  BY DEF WriteActivity
<1>5. CASE outcome = "error"
  BY <1>1, <1>3, <1>4, <1>5, ReturnPreserves
<1>6. CASE outcome # "error"
  <2>1. daily' = [daily EXCEPT ![rec[w].user][rec[w].today] = rec[w].count + 1]
    BY <1>3, <1>6
  <2>2. daily' \in [Users -> [Dates -> Nat]]
    BY <1>1, <2>1 DEF StreakInv, TypeOK
  <2>3. daily'[rec[w].user][rec[w].today] > 0
    BY <1>1, <2>1 DEF StreakInv, TypeOK
  <2>4. GrassGrows
    <3> SUFFICES ASSUME NEW u \in Users, NEW day \in Dates, daily[u][day] > 0
                 PROVE  daily'[u][day] > 0
      BY DEF GrassGrows
    <3>1. CASE u = rec[w].user /\ day = rec[w].today
      BY <2>3, <3>1
    <3>2. CASE ~(u = rec[w].user /\ day = rec[w].today)
      <4>1. daily'[u][day] = daily[u][day]
        BY <1>1, <2>1, <3>2 DEF StreakInv, TypeOK
      <4> QED
        BY <4>1
    <3> QED
      BY <3>1, <3>2
  <2>5. PICK r \in Calls : /\ rec' = [rec EXCEPT ![w] = r]
                           /\ \/ r = [rec[w] EXCEPT !.pc = "saveStatistics"]
                              \/ r.pc = "failed"
    <3>1. CASE outcome = "ok"
      <4>1. [rec[w] EXCEPT !.pc = "saveStatistics"] \in Calls
        BY <1>1 DEF Calls, CallStates
      <4>2. rec' = [rec EXCEPT ![w] = [rec[w] EXCEPT !.pc = "saveStatistics"]]
        BY <1>3, <3>1 DEF Advance
      <4> QED
        BY <4>1, <4>2
    <3>2. CASE outcome # "ok"
      <4> DEFINE q == [rec[w] EXCEPT !.pc = "failed", !.existing = EmptyStatistics, !.count = 0]
      <4>1. q \in Calls /\ q.pc = "failed"
        BY <1>1, EmptyIsStatistics DEF Calls, CallStates
      <4>2. rec' = [rec EXCEPT ![w] = q]
        BY <1>3, <3>2 DEF Return
      <4> QED
        BY <4>1, <4>2
    <3> QED
      BY <3>1, <3>2
  <2>6. rec'[w] = r /\ \A v \in Workers \ {w} : rec'[v] = rec[v]
    BY <2>5 DEF StreakInv, TypeOK
  <2>7. TypeOK'
    BY <1>4, <2>2, <2>5 DEF StreakInv, TypeOK
  <2>8. StreakWindow'
    <3>1. ASSUME NEW u \in Users
          PROVE  WindowHolds(u, stats[u])'
      <4>1. WindowHolds(u, stats[u]) /\ stats[u] \in Statistics
        BY DEF StreakInv, StreakWindow, TypeOK
      <4> QED
        BY <1>4, <2>4, <4>1 DEF WindowHolds, GrassGrows
    <3> QED
      BY <3>1 DEF StreakWindow
  <2>9. CallInv(w)'
    <3>1. CASE r.pc = "failed"
      BY <2>6, <3>1 DEF CallInv
    <3>2. CASE r = [rec[w] EXCEPT !.pc = "saveStatistics"]
      <4>1. /\ rec'[w].user = rec[w].user
            /\ rec'[w].existing = rec[w].existing
            /\ rec'[w].today = rec[w].today
        BY <1>1, <2>6, <3>2 DEF Calls
      <4>2. WindowHolds(rec[w].user, rec[w].existing)'
        BY <1>1, <1>2, <2>4, <4>1 DEF WindowHolds, GrassGrows
      <4>3. daily'[rec'[w].user][rec'[w].today] > 0
        BY <2>3, <4>1
      <4> QED
        BY <4>2, <4>3 DEF CallInv
    <3> QED
      BY <2>5, <3>1, <3>2
  <2>10. \A v \in Workers \ {w} : CallInv(v)'
    BY <2>4, <2>6, CallPersists, StreakInvParts DEF StreakInv
  <2> QED
    BY <2>7, <2>8, <2>9, <2>10 DEF StreakInv, CallInv
<1> QED
  BY <1>5, <1>6

\* The row that is saved extends the snapshot, or leaves it, over backed days.
LEMMA SaveStatisticsPreserves ==
  ASSUME StreakInv, NEW w \in Workers, SaveStatistics(w)
  PROVE  StreakInv'
<1>1. /\ rec[w] \in Calls
      /\ rec[w].user \in Users /\ rec[w].today \in Dates
      /\ rec[w].existing \in Statistics
  BY ActiveCall DEF StreakInv, SaveStatistics, CallStates, Calls
<1> DEFINE new == NewStatistics(rec[w].existing, rec[w].today)
<1>2. WindowHolds(rec[w].user, new) /\ new \in Statistics
  <2>1. WindowHolds(rec[w].user, rec[w].existing)
    BY DEF StreakInv, SaveStatistics
  <2>2. daily[rec[w].user][rec[w].today] > 0
    BY DEF StreakInv, SaveStatistics
  <2> QED
    BY <1>1, <2>1, <2>2, StreakExtends, StreakType DEF StreakInv
<1>3. PICK outcome \in Outcomes("saveStatistics") :
        /\ stats' = IF outcome = "error" THEN stats ELSE [stats EXCEPT ![rec[w].user] = new]
        /\ Return(w, IF outcome = "ok" THEN "done" ELSE "failed")
  BY DEF SaveStatistics
<1>4. UNCHANGED daily
  BY DEF SaveStatistics
<1>5. GrassGrows
  BY <1>4 DEF GrassGrows
<1> DEFINE q == [rec[w] EXCEPT !.pc = IF outcome = "ok" THEN "done" ELSE "failed",
                               !.existing = EmptyStatistics, !.count = 0]
<1>6. /\ q \in Calls
      /\ q.pc \in {"done", "failed"}
      /\ rec' = [rec EXCEPT ![w] = q]
  BY <1>1, <1>3, EmptyIsStatistics DEF Calls, CallStates, Return
<1>7. rec'[w].pc \in {"done", "failed"} /\ \A v \in Workers \ {w} : rec'[v] = rec[v]
  BY <1>6 DEF StreakInv, TypeOK
<1> HIDE DEF new, q
<1>8. \A u \in Users : stats'[u] = stats[u] \/ (u = rec[w].user /\ stats'[u] = new)
  BY <1>1, <1>3 DEF StreakInv, TypeOK
<1>9. TypeOK'
  <2>1. stats' \in [Users -> Statistics]
    BY <1>1, <1>2, <1>3 DEF StreakInv, TypeOK
  <2>2. rec' \in [Workers -> {IdleCall} \cup Calls]
    BY <1>6 DEF StreakInv, TypeOK
  <2> QED
    BY <1>4, <2>1, <2>2 DEF StreakInv, TypeOK
<1>10. StreakWindow'
  <2>1. ASSUME NEW u \in Users
        PROVE  WindowHolds(u, stats[u])'
    <3>1. CASE stats'[u] = stats[u]
      BY <1>4, <3>1 DEF StreakInv, StreakWindow, WindowHolds
    <3>2. CASE u = rec[w].user /\ stats'[u] = new
      BY <1>2, <1>4, <3>2 DEF WindowHolds
    <3> QED
      BY <1>8, <3>1, <3>2
  <2> QED
    BY <2>1 DEF StreakWindow
<1>11. CallInv(w)'
  BY <1>7 DEF CallInv
<1>12. \A v \in Workers \ {w} : CallInv(v)'
  BY <1>5, <1>7, CallPersists, StreakInvParts DEF StreakInv
<1> QED
  BY <1>9, <1>10, <1>11, <1>12 DEF StreakInv, CallInv

LEMMA InitEstablishes == Init => StreakInv
<1> SUFFICES ASSUME Init PROVE StreakInv
  OBVIOUS
<1>1. TypeOK
  BY EmptyIsStatistics DEF Init, TypeOK
<1>2. StreakWindow
  BY DEF Init, StreakWindow, WindowHolds, EmptyStatistics
<1>3. \A w \in Workers : rec[w].pc = "idle"
  BY DEF Init, IdleCall
<1> QED
  BY <1>1, <1>2, <1>3 DEF StreakInv

(***************************************************************************)
(* The inductive invariant: rows and snapshots alike are backed by grass,  *)
(* in every interleaving of any number of calls and under any failures.    *)
(***************************************************************************)
THEOREM StreakInvariant == Spec => []StreakInv
<1>1. StreakInv /\ [Next]_statsVars => StreakInv'
  <2> SUFFICES ASSUME StreakInv, [Next]_statsVars
               PROVE  StreakInv'
    OBVIOUS
  <2>1. ASSUME NEW w \in Workers, Call(w)
        PROVE  StreakInv'
    BY <2>1, BeginPreserves DEF Call
  <2>2. ASSUME NEW w \in Workers, Step(w)
        PROVE  StreakInv'
    BY <2>2, FindStatisticsPreserves, ReadActivityPreserves, WriteActivityPreserves,
       SaveStatisticsPreserves DEF Step
  <2>3. CASE UNCHANGED statsVars
    BY <2>3 DEF statsVars, StreakInv, TypeOK, StreakWindow, WindowHolds
  <2> QED
    BY <2>1, <2>2, <2>3 DEF Next
<1> QED
  BY InitEstablishes, <1>1, PTL DEF Spec

\* Type correctness of the tables and of every call's local state.
THEOREM TypeCorrect == Spec => []TypeOK
<1>1. StreakInv => TypeOK
  BY DEF StreakInv
<1> QED
  BY StreakInvariant, <1>1, PTL

(***************************************************************************)
(* Every day of the streak a user is shown has grass, and the longest      *)
(* streak is at least the current one.                                     *)
(***************************************************************************)
THEOREM StreakIsBacked == Spec => []StreakWindow
<1>1. StreakInv => StreakWindow
  BY DEF StreakInv
<1> QED
  BY StreakInvariant, <1>1, PTL

-----------------------------------------------------------------------------
(* Counts. *)

\* The calls that were made, those that are over, and those past their write of the cell.
Started == {w \in Workers : rec[w].pc \in CallStates}
Over(u) == CallsFor(u, {"done", "failed"})
PastCell(u, day) == CallsOn(u, day, {"saveStatistics", "done", "failed"})

(***************************************************************************)
(* The inductive strengthening of NeverOvercounts: only calls that may     *)
(* have written are counted, in the tables and in what calls have read.    *)
(***************************************************************************)
CountInv ==
    /\ IsFiniteSet(Started)
    /\ \A u \in Users : stats[u].totalCount <= Cardinality(Over(u))
    /\ \A u \in Users, day \in Dates : daily[u][day] <= Cardinality(PastCell(u, day))
    /\ \A w \in Workers, u \in Users :
          rec[w].pc \in {"readActivity", "writeActivity", "saveStatistics"} /\ rec[w].user = u =>
             rec[w].existing.totalCount <= Cardinality(Over(u))
    /\ \A w \in Workers, u \in Users, day \in Dates :
          rec[w].pc = "writeActivity" /\ rec[w].user = u /\ rec[w].today = day =>
             rec[w].count <= Cardinality(PastCell(u, day))

\* What a step of one call does to the calls: it moves on, and stays the same call.
Moves(w) ==
    /\ \A v \in Workers \ {w} : rec'[v] = rec[v]
    /\ rec[w].pc \notin {"done", "failed"}
    /\ rec'[w].pc \in CallStates
    /\ rec[w].pc \in CallStates =>
          rec'[w].user = rec[w].user /\ rec'[w].today = rec[w].today
    /\ rec[w].pc = "saveStatistics" => rec'[w].pc \in {"done", "failed"}

LEMMA StepMoves ==
  ASSUME TypeOK, NEW w \in Workers,
         Step(w) \/ \E u \in Users, day \in Dates : Begin(w, u, day)
  PROVE  Moves(w)
<1> USE DEF Moves, CallStates
<1>1. CASE \E u \in Users, day \in Dates : Begin(w, u, day)
  BY <1>1 DEF Begin, TypeOK, IdleCall
<1>2. CASE Step(w)
  <2>1. /\ rec[w].pc \in {"findStatistics", "readActivity", "writeActivity", "saveStatistics"}
        /\ rec[w] \in Calls
    BY <1>2, ActiveCall DEF Step, FindStatistics, ReadActivity, WriteActivity, SaveStatistics
  <2>2. ASSUME NEW pc \in {"done", "failed"}, Return(w, pc)
        PROVE  Moves(w)
    BY <2>1, <2>2 DEF Return, TypeOK, Calls
  <2>3. CASE FindStatistics(w)
    <3>1. CASE Return(w, "failed")
      BY <2>2, <3>1
    <3>2. CASE rec' = [rec EXCEPT ![w] = [@ EXCEPT !.pc = "readActivity",
                                                   !.existing = stats[rec[w].user]]]
      BY <2>1, <2>3, <3>2 DEF FindStatistics, TypeOK, Calls
    <3> QED
      BY <2>3, <3>1, <3>2 DEF FindStatistics
  <2>4. CASE ReadActivity(w)
    <3>1. CASE Return(w, "failed")
      BY <2>2, <3>1
    <3>2. CASE rec' = [rec EXCEPT ![w] = [@ EXCEPT !.pc = "writeActivity",
                                          !.count = daily[rec[w].user][rec[w].today]]]
      BY <2>1, <2>4, <3>2 DEF ReadActivity, TypeOK, Calls
    <3> QED
      BY <2>4, <3>1, <3>2 DEF ReadActivity
  <2>5. CASE WriteActivity(w)
    <3>1. CASE Return(w, "failed")
      BY <2>2, <3>1
    <3>2. CASE Advance(w, "saveStatistics")
      BY <2>1, <2>5, <3>2 DEF WriteActivity, Advance, TypeOK, Calls
    <3> QED
      BY <2>5, <3>1, <3>2 DEF WriteActivity
  <2>6. CASE SaveStatistics(w)
    BY <2>2, <2>6 DEF SaveStatistics
  <2> QED
    BY <1>2, <2>3, <2>4, <2>5, <2>6 DEF Step
<1> QED
  BY <1>1, <1>2

\* Calls that are over, or past their write, stay so.
LEMMA CountsGrow ==
  ASSUME IsFiniteSet(Started), NEW w \in Workers, Moves(w)
  PROVE  /\ IsFiniteSet(Started')
         /\ \A u : /\ Cardinality(Over(u)) \in Nat /\ Cardinality(Over(u))' \in Nat
                   /\ Cardinality(Over(u)) <= Cardinality(Over(u))'
         /\ \A u, day : /\ Cardinality(PastCell(u, day)) \in Nat
                        /\ Cardinality(PastCell(u, day))' \in Nat
                        /\ Cardinality(PastCell(u, day)) <= Cardinality(PastCell(u, day))'
<1>1. Started' = Started \cup {w}
  BY DEF Started, Moves
<1>2. IsFiniteSet(Started')
  BY <1>1, FS_AddElement
<1>3. ASSUME NEW u
      PROVE  /\ Over(u) \subseteq Started /\ Over(u)' \subseteq Started'
             /\ Over(u) \subseteq Over(u)'
  BY DEF Over, CallsFor, Started, CallStates, Moves
<1>4. ASSUME NEW u, NEW day
      PROVE  /\ PastCell(u, day) \subseteq Started /\ PastCell(u, day)' \subseteq Started'
             /\ PastCell(u, day) \subseteq PastCell(u, day)'
  BY DEF PastCell, CallsOn, CallsFor, Started, CallStates, Moves
<1>5. ASSUME NEW A, NEW B, A \subseteq B, B \subseteq Started'
      PROVE  Cardinality(A) \in Nat /\ Cardinality(B) \in Nat /\ Cardinality(A) <= Cardinality(B)
  <2>1. IsFiniteSet(B)
    BY <1>2, <1>5, FS_Subset
  <2> QED
    BY <1>5, <2>1, FS_Subset, FS_CardinalityType
<1>6. ASSUME NEW u
      PROVE  /\ Cardinality(Over(u)) \in Nat /\ Cardinality(Over(u)') \in Nat
             /\ Cardinality(Over(u)) <= Cardinality(Over(u)')
  BY <1>3, <1>5
<1>7. ASSUME NEW u, NEW day
      PROVE  /\ Cardinality(PastCell(u, day)) \in Nat /\ Cardinality(PastCell(u, day)') \in Nat
             /\ Cardinality(PastCell(u, day)) <= Cardinality(PastCell(u, day)')
  BY <1>4, <1>5
<1> QED
  BY <1>2, <1>6, <1>7

\* A call that ends is one more that is over; a call past its write is one more of its day.
LEMMA OneMore ==
  ASSUME IsFiniteSet(Started), NEW w \in Workers, Moves(w), rec[w].pc \in CallStates
  PROVE  /\ rec'[w].pc \in {"done", "failed"} =>
               Cardinality(Over(rec[w].user))' = Cardinality(Over(rec[w].user)) + 1
         /\ rec[w].pc = "writeActivity" /\ rec'[w].pc \in {"saveStatistics", "failed"} =>
               Cardinality(PastCell(rec[w].user, rec[w].today))'
                  = Cardinality(PastCell(rec[w].user, rec[w].today)) + 1
<1> DEFINE u == rec[w].user
           day == rec[w].today
<1>1. rec'[w].user = u /\ rec'[w].today = day
  BY DEF Moves
<1>2. Over(u) \subseteq Started /\ PastCell(u, day) \subseteq Started
  BY DEF Over, PastCell, CallsOn, CallsFor, Started, CallStates
<1>3. IsFiniteSet(Over(u)) /\ IsFiniteSet(PastCell(u, day))
  BY <1>2, FS_Subset
<1>4. ASSUME rec'[w].pc \in {"done", "failed"}
      PROVE  Cardinality(CallsFor(u, {"done", "failed"})') = Cardinality(Over(u)) + 1
  <2>1. w \notin Over(u) /\ CallsFor(u, {"done", "failed"})' = Over(u) \cup {w}
    BY <1>1, <1>4 DEF Over, CallsFor, Moves
  <2> QED
    BY <1>3, <2>1, FS_AddElement
<1>5. ASSUME rec[w].pc = "writeActivity", rec'[w].pc \in {"saveStatistics", "failed"}
      PROVE  {v \in {v \in Workers : /\ rec'[v].pc \in {"saveStatistics", "done", "failed"}
                                     /\ rec'[v].user = u} : rec'[v].today = day}
                = PastCell(u, day) \cup {w}
  BY <1>1, <1>5 DEF PastCell, CallsOn, CallsFor, Moves
<1>6. ASSUME rec[w].pc = "writeActivity", rec'[w].pc \in {"saveStatistics", "failed"}
      PROVE  Cardinality(PastCell(u, day) \cup {w}) = Cardinality(PastCell(u, day)) + 1
  <2>1. w \notin PastCell(u, day)
    BY <1>6 DEF PastCell, CallsOn, CallsFor
  <2> QED
    BY <1>3, <2>1, FS_AddElement
<1> QED
  BY <1>1, <1>4, <1>5, <1>6 DEF Over, PastCell, CallsOn, CallsFor

\* What the step of a call writes and reads, for its counts.
LEMMA StepEffect ==
  ASSUME TypeOK, NEW w \in Workers,
         Step(w) \/ \E u \in Users, day \in Dates : Begin(w, u, day)
  PROVE  LET u == rec[w].user
             day == rec[w].today
             snapshots == {"readActivity", "writeActivity", "saveStatistics"}
         IN  /\ stats' # stats =>
                   /\ rec[w].pc = "saveStatistics" /\ rec'[w].pc \in {"done", "failed"}
                   /\ \A x \in Users \ {u} : stats'[x] = stats[x]
                   /\ stats'[u].totalCount = rec[w].existing.totalCount + 1
             /\ daily' # daily =>
                   /\ rec[w].pc = "writeActivity" /\ rec'[w].pc \in {"saveStatistics", "failed"}
                   /\ \A x \in Users, d \in Dates : x # u \/ d # day => daily'[x][d] = daily[x][d]
                   /\ daily'[u][day] = rec[w].count + 1
             /\ rec'[w].pc \in snapshots =>
                   \/ rec[w].pc = "findStatistics" /\ rec'[w].existing = stats[u]
                   \/ rec[w].pc \in snapshots /\ rec'[w].existing = rec[w].existing
             /\ rec'[w].pc = "writeActivity" =>
                   rec[w].pc = "readActivity" /\ rec'[w].count = daily[u][day]
<1> DEFINE u == rec[w].user
           day == rec[w].today
<1>1. CASE \E x \in Users, d \in Dates : Begin(w, x, d)
  BY <1>1 DEF Begin, TypeOK
<1>2. ASSUME NEW pc \in {"done", "failed"}, rec[w] \in Calls, Return(w, pc)
      PROVE  rec'[w].pc = pc
  BY <1>2 DEF Return, TypeOK, Calls
<1>3. CASE FindStatistics(w)
  <2>1. rec[w] \in Calls /\ rec[w].pc = "findStatistics"
    BY <1>3, ActiveCall DEF FindStatistics, CallStates
  <2>2. CASE Return(w, "failed")
    BY <1>2, <1>3, <2>1, <2>2 DEF FindStatistics
  <2>3. CASE rec' = [rec EXCEPT ![w] = [@ EXCEPT !.pc = "readActivity", !.existing = stats[u]]]
    <3>1. rec'[w].pc = "readActivity" /\ rec'[w].existing = stats[u]
      BY <2>1, <2>3 DEF TypeOK, Calls
    <3> QED
      BY <1>3, <2>1, <3>1 DEF FindStatistics
  <2> QED
    BY <1>3, <2>2, <2>3 DEF FindStatistics
<1>4. CASE ReadActivity(w)
  <2>1. rec[w] \in Calls /\ rec[w].pc = "readActivity"
    BY <1>4, ActiveCall DEF ReadActivity, CallStates
  <2>2. CASE Return(w, "failed")
    BY <1>2, <1>4, <2>1, <2>2 DEF ReadActivity
  <2>3. CASE rec' = [rec EXCEPT ![w] = [@ EXCEPT !.pc = "writeActivity", !.count = daily[u][day]]]
    <3>1. /\ rec'[w].pc = "writeActivity" /\ rec'[w].existing = rec[w].existing
          /\ rec'[w].count = daily[u][day]
      BY <2>1, <2>3 DEF TypeOK, Calls
    <3> QED
      BY <1>4, <2>1, <3>1 DEF ReadActivity
  <2> QED
    BY <1>4, <2>2, <2>3 DEF ReadActivity
<1>5. CASE WriteActivity(w)
  <2>1. rec[w] \in Calls /\ rec[w].pc = "writeActivity" /\ stats' = stats
    BY <1>5, ActiveCall DEF WriteActivity, CallStates
  <2>2. PICK outcome \in Outcomes("writeActivity") :
          /\ daily' = IF outcome = "error" THEN daily
                      ELSE [daily EXCEPT ![u][day] = rec[w].count + 1]
          /\ IF outcome = "ok" THEN Advance(w, "saveStatistics") ELSE Return(w, "failed")
    BY <1>5 DEF WriteActivity
  <2>3. \/ rec'[w].pc = "failed"
        \/ rec'[w].pc = "saveStatistics" /\ rec'[w].existing = rec[w].existing
    BY <1>2, <2>1, <2>2 DEF Advance, TypeOK, Calls
  <2>4. u \in Users /\ day \in Dates
    BY <2>1 DEF Calls
  <2> HIDE DEF u, day
  <2>5. daily' # daily => /\ \A x \in Users, d \in Dates :
                                x # u \/ d # day => daily'[x][d] = daily[x][d]
                          /\ daily'[u][day] = rec[w].count + 1
    BY <2>2, <2>4 DEF TypeOK
  <2> QED
    BY <2>1, <2>3, <2>5 DEF u, day
<1>6. CASE SaveStatistics(w)
  <2>1. rec[w] \in Calls /\ rec[w].pc = "saveStatistics" /\ daily' = daily
    BY <1>6, ActiveCall DEF SaveStatistics, CallStates
  <2> DEFINE new == NewStatistics(rec[w].existing, day)
  <2>2. PICK outcome \in Outcomes("saveStatistics") :
          /\ stats' = IF outcome = "error" THEN stats ELSE [stats EXCEPT ![u] = new]
          /\ Return(w, IF outcome = "ok" THEN "done" ELSE "failed")
    BY <1>6 DEF SaveStatistics
  <2>3. rec'[w].pc \in {"done", "failed"}
    BY <1>2, <2>1, <2>2
  <2>4. u \in Users /\ new.totalCount = rec[w].existing.totalCount + 1
    BY <2>1 DEF Calls, NewStatistics
  <2> HIDE DEF u, day, new
  <2>5. stats' # stats => /\ \A x \in Users \ {u} : stats'[x] = stats[x]
                          /\ stats'[u].totalCount = rec[w].existing.totalCount + 1
    BY <2>2, <2>4 DEF TypeOK
  <2> QED
    BY <2>1, <2>3, <2>5 DEF u, day
<1> QED
  BY <1>1, <1>3, <1>4, <1>5, <1>6 DEF Step

LEMMA CountStep ==
  ASSUME TypeOK, TypeOK', CountInv, NEW w \in Workers,
         Step(w) \/ \E u \in Users, day \in Dates : Begin(w, u, day)
  PROVE  CountInv'
<1> DEFINE u == rec[w].user
           day == rec[w].today
           snapshots == {"readActivity", "writeActivity", "saveStatistics"}
           over(x) == Cardinality(Over(x))
           past(x, d) == Cardinality(PastCell(x, d))
<1>1. Moves(w) /\ IsFiniteSet(Started)
  BY StepMoves DEF CountInv
<1>2. /\ IsFiniteSet(Started')
      /\ \A x : over(x) \in Nat /\ over(x)' \in Nat /\ over(x) <= over(x)'
      /\ \A x, d : past(x, d) \in Nat /\ past(x, d)' \in Nat /\ past(x, d) <= past(x, d)'
  BY <1>1, CountsGrow
<1>3. rec[w].pc \in CallStates =>
        /\ rec[w] \in Calls
        /\ u \in Users /\ day \in Dates /\ rec'[w].user = u /\ rec'[w].today = day
        /\ rec[w].existing.totalCount \in Nat /\ rec[w].count \in Nat
  BY <1>1, ActiveCall DEF Moves, Calls, Statistics
<1>4. ASSUME NEW x \in Users
      PROVE  stats'[x].totalCount <= over(x)'
  <2>1. stats[x].totalCount <= over(x) /\ stats[x].totalCount \in Nat
    BY DEF CountInv, TypeOK, Statistics
  <2>2. CASE stats'[x] = stats[x]
    BY <1>2, <2>1, <2>2
  <2>3. CASE stats'[x] # stats[x]
    <3>1. /\ rec[w].pc = "saveStatistics" /\ rec'[w].pc \in {"done", "failed"}
          /\ x = u /\ stats'[x].totalCount = rec[w].existing.totalCount + 1
      BY <2>3, StepEffect
    <3>2. over(u)' = over(u) + 1
      BY <1>1, <3>1, OneMore DEF CallStates
    <3>3. rec[w].existing.totalCount <= over(u)
      BY <3>1 DEF CountInv
    <3> QED
      BY <1>2, <1>3, <3>1, <3>2, <3>3 DEF CallStates
  <2> QED
    BY <2>2, <2>3
<1>5. ASSUME NEW x \in Users, NEW d \in Dates
      PROVE  daily'[x][d] <= past(x, d)'
  <2>1. daily[x][d] <= past(x, d) /\ daily[x][d] \in Nat
    BY DEF CountInv, TypeOK
  <2>2. CASE daily'[x][d] = daily[x][d]
    BY <1>2, <2>1, <2>2
  <2>3. CASE daily'[x][d] # daily[x][d]
    <3>1. /\ rec[w].pc = "writeActivity" /\ rec'[w].pc \in {"saveStatistics", "failed"}
          /\ x = u /\ d = day /\ daily'[x][d] = rec[w].count + 1
      BY <2>3, StepEffect
    <3>2. past(u, day)' = past(u, day) + 1
      BY <1>1, <3>1, OneMore DEF CallStates
    <3>3. rec[w].count <= past(u, day)
      BY <3>1 DEF CountInv
    <3> QED
      BY <1>2, <1>3, <3>1, <3>2, <3>3 DEF CallStates
  <2> QED
    BY <2>2, <2>3
<1>6. ASSUME NEW v \in Workers, v # w, rec'[v].pc \in CallStates
      PROVE  /\ rec'[v] = rec[v]
             /\ rec[v].existing.totalCount \in Nat /\ rec[v].count \in Nat
  BY <1>1, <1>6, ActiveCall DEF Moves, Calls, Statistics
<1>7. ASSUME NEW v \in Workers, NEW x \in Users, rec'[v].pc \in snapshots, rec'[v].user = x
      PROVE  rec'[v].existing.totalCount <= over(x)'
  <2>1. rec'[v].existing.totalCount <= over(x) /\ rec'[v].existing.totalCount \in Nat
    <3>1. CASE v # w
      <4>1. rec'[v] = rec[v] /\ rec[v].existing.totalCount \in Nat
        BY <1>6, <1>7, <3>1 DEF CallStates
      <4> QED
        BY <1>7, <4>1 DEF CountInv
    <3>2. CASE v = w
      <4>1. \/ rec[w].pc = "findStatistics" /\ rec'[w].existing = stats[u]
            \/ rec[w].pc \in snapshots /\ rec'[w].existing = rec[w].existing
        BY <1>7, <3>2, StepEffect
      <4>2. x = u /\ rec[w].existing.totalCount \in Nat
        BY <1>3, <1>7, <3>2, <4>1 DEF CallStates
      <4> QED
        BY <3>2, <4>1, <4>2 DEF CountInv, TypeOK, Statistics
    <3> QED
      BY <3>1, <3>2
  <2>2. over(x) \in Nat /\ over(x)' \in Nat /\ over(x) <= over(x)'
    BY <1>2
  <2> HIDE DEF over
  <2> QED
    BY <2>1, <2>2
<1>8. ASSUME NEW v \in Workers, NEW x \in Users, NEW d \in Dates,
             rec'[v].pc = "writeActivity", rec'[v].user = x, rec'[v].today = d
      PROVE  rec'[v].count <= past(x, d)'
  <2>1. rec'[v].count <= past(x, d) /\ rec'[v].count \in Nat
    <3>1. CASE v # w
      <4>1. rec'[v] = rec[v] /\ rec[v].count \in Nat
        BY <1>6, <1>8, <3>1 DEF CallStates
      <4> QED
        BY <1>8, <4>1 DEF CountInv
    <3>2. CASE v = w
      <4>1. rec[w].pc = "readActivity" /\ rec'[w].count = daily[u][day]
        BY <1>8, <3>2, StepEffect
      <4>2. x = u /\ d = day
        BY <1>3, <1>8, <3>2, <4>1 DEF CallStates
      <4> QED
        BY <3>2, <4>1, <4>2 DEF CountInv, TypeOK
    <3> QED
      BY <3>1, <3>2
  <2>2. past(x, d) \in Nat /\ past(x, d)' \in Nat /\ past(x, d) <= past(x, d)'
    BY <1>2
  <2> HIDE DEF past
  <2> QED
    BY <2>1, <2>2
<1> QED
  BY <1>2, <1>4, <1>5, <1>7, <1>8 DEF CountInv

LEMMA CountInit == Init => CountInv
<1> SUFFICES ASSUME Init PROVE CountInv
  OBVIOUS
<1>1. \A w \in Workers : rec[w].pc = "idle"
  BY DEF Init, IdleCall
<1>2. Started = {} /\ \A u : Over(u) = {} /\ \A day : PastCell(u, day) = {}
  BY <1>1 DEF Started, Over, PastCell, CallsOn, CallsFor, CallStates
<1>3. Cardinality({}) = 0 /\ IsFiniteSet({})
  BY FS_EmptySet
<1> QED
  BY <1>1, <1>2, <1>3 DEF Init, CountInv, EmptyStatistics

LEMMA CountInvariant == Spec => []CountInv
<1>1. StreakInv /\ StreakInv' /\ CountInv /\ [Next]_statsVars => CountInv'
  <2> SUFFICES ASSUME StreakInv, StreakInv', CountInv, [Next]_statsVars
               PROVE  CountInv'
    OBVIOUS
  <2>1. TypeOK /\ TypeOK'
    BY DEF StreakInv
  <2>2. CASE UNCHANGED statsVars
    BY <2>2 DEF statsVars, CountInv, Started, Over, PastCell, CallsOn, CallsFor
  <2>3. CASE Next
    BY <2>1, <2>3, CountStep DEF Next, Call
  <2> QED
    BY <2>2, <2>3
<1> QED
  BY <1>1, CountInit, StreakInvariant, PTL DEF Spec

(***************************************************************************)
(* The calendar and the total never show more writings than were recorded, *)
(* for any number of concurrent calls and failures.                        *)
(***************************************************************************)
THEOREM CountsStayBelow == Spec => []NeverOvercounts
<1>1. StreakInv /\ CountInv => NeverOvercounts
  <2> SUFFICES ASSUME TypeOK, CountInv PROVE NeverOvercounts
    BY DEF StreakInv
  <2>1. ASSUME NEW u \in Users
        PROVE  stats[u].totalCount <= Cardinality(CallsFor(u, CallStates))
    <3>1. /\ Over(u) \subseteq CallsFor(u, CallStates)
          /\ CallsFor(u, CallStates) \subseteq Started
      BY DEF Over, CallsFor, CallStates, Started
    <3>2. IsFiniteSet(CallsFor(u, CallStates))
      BY <3>1, FS_Subset DEF CountInv
    <3>3. /\ Cardinality(Over(u)) <= Cardinality(CallsFor(u, CallStates))
          /\ Cardinality(Over(u)) \in Nat /\ Cardinality(CallsFor(u, CallStates)) \in Nat
      BY <3>1, <3>2, FS_Subset, FS_CardinalityType
    <3>4. stats[u].totalCount <= Cardinality(Over(u)) /\ stats[u].totalCount \in Nat
      BY DEF CountInv, TypeOK, Statistics
    <3> QED
      BY <3>3, <3>4
  <2>2. ASSUME NEW u \in Users, NEW day \in Dates
        PROVE  daily[u][day] <= Cardinality(CallsOn(u, day, CallStates))
    <3>1. /\ PastCell(u, day) \subseteq CallsOn(u, day, CallStates)
          /\ CallsOn(u, day, CallStates) \subseteq Started
      BY DEF PastCell, CallsOn, CallsFor, CallStates, Started
    <3>2. IsFiniteSet(CallsOn(u, day, CallStates))
      BY <3>1, FS_Subset DEF CountInv
    <3>3. /\ Cardinality(PastCell(u, day)) <= Cardinality(CallsOn(u, day, CallStates))
          /\ Cardinality(PastCell(u, day)) \in Nat
          /\ Cardinality(CallsOn(u, day, CallStates)) \in Nat
      BY <3>1, <3>2, FS_Subset, FS_CardinalityType
    <3>4. daily[u][day] <= Cardinality(PastCell(u, day)) /\ daily[u][day] \in Nat
      BY DEF CountInv, TypeOK
    <3> QED
      BY <3>3, <3>4
  <2> QED
    BY <2>1, <2>2 DEF NeverOvercounts
<1> QED
  BY <1>1, CountInvariant, StreakInvariant, PTL

-----------------------------------------------------------------------------
(* Calls that do not overlap. *)

Snapshots == {"readActivity", "writeActivity", "saveStatistics"}

(***************************************************************************)
(* The inductive invariant behind CountsEveryPass and NothingTakenBack:    *)
(* what a call holds, however stale, already counts every call that was    *)
(* alone, for such a call cannot end while another one of its user is      *)
(* under way; and a call that is alone holds the row as it is, and its day *)
(* counts it once its cell is written.                                     *)
(***************************************************************************)
AloneInv ==
    /\ CountsEveryPass
    /\ \A w \in Busy : SameUser(w) # {} => w \in overlapped
    /\ \A w \in Workers, u \in Users :
          rec[w].pc \in Snapshots /\ rec[w].user = u =>
             /\ rec[w].existing.totalCount >= Cardinality(Alone(u))
             /\ w \notin overlapped => rec[w].existing = stats[u]
    /\ \A w \in Workers, u \in Users, day \in Dates :
          (rec[w].pc \in CallStates /\ rec[w].user = u /\ rec[w].today = day) =>
             /\ rec[w].pc = "writeActivity" => rec[w].count >= Cardinality(AloneOn(u, day))
             /\ rec[w].pc = "saveStatistics" /\ w \notin overlapped =>
                   daily[u][day] > Cardinality(AloneOn(u, day))

\* What a save makes of the row it computed from, and the write of a cell of the count.
LEMMA SavedOrWritten ==
  ASSUME TypeOK, NEW w \in Workers,
         Step(w) \/ \E u \in Users, day \in Dates : Begin(w, u, day)
  PROVE  LET u == rec[w].user
             day == rec[w].today
         IN  /\ stats' # stats => stats'[u] = NewStatistics(rec[w].existing, day)
             /\ rec'[w].pc = "done" =>
                   /\ rec[w].pc = "saveStatistics"
                   /\ stats'[u] = NewStatistics(rec[w].existing, day)
             /\ rec'[w].pc = "saveStatistics" =>
                   /\ rec[w].pc = "writeActivity"
                   /\ daily'[u][day] = rec[w].count + 1
             /\ rec[w].pc \notin CallStates =>
                   rec'[w].pc = "findStatistics" /\ UNCHANGED <<stats, daily>>
<1> DEFINE u == rec[w].user
           day == rec[w].today
<1>1. CASE \E x \in Users, d \in Dates : Begin(w, x, d)
  BY <1>1 DEF Begin, TypeOK, IdleCall, CallStates
<1>2. ASSUME NEW pc \in {"done", "failed"}, rec[w] \in Calls, Return(w, pc)
      PROVE  rec'[w].pc = pc
  BY <1>2 DEF Return, TypeOK, Calls
<1> USE DEF CallStates
<1>3. CASE FindStatistics(w)
  <2>1. rec[w] \in Calls /\ rec[w].pc = "findStatistics" /\ stats' = stats
    BY <1>3, ActiveCall DEF FindStatistics, CallStates
  <2>2. rec'[w].pc \in {"failed", "readActivity"}
    BY <1>2, <1>3, <2>1 DEF FindStatistics, TypeOK, Calls
  <2> QED
    BY <2>1, <2>2
<1>4. CASE ReadActivity(w)
  <2>1. rec[w] \in Calls /\ rec[w].pc = "readActivity" /\ stats' = stats
    BY <1>4, ActiveCall DEF ReadActivity, CallStates
  <2>2. rec'[w].pc \in {"failed", "writeActivity"}
    <3>1. CASE Return(w, "failed")
      BY <1>2, <2>1, <3>1
    <3>2. CASE rec' = [rec EXCEPT ![w] = [@ EXCEPT !.pc = "writeActivity",
                                          !.count = daily[u][day]]]
      BY <2>1, <3>2 DEF TypeOK, Calls
    <3> QED
      BY <1>4, <3>1, <3>2 DEF ReadActivity
  <2> QED
    BY <2>1, <2>2
<1>5. CASE WriteActivity(w)
  <2>1. rec[w] \in Calls /\ rec[w].pc = "writeActivity" /\ stats' = stats
    BY <1>5, ActiveCall DEF WriteActivity, CallStates
  <2>2. PICK outcome \in Outcomes("writeActivity") :
          /\ daily' = IF outcome = "error" THEN daily
                      ELSE [daily EXCEPT ![u][day] = rec[w].count + 1]
          /\ IF outcome = "ok" THEN Advance(w, "saveStatistics") ELSE Return(w, "failed")
    BY <1>5 DEF WriteActivity
  <2>3. CASE outcome = "ok"
    <3>1. rec'[w].pc = "saveStatistics"
      BY <2>1, <2>2, <2>3 DEF Advance, TypeOK, Calls
    <3>2. u \in Users /\ day \in Dates
      BY <2>1 DEF Calls
    <3>3. daily' = [daily EXCEPT ![u][day] = rec[w].count + 1]
      BY <2>2, <2>3
    <3> HIDE DEF u, day
    <3>4. daily'[u][day] = rec[w].count + 1
      BY <3>2, <3>3 DEF TypeOK
    <3> QED
      BY <2>1, <3>1, <3>4 DEF u, day
  <2>4. CASE outcome # "ok"
    BY <1>2, <2>1, <2>2, <2>4
  <2> QED
    BY <2>3, <2>4
<1>6. CASE SaveStatistics(w)
  <2>1. rec[w] \in Calls /\ rec[w].pc = "saveStatistics"
    BY <1>6, ActiveCall DEF SaveStatistics, CallStates
  <2> DEFINE new == NewStatistics(rec[w].existing, day)
  <2>2. PICK outcome \in Outcomes("saveStatistics") :
          /\ stats' = IF outcome = "error" THEN stats ELSE [stats EXCEPT ![u] = new]
          /\ Return(w, IF outcome = "ok" THEN "done" ELSE "failed")
    BY <1>6 DEF SaveStatistics
  <2>3. rec'[w].pc = IF outcome = "ok" THEN "done" ELSE "failed"
    BY <1>2, <2>1, <2>2
  <2>4. u \in Users
    BY <2>1 DEF Calls
  <2> HIDE DEF u, day, new
  <2>5. stats' # stats \/ outcome = "ok" => stats'[u] = new
    BY <2>2, <2>4 DEF TypeOK
  <2> QED
    BY <2>1, <2>3, <2>5 DEF u, day, new
<1> QED
  BY <1>1, <1>3, <1>4, <1>5, <1>6 DEF Step

\* What the history variable becomes.
OverlapGrows == overlapped' = overlapped \cup {w \in Busy : SameUser(w) # {}}'

\* A call under way beside the one that moves, for the same user, is no longer alone; neither
\* was the moving one, if it had begun.
LEMMA BesideIsOverlapped ==
  ASSUME TypeOK, AloneInv, OverlapGrows, NEW w \in Workers,
         Step(w) \/ \E u \in Users, day \in Dates : Begin(w, u, day),
         NEW v \in Busy, v # w, rec'[w].user = rec[v].user
  PROVE  /\ v \in overlapped'
         /\ rec[w].pc \in CallStates => w \in overlapped'
<1>1. Moves(w)
  BY StepMoves
<1>2. v \in Workers /\ rec[v].pc \in CallStates \ {"done", "failed"} /\ rec'[v] = rec[v]
  BY <1>1 DEF Busy, Moves
<1>3. CASE rec[w].pc \in CallStates
  <2>1. w \in Busy /\ rec[w].user = rec[v].user
    BY <1>1, <1>3 DEF Busy, Moves
  <2>2. v \in SameUser(w) /\ w \in SameUser(v)
    BY <2>1 DEF SameUser
  <2> QED
    BY <2>1, <2>2 DEF AloneInv, OverlapGrows
<1>4. CASE rec[w].pc \notin CallStates
  <2>1. rec'[w].pc = "findStatistics"
    BY <1>4, SavedOrWritten
  <2>2. w \in Busy' /\ v \in Busy'
    BY <1>2, <2>1 DEF Busy, CallStates
  <2>3. w \in SameUser(v)'
    BY <1>2, <2>2 DEF SameUser
  <2> QED
    BY <1>4, <2>2, <2>3 DEF OverlapGrows
<1> QED
  BY <1>3, <1>4

\* The calls that were alone only grow by the one that ends, and only if it was alone.
LEMMA AloneGrows ==
  ASSUME IsFiniteSet(Started), NEW w \in Workers, Moves(w), OverlapGrows
  PROVE  /\ \A u : /\ Cardinality(Alone(u)) \in Nat /\ Cardinality(Alone(u))' \in Nat
                   /\ Cardinality(Alone(u))' <= Cardinality(Alone(u)) + 1
                   /\ rec'[w].pc # "done" \/ rec'[w].user # u \/ w \in overlapped' =>
                         Cardinality(Alone(u))' <= Cardinality(Alone(u))
         /\ \A u, d : /\ Cardinality(AloneOn(u, d)) \in Nat /\ Cardinality(AloneOn(u, d))' \in Nat
                      /\ Cardinality(AloneOn(u, d))' <= Cardinality(AloneOn(u, d)) + 1
                      /\ \/ rec'[w].pc # "done" \/ rec'[w].user # u
                         \/ rec'[w].today # d \/ w \in overlapped'
                         => Cardinality(AloneOn(u, d))' <= Cardinality(AloneOn(u, d))
<1>1. Started' = Started \cup {w} /\ overlapped \subseteq overlapped'
  BY DEF Started, Moves, OverlapGrows
<1>2. IsFiniteSet(Started')
  BY <1>1, FS_AddElement
<1>3. ASSUME NEW A, NEW B, A \subseteq Started, B \subseteq Started', B \subseteq A \cup {w}
      PROVE  /\ Cardinality(A) \in Nat /\ Cardinality(B) \in Nat
             /\ Cardinality(B) <= Cardinality(A) + 1
             /\ w \notin B => Cardinality(B) <= Cardinality(A)
  <2>1. IsFiniteSet(A) /\ IsFiniteSet(B)
    BY <1>2, <1>3, FS_Subset
  <2>2. Cardinality(A) \in Nat /\ Cardinality(B) \in Nat
    BY <2>1, FS_CardinalityType
  <2>3. /\ IsFiniteSet(A \cup {w})
        /\ Cardinality(A \cup {w}) = Cardinality(A) \/ Cardinality(A \cup {w}) = Cardinality(A) + 1
    BY <2>1, FS_AddElement
  <2>4. Cardinality(B) <= Cardinality(A \cup {w})
    BY <1>3, <2>3, FS_Subset
  <2>5. w \notin B => Cardinality(B) <= Cardinality(A)
    BY <1>3, <2>1, FS_Subset
  <2> QED
    BY <2>2, <2>3, <2>4, <2>5
<1>4. ASSUME NEW u
      PROVE  /\ Alone(u) \subseteq Started /\ Alone(u)' \subseteq Started'
             /\ Alone(u)' \subseteq Alone(u) \cup {w}
             /\ rec'[w].pc # "done" \/ rec'[w].user # u \/ w \in overlapped' => w \notin Alone(u)'
  BY <1>1 DEF Alone, CallsFor, Started, CallStates, Moves
<1>5. ASSUME NEW u, NEW d
      PROVE  /\ AloneOn(u, d) \subseteq Started /\ AloneOn(u, d)' \subseteq Started'
             /\ AloneOn(u, d)' \subseteq AloneOn(u, d) \cup {w}
             /\ \/ rec'[w].pc # "done" \/ rec'[w].user # u
                \/ rec'[w].today # d \/ w \in overlapped'
                => w \notin AloneOn(u, d)'
  BY <1>1 DEF AloneOn, CallsOn, CallsFor, Started, CallStates, Moves
<1>6. ASSUME NEW u
      PROVE  /\ Cardinality(Alone(u)) \in Nat /\ Cardinality(Alone(u)') \in Nat
             /\ Cardinality(Alone(u)') <= Cardinality(Alone(u)) + 1
             /\ w \notin Alone(u)' => Cardinality(Alone(u)') <= Cardinality(Alone(u))
  BY <1>3, <1>4
<1>7. ASSUME NEW u, NEW d
      PROVE  /\ Cardinality(AloneOn(u, d)) \in Nat /\ Cardinality(AloneOn(u, d)') \in Nat
             /\ Cardinality(AloneOn(u, d)') <= Cardinality(AloneOn(u, d)) + 1
             /\ w \notin AloneOn(u, d)' => Cardinality(AloneOn(u, d)') <= Cardinality(AloneOn(u, d))
  BY <1>3, <1>5
<1> QED
  BY <1>4, <1>5, <1>6, <1>7

LEMMA AloneStep ==
  ASSUME TypeOK, TypeOK', IsFiniteSet(Started), AloneInv, OverlapGrows, NEW w \in Workers,
         Step(w) \/ \E u \in Users, day \in Dates : Begin(w, u, day)
  PROVE  AloneInv'
<1> DEFINE u == rec[w].user
           day == rec[w].today
           alone(x) == Cardinality(Alone(x))
           aloneOn(x, d) == Cardinality(AloneOn(x, d))
<1>1. Moves(w) /\ overlapped \subseteq overlapped'
  BY StepMoves DEF OverlapGrows
<1>2. /\ \A x : /\ alone(x) \in Nat /\ alone(x)' \in Nat /\ alone(x)' <= alone(x) + 1
                /\ rec'[w].pc # "done" \/ rec'[w].user # x \/ w \in overlapped' =>
                      alone(x)' <= alone(x)
      /\ \A x, d : /\ aloneOn(x, d) \in Nat /\ aloneOn(x, d)' \in Nat
                   /\ aloneOn(x, d)' <= aloneOn(x, d) + 1
                   /\ \/ rec'[w].pc # "done" \/ rec'[w].user # x
                      \/ rec'[w].today # d \/ w \in overlapped'
                      => aloneOn(x, d)' <= aloneOn(x, d)
  BY <1>1, AloneGrows
<1>3. rec[w].pc \in CallStates =>
        /\ u \in Users /\ day \in Dates /\ rec'[w].user = u /\ rec'[w].today = day
        /\ rec[w].existing \in Statistics /\ rec[w].existing.totalCount \in Nat
        /\ rec[w].count \in Nat
  BY <1>1, ActiveCall DEF Moves, Calls, Statistics
<1>4. /\ stats' # stats => /\ rec[w].pc = "saveStatistics"
                           /\ rec'[w].pc \in {"done", "failed"}
                           /\ \A x \in Users \ {u} : stats'[x] = stats[x]
                           /\ stats'[u].totalCount = rec[w].existing.totalCount + 1
      /\ daily' # daily =>
            /\ rec[w].pc = "writeActivity" /\ rec'[w].pc \in {"saveStatistics", "failed"}
            /\ \A x \in Users, d \in Dates : x # u \/ d # day => daily'[x][d] = daily[x][d]
            /\ daily'[u][day] = rec[w].count + 1
      /\ rec'[w].pc \in Snapshots =>
            \/ rec[w].pc = "findStatistics" /\ rec'[w].existing = stats[u]
            \/ rec[w].pc \in Snapshots /\ rec'[w].existing = rec[w].existing
      /\ rec'[w].pc = "writeActivity" =>
            rec[w].pc = "readActivity" /\ rec'[w].count = daily[u][day]
  BY StepEffect DEF Snapshots
<1>5. /\ rec'[w].pc = "done" => /\ rec[w].pc = "saveStatistics"
                                /\ stats'[u].totalCount = rec[w].existing.totalCount + 1
      /\ rec'[w].pc = "saveStatistics" => /\ rec[w].pc = "writeActivity"
                                          /\ daily'[u][day] = rec[w].count + 1
      /\ rec[w].pc \notin CallStates =>
            rec'[w].pc = "findStatistics" /\ UNCHANGED <<stats, daily>>
  <2>1. \A e, d : NewStatistics(e, d).totalCount = e.totalCount + 1
    BY DEF NewStatistics
  <2> QED
    BY <2>1, SavedOrWritten
<1>6. /\ rec[w].pc \in Snapshots => rec[w].existing.totalCount >= alone(u)
      /\ rec[w].pc = "writeActivity" => rec[w].count >= aloneOn(u, day)
      /\ rec[w].pc = "saveStatistics" /\ w \notin overlapped => daily[u][day] > aloneOn(u, day)
  BY <1>3 DEF AloneInv, Snapshots, CallStates
<1>7. ASSUME NEW v \in Workers, v # w, rec'[v].pc \in Snapshots, rec'[v].user = rec'[w].user
      PROVE  v \in overlapped' /\ (rec[w].pc \in CallStates => w \in overlapped')
  <2>1. rec'[v] = rec[v] /\ v \in Busy /\ rec'[w].user = rec[v].user
    BY <1>1, <1>7 DEF Moves, Busy, Snapshots, CallStates
  <2> QED
    BY <1>7, <2>1, BesideIsOverlapped
<1>8. ASSUME NEW x \in Users
      PROVE  stats'[x].totalCount >= alone(x)'
  <2>0. /\ alone(x) \in Nat /\ alone(x)' \in Nat /\ alone(x)' <= alone(x) + 1
        /\ rec'[w].pc # "done" \/ rec'[w].user # x \/ w \in overlapped' =>
              alone(x)' <= alone(x)
    BY <1>2
  <2>1. stats[x].totalCount >= alone(x) /\ stats[x].totalCount \in Nat
    BY DEF AloneInv, CountsEveryPass, TypeOK, Statistics
  <2>2. CASE x = u /\ rec[w].pc = "saveStatistics"
               /\ stats'[x].totalCount = rec[w].existing.totalCount + 1
    <3>1. rec[w].existing.totalCount >= alone(x) /\ rec[w].existing.totalCount \in Nat
      BY <1>3, <1>6, <2>2 DEF Snapshots, CallStates
    <3> HIDE DEF alone
    <3> QED
      BY <2>0, <2>2, <3>1
  <2>3. CASE stats'[x] = stats[x] /\ (rec'[w].pc # "done" \/ rec'[w].user # x)
    BY <2>0, <2>1, <2>3
  <2>4. rec'[w].pc = "done" /\ rec'[w].user = x =>
           x = u /\ rec[w].pc = "saveStatistics"
             /\ stats'[x].totalCount = rec[w].existing.totalCount + 1
    BY <1>3, <1>5 DEF CallStates
  <2>5. stats'[x] # stats[x] => x = u /\ rec[w].pc = "saveStatistics"
                                 /\ stats'[x].totalCount = rec[w].existing.totalCount + 1
    BY <1>4
  <2> QED
    BY <2>2, <2>3, <2>4, <2>5
<1>9. ASSUME NEW x \in Users, NEW d \in Dates
      PROVE  daily'[x][d] >= aloneOn(x, d)'
  <2>0. /\ aloneOn(x, d) \in Nat /\ aloneOn(x, d)' \in Nat
        /\ aloneOn(x, d)' <= aloneOn(x, d) + 1
        /\ \/ rec'[w].pc # "done" \/ rec'[w].user # x
           \/ rec'[w].today # d \/ w \in overlapped'
           => aloneOn(x, d)' <= aloneOn(x, d)
    BY <1>2
  <2>1. daily[x][d] >= aloneOn(x, d) /\ daily[x][d] \in Nat
    BY DEF AloneInv, CountsEveryPass, TypeOK
  <2>2. CASE daily'[x][d] # daily[x][d]
    <3>1. /\ x = u /\ d = day /\ daily'[x][d] = rec[w].count + 1
          /\ rec[w].count \in Nat /\ rec[w].count >= aloneOn(x, d)
      BY <1>3, <1>4, <1>6, <2>2 DEF CallStates
    <3> HIDE DEF aloneOn
    <3> QED
      BY <2>0, <3>1
  <2>3. CASE /\ daily'[x][d] = daily[x][d]
             /\ rec'[w].pc = "done" /\ rec'[w].user = x /\ rec'[w].today = d
             /\ w \notin overlapped'
    <3>1. x = u /\ d = day /\ daily[x][d] > aloneOn(x, d)
      BY <1>1, <1>3, <1>5, <1>6, <2>3 DEF CallStates
    <3> HIDE DEF aloneOn
    <3> QED
      BY <2>0, <2>1, <2>3, <3>1
  <2>4. CASE /\ daily'[x][d] = daily[x][d]
             /\ ~(/\ rec'[w].pc = "done" /\ rec'[w].user = x /\ rec'[w].today = d
                  /\ w \notin overlapped')
    BY <2>0, <2>1, <2>4
  <2> QED
    BY <2>2, <2>3, <2>4
<1>10. ASSUME NEW v \in Busy', SameUser(v)' # {}
       PROVE  v \in overlapped'
  BY <1>10 DEF OverlapGrows
<1>11. ASSUME NEW v \in Workers, NEW x \in Users, rec'[v].pc \in Snapshots, rec'[v].user = x
       PROVE  /\ rec'[v].existing.totalCount >= alone(x)'
              /\ v \notin overlapped' => rec'[v].existing = stats'[x]
  <2>0. /\ alone(x) \in Nat /\ alone(x)' \in Nat /\ alone(x)' <= alone(x) + 1
        /\ rec'[w].pc # "done" \/ rec'[w].user # x \/ w \in overlapped' =>
              alone(x)' <= alone(x)
    BY <1>2
  <2>1. CASE v # w
    <3>1. /\ rec'[v] = rec[v] /\ rec[v].existing.totalCount >= alone(x)
          /\ v \notin overlapped => rec[v].existing = stats[x]
      BY <1>1, <1>11, <2>1 DEF Moves, AloneInv
    <3>2. rec[v].existing.totalCount \in Nat
      BY <1>11, <3>1, ActiveCall DEF Calls, Statistics, Snapshots, CallStates
    <3>3. rec'[w].user = x =>
            /\ v \in overlapped'
            /\ rec'[w].pc # "done" \/ w \in overlapped'
      BY <1>5, <1>7, <1>11, <2>1
    <3>4. rec'[w].user # x => stats'[x] = stats[x]
      BY <1>3, <1>4 DEF CallStates
    <3>5. alone(x)' <= alone(x)
      BY <2>0, <3>3
    <3>6. rec'[v].existing.totalCount >= alone(x)'
      <4> HIDE DEF alone
      <4> QED
        BY <2>0, <3>1, <3>2, <3>5
    <3> QED
      BY <1>1, <3>1, <3>3, <3>4, <3>6
  <2>2. CASE v = w
    <3>1. /\ rec[w].pc \in CallStates /\ x = u /\ stats' = stats /\ alone(x)' <= alone(x)
          /\ \/ rec'[w].existing = stats[x]
             \/ rec[w].pc \in Snapshots /\ rec'[w].existing = rec[w].existing
      <4>1. rec'[w].pc \in Snapshots /\ rec'[w].user = x
        BY <1>11, <2>2
      <4>2. rec[w].pc \in CallStates
        BY <1>5, <4>1 DEF Snapshots
      <4>3. x = u /\ alone(x)' <= alone(x)
        BY <1>3, <2>0, <4>1, <4>2 DEF Snapshots
      <4>4. stats' = stats
        BY <1>4, <4>1 DEF Snapshots
      <4>5. \/ rec'[w].existing = stats[u]
            \/ rec[w].pc \in Snapshots /\ rec'[w].existing = rec[w].existing
        BY <1>4, <4>1
      <4> QED
        BY <4>2, <4>3, <4>4, <4>5
    <3>2. /\ stats[x].totalCount >= alone(x) /\ stats[x].totalCount \in Nat
          /\ rec[w].existing.totalCount \in Nat
      BY <1>3, <3>1 DEF AloneInv, CountsEveryPass, TypeOK, Statistics
    <3>3. rec[w].pc \in Snapshots => /\ rec[w].existing.totalCount >= alone(x)
                                     /\ w \notin overlapped => rec[w].existing = stats[x]
      BY <3>1 DEF AloneInv
    <3>4. rec'[w].existing.totalCount >= alone(x) /\ rec'[w].existing.totalCount \in Nat
      BY <3>1, <3>2, <3>3
    <3>5. rec'[w].existing.totalCount >= alone(x)'
      <4> HIDE DEF alone
      <4> QED
        BY <2>0, <3>1, <3>4
    <3> QED
      BY <1>1, <2>2, <3>1, <3>3, <3>5
  <2> QED
    BY <2>1, <2>2
<1>12. ASSUME NEW v \in Workers, NEW x \in Users, NEW d \in Dates,
              rec'[v].pc = "writeActivity", rec'[v].user = x, rec'[v].today = d
       PROVE  rec'[v].count >= aloneOn(x, d)'
  <2>0. /\ aloneOn(x, d) \in Nat /\ aloneOn(x, d)' \in Nat
        /\ aloneOn(x, d)' <= aloneOn(x, d) + 1
        /\ \/ rec'[w].pc # "done" \/ rec'[w].user # x
           \/ rec'[w].today # d \/ w \in overlapped'
           => aloneOn(x, d)' <= aloneOn(x, d)
    BY <1>2
  <2>1. /\ rec'[v].count >= aloneOn(x, d) /\ rec'[v].count \in Nat
        /\ aloneOn(x, d)' <= aloneOn(x, d)
    <3>1. CASE v # w
      <4>1. rec'[v] = rec[v] /\ rec[v].count >= aloneOn(x, d)
        BY <1>1, <1>12, <3>1 DEF Moves, AloneInv, CallStates
      <4>2. rec[v].count \in Nat
        BY <1>12, <4>1, ActiveCall DEF Calls, CallStates
      <4>3. rec'[w].user = x => rec'[w].pc # "done" \/ w \in overlapped'
        BY <1>5, <1>7, <1>12, <3>1 DEF Snapshots
      <4> QED
        BY <2>0, <4>1, <4>2, <4>3
    <3>2. CASE v = w
      <4>1. rec[w].pc = "readActivity" /\ rec'[w].count = daily[u][day] /\ x = u /\ d = day
        BY <1>3, <1>4, <1>12, <3>2 DEF CallStates
      <4>2. daily[x][d] >= aloneOn(x, d) /\ daily[x][d] \in Nat
        BY DEF AloneInv, CountsEveryPass, TypeOK
      <4>3. aloneOn(x, d)' <= aloneOn(x, d)
        BY <2>0, <1>12, <3>2
      <4> QED
        BY <3>2, <4>1, <4>2, <4>3
    <3> QED
      BY <3>1, <3>2
  <2> HIDE DEF aloneOn
  <2> QED
    BY <2>0, <2>1
<1>13. ASSUME NEW v \in Workers, NEW x \in Users, NEW d \in Dates, v \notin overlapped',
              rec'[v].pc = "saveStatistics", rec'[v].user = x, rec'[v].today = d
       PROVE  daily'[x][d] > aloneOn(x, d)'
  <2>0. /\ aloneOn(x, d) \in Nat /\ aloneOn(x, d)' \in Nat
        /\ aloneOn(x, d)' <= aloneOn(x, d) + 1
        /\ \/ rec'[w].pc # "done" \/ rec'[w].user # x
           \/ rec'[w].today # d \/ w \in overlapped'
           => aloneOn(x, d)' <= aloneOn(x, d)
    BY <1>2
  <2>1. CASE v # w
    <3>1. rec'[v] = rec[v] /\ daily[x][d] > aloneOn(x, d) /\ daily[x][d] \in Nat
      BY <1>1, <1>13, <2>1 DEF Moves, AloneInv, CallStates, TypeOK
    <3>2. rec'[w].user # x
      BY <1>7, <1>13, <2>1 DEF Snapshots
    <3>3. daily'[x][d] = daily[x][d] /\ aloneOn(x, d)' <= aloneOn(x, d)
      BY <2>0, <1>3, <1>4, <3>2 DEF CallStates
    <3> HIDE DEF aloneOn
    <3> QED
      BY <2>0, <3>1, <3>3
  <2>2. CASE v = w
    <3>1. /\ x = u /\ d = day /\ rec[w].pc = "writeActivity"
          /\ daily'[x][d] = rec[w].count + 1 /\ aloneOn(x, d)' <= aloneOn(x, d)
      BY <2>0, <1>3, <1>5, <1>13, <2>2 DEF CallStates
    <3>2. rec[w].count >= aloneOn(x, d) /\ rec[w].count \in Nat
      BY <1>3, <1>6, <3>1 DEF CallStates
    <3> HIDE DEF aloneOn
    <3> QED
      BY <2>0, <3>1, <3>2
  <2> QED
    BY <2>1, <2>2
<1> QED
  BY <1>8, <1>9, <1>10, <1>11, <1>12, <1>13 DEF AloneInv, CountsEveryPass

LEMMA AloneInvariant == HistorySpec => []AloneInv
<1>1. HistoryInit => AloneInv
  <2> SUFFICES ASSUME HistoryInit PROVE AloneInv
    OBVIOUS
  <2>1. \A w \in Workers : rec[w].pc = "idle"
    BY DEF HistoryInit, Init, IdleCall
  <2>2. Busy = {} /\ \A u : Alone(u) = {} /\ \A d : AloneOn(u, d) = {}
    BY <2>1 DEF Busy, Alone, AloneOn, CallsOn, CallsFor, CallStates
  <2>3. Cardinality({}) = 0
    BY FS_EmptySet
  <2>4. CountsEveryPass
    BY <2>2, <2>3 DEF HistoryInit, Init, CountsEveryPass, EmptyStatistics
  <2> QED
    BY <2>1, <2>2, <2>4 DEF AloneInv, Snapshots, CallStates
<1>2. AloneInv /\ StreakInv /\ StreakInv' /\ CountInv /\ [HistoryNext]_histVars => AloneInv'
  <2> SUFFICES ASSUME AloneInv, StreakInv, StreakInv', CountInv, [HistoryNext]_histVars
               PROVE  AloneInv'
    OBVIOUS
  <2>1. TypeOK /\ TypeOK' /\ IsFiniteSet(Started)
    BY DEF StreakInv, CountInv
  <2>2. CASE UNCHANGED histVars
    BY <2>2 DEF histVars, statsVars, AloneInv, CountsEveryPass, Alone, AloneOn, CallsOn,
                CallsFor, Busy, SameUser
  <2>3. CASE HistoryNext
    BY <2>1, <2>3, AloneStep DEF HistoryNext, OverlapGrows, Next, Call
  <2> QED
    BY <2>2, <2>3
<1>3. HistoryInit => Init
  BY DEF HistoryInit
<1>4. [HistoryNext]_histVars => [Next]_statsVars
  BY DEF HistoryNext, histVars
<1>5. HistorySpec => Spec
  BY <1>3, <1>4, PTL DEF HistorySpec, Spec
<1> QED
  BY <1>1, <1>2, <1>5, StreakInvariant, CountInvariant, PTL DEF HistorySpec

(***************************************************************************)
(* A writing whose recording overlapped no other one of its user is never  *)
(* lost, however many calls overlap before and after it.                   *)
(***************************************************************************)
THEOREM LoneCallsCount == HistorySpec => []CountsEveryPass
<1>1. AloneInv => CountsEveryPass
  BY DEF AloneInv
<1> QED
  BY <1>1, AloneInvariant, PTL

\* The streak rules take nothing back from the row they start from.
LEMMA NothingLost ==
  ASSUME NEW s \in Statistics, NEW today \in Dates,
         s.lastWrittenDate = NoDate => s.longestStreak = 0
  PROVE  LET new == NewStatistics(s, today)
         IN  /\ s.lastWrittenDate # NoDate => new.lastWrittenDate >= s.lastWrittenDate
             /\ new.longestStreak >= s.longestStreak
             /\ new.totalCount >= s.totalCount
<1> DEFINE last == s.lastWrittenDate
           longest == s.longestStreak
           next == s.currentStreak + 1
           new == NewStatistics(s, today)
<1>1. /\ longest \in Nat /\ next \in Nat /\ s.totalCount \in Nat /\ today \in Int
      /\ last # NoDate => last \in Int
  <2>1. s.longestStreak \in Nat /\ s.currentStreak \in Nat /\ s.totalCount \in Nat
    BY DEF Statistics
  <2>2. today \in Int /\ (s.lastWrittenDate # NoDate => s.lastWrittenDate \in Int)
    BY DatesAssumption DEF Statistics
  <2> QED
    BY <2>1, <2>2
<1>2. /\ new.lastWrittenDate = IF last = NoDate THEN today ELSE MaxOf(last, today)
      /\ new.totalCount = s.totalCount + 1
      /\ new.longestStreak = CalculateStreak(s, today).longestStreak
  BY DEF NewStatistics
<1>3. CASE last = NoDate
  <2>1. new.longestStreak = 1
    BY <1>2, <1>3 DEF CalculateStreak
  <2> QED
    BY <1>1, <1>2, <1>3, <2>1
<1>4. CASE last # NoDate
  <2>1. new.longestStreak \in {longest, MaxOf(longest, next)}
    <3>1. \/ today - last <= 0 \/ today - last = 1 \/ today - last > 1
      <4> HIDE DEF last
      <4> QED
        BY <1>1, <1>4
    <3> QED
      BY <1>1, <1>2, <1>4, <3>1 DEF CalculateStreak, DiffInUtcDays
  <2>2. new.longestStreak >= longest
    <3> HIDE DEF new, longest, next
    <3> QED
      BY <1>1, <2>1 DEF MaxOf
  <2>3. new.lastWrittenDate >= last
    <3> HIDE DEF new, last
    <3> QED
      BY <1>1, <1>2, <1>4 DEF MaxOf
  <2> QED
    BY <1>1, <1>2, <2>2, <2>3
<1> QED
  BY <1>3, <1>4

\* A row that is saved has a last date, whatever it was computed from.
LEMMA NewLastDate ==
  ASSUME NEW s \in Statistics, NEW today \in Dates
  PROVE  NewStatistics(s, today).lastWrittenDate \in Int
<1> DEFINE last == s.lastWrittenDate
<1>1. today \in Int /\ (last # NoDate => last \in Int)
  BY DatesAssumption DEF Statistics
<1>2. NewStatistics(s, today).lastWrittenDate
        = IF last = NoDate THEN today ELSE MaxOf(last, today)
  BY DEF NewStatistics
<1> HIDE DEF last
<1> QED
  BY <1>1, <1>2 DEF MaxOf

\* A row without a last date is the empty one.
FreshRows == \A u \in Users : stats[u].lastWrittenDate = NoDate => stats[u].longestStreak = 0

\* What the step of one call may do to the row of a user.
LEMMA RowOfUser ==
  ASSUME StreakInv, FreshRows, AloneInv, NEW w \in Workers,
         Step(w) \/ \E u \in Users, day \in Dates : Begin(w, u, day), NEW u \in Users
  PROVE  \/ stats'[u] = stats[u]
         \/ /\ rec[w].pc = "saveStatistics" /\ rec[w].user = u
            /\ stats'[u].lastWrittenDate \in Int
            /\ w \notin overlapped =>
                 /\ stats[u].lastWrittenDate # NoDate =>
                       stats'[u].lastWrittenDate >= stats[u].lastWrittenDate
                 /\ stats'[u].longestStreak >= stats[u].longestStreak
                 /\ stats'[u].totalCount >= stats[u].totalCount
<1>1. TypeOK
  BY DEF StreakInv
<1> SUFFICES ASSUME stats'[u] # stats[u]
             PROVE  /\ rec[w].pc = "saveStatistics" /\ rec[w].user = u
                    /\ stats'[u].lastWrittenDate \in Int
                    /\ w \notin overlapped =>
                         /\ stats[u].lastWrittenDate # NoDate =>
                               stats'[u].lastWrittenDate >= stats[u].lastWrittenDate
                         /\ stats'[u].longestStreak >= stats[u].longestStreak
                         /\ stats'[u].totalCount >= stats[u].totalCount
  OBVIOUS
<1>2. rec[w].pc = "saveStatistics" /\ rec[w].user = u
  BY <1>1, StepEffect
<1>3. /\ rec[w].existing \in Statistics /\ rec[w].today \in Dates
      /\ stats[u] \in Statistics
  BY <1>1, <1>2, ActiveCall DEF Calls, CallStates, TypeOK
<1>4. stats'[u] = NewStatistics(rec[w].existing, rec[w].today)
  BY <1>1, <1>2, SavedOrWritten
<1>5. stats'[u].lastWrittenDate \in Int
  BY <1>3, <1>4, NewLastDate
<1>6. w \notin overlapped => rec[w].existing = stats[u]
  BY <1>2 DEF AloneInv, Snapshots
<1> QED
  BY <1>2, <1>3, <1>4, <1>5, <1>6, NothingLost DEF FreshRows

(***************************************************************************)
(* While a user's writings are recorded one by one, neither the last       *)
(* written day nor the longest streak nor the total ever goes back.        *)
(***************************************************************************)
THEOREM LoneCallsTakeNothingBack == HistorySpec => NothingTakenBack
<1>1. HistoryInit => FreshRows
  BY DEF HistoryInit, Init, FreshRows, EmptyStatistics
<1>2. StreakInv /\ AloneInv /\ FreshRows /\ [HistoryNext]_histVars => FreshRows'
  <2> SUFFICES ASSUME StreakInv, AloneInv, FreshRows, [HistoryNext]_histVars,
                      NEW u \in Users, stats'[u].lastWrittenDate = NoDate
               PROVE  stats'[u].longestStreak = 0
    BY DEF FreshRows
  <2>1. CASE UNCHANGED histVars
    BY <2>1 DEF histVars, statsVars, FreshRows
  <2>2. CASE HistoryNext
    <3>1. stats'[u] = stats[u] \/ stats'[u].lastWrittenDate \in Int
      BY <2>2, RowOfUser DEF HistoryNext, Next, Call
    <3> QED
      BY <3>1, NoDateAssumption DEF FreshRows
  <2> QED
    BY <2>1, <2>2
<1>3. StreakInv /\ AloneInv /\ FreshRows /\ [HistoryNext]_histVars =>
        [\A u \in Users : OneByOne(u)' =>
            /\ stats[u].lastWrittenDate # NoDate =>
                  stats'[u].lastWrittenDate >= stats[u].lastWrittenDate
            /\ stats'[u].longestStreak >= stats[u].longestStreak
            /\ stats'[u].totalCount >= stats[u].totalCount]_histVars
  <2> SUFFICES ASSUME StreakInv, AloneInv, FreshRows, HistoryNext,
                      NEW u \in Users, OneByOne(u)'
               PROVE  /\ stats[u].lastWrittenDate # NoDate =>
                           stats'[u].lastWrittenDate >= stats[u].lastWrittenDate
                      /\ stats'[u].longestStreak >= stats[u].longestStreak
                      /\ stats'[u].totalCount >= stats[u].totalCount
    OBVIOUS
  <2>1. PICK w \in Workers : Step(w) \/ \E x \in Users, d \in Dates : Begin(w, x, d)
    BY DEF HistoryNext, Next, Call
  <2>2. CASE stats'[u] = stats[u]
    <3>1. /\ stats[u].longestStreak \in Nat /\ stats[u].totalCount \in Nat
          /\ stats[u].lastWrittenDate # NoDate => stats[u].lastWrittenDate \in Int
      BY DatesAssumption DEF StreakInv, TypeOK, Statistics
    <3> QED
      BY <2>2, <3>1
  <2>3. CASE stats'[u] # stats[u]
    <3>1. rec[w].pc = "saveStatistics" /\ rec[w].user = u
      BY <2>1, <2>3, RowOfUser
    <3>2. w \in CallsFor(u, CallStates)'
      BY <2>1, <3>1, StepMoves DEF Moves, StreakInv, CallsFor, CallStates
    <3>3. w \notin overlapped
      BY <3>2 DEF OneByOne, HistoryNext
    <3> QED
      BY <2>1, <2>3, <3>3, RowOfUser
  <2> QED
    BY <2>2, <2>3
<1>4. HistoryInit => Init
  BY DEF HistoryInit
<1>5. [HistoryNext]_histVars => [Next]_statsVars
  BY DEF HistoryNext, histVars
<1>6. HistorySpec => Spec
  BY <1>4, <1>5, PTL DEF HistorySpec, Spec
<1> QED
  BY <1>1, <1>2, <1>3, <1>6, StreakInvariant, AloneInvariant, PTL
     DEF HistorySpec, NothingTakenBack

-----------------------------------------------------------------------------
(* The streak and its reference definition. *)

\* The unbroken run of days of A that ends on the given day has length n.
RunOf(A, day, n) == (day - n + 1)..day \subseteq A /\ (day - n) \notin A

(***************************************************************************)
(* Row s says of the active days A exactly what its names say: the last    *)
(* day, the run that ends there and the longest run.  That every day has a *)
(* run of some length, none above longestStreak, is what makes "longest"   *)
(* mean something.                                                         *)
(***************************************************************************)
Exact(s, A) ==
    \/ A = {} /\ s = EmptyStatistics
    \/ /\ s.lastWrittenDate \in A
       /\ \A day \in A : day <= s.lastWrittenDate
       /\ RunOf(A, s.lastWrittenDate, s.currentStreak)
       /\ \E day \in A : RunOf(A, day, s.longestStreak)
       /\ \A day \in A : \E n \in 1..s.longestStreak : RunOf(A, day, n)

\* A member that bounds a set of integers is its maximum.
LEMMA MaxIs ==
  ASSUME NEW S \in SUBSET Int, NEW m \in S, \A y \in S : y <= m
  PROVE  Max(S) = m
<1>1. m \in S /\ \A y \in S : m >= y
  OBVIOUS
<1>2. Max(S) \in S /\ \A y \in S : Max(S) >= y
  BY <1>1 DEF Max
<1>3. m \in Int /\ Max(S) \in Int /\ m >= Max(S) /\ Max(S) >= m
  BY <1>1, <1>2
<1> QED
  BY <1>3

\* The run of which the length is known is the one RunEndingOn finds.
LEMMA RunLength ==
  ASSUME NEW A \in SUBSET Int, IsFiniteSet(A), NEW day \in Int, NEW n \in Nat, RunOf(A, day, n)
  PROVE  Max({m \in 0..Cardinality(A) : (day - m + 1)..day \subseteq A}) = n
<1> DEFINE S == {m \in 0..Cardinality(A) : (day - m + 1)..day \subseteq A}
<1>1. Cardinality(A) \in Nat
  BY FS_CardinalityType
<1>2. n <= Cardinality(A)
  <2>1. (day - n + 1)..day \in SUBSET A
    BY DEF RunOf
  <2>2. Cardinality((day - n + 1)..day) <= Cardinality(A)
    BY <2>1, FS_Subset
  <2>3. day - n + 1 \in Int
    OBVIOUS
  <2>4. Cardinality((day - n + 1)..day)
          = IF day - n + 1 > day THEN 0 ELSE day - (day - n + 1) + 1
    BY <2>3, FS_Interval
  <2>5. Cardinality((day - n + 1)..day) = n
    BY <2>4
  <2> QED
    BY <2>2, <2>5
<1>3. n \in S
  BY <1>1, <1>2 DEF RunOf
<1>4. ASSUME NEW m \in S
      PROVE  m <= n
  <2> SUFFICES ASSUME m > n PROVE FALSE
    BY <1>1
  <2>1. m \in Int /\ (day - m + 1)..day \subseteq A
    BY <1>1
  <2>2. day - n \in (day - m + 1)..day
    BY <2>1
  <2> QED
    BY <2>1, <2>2 DEF RunOf
<1>5. S \in SUBSET Int
  BY <1>1
<1> QED
  BY <1>3, <1>4, <1>5, MaxIs

\* A run of days before the new one is the same with it.
LEMMA RunBefore ==
  ASSUME NEW A \in SUBSET Int, NEW today \in Int, NEW day \in Int, NEW n \in Nat,
         day < today, RunOf(A, day, n)
  PROVE  RunOf(A \cup {today}, day, n)
BY DEF RunOf

\* Recording a day that is no earlier than the others keeps the row exact.
LEMMA ExactExtends ==
  ASSUME NEW s \in Statistics, NEW A \in SUBSET Dates, NEW today \in Dates,
         \A day \in A : day <= today, Exact(s, A)
  PROVE  Exact(NewStatistics(s, today), A \cup {today})
<1> DEFINE last == s.lastWrittenDate
           current == s.currentStreak
           longest == s.longestStreak
           new == NewStatistics(s, today)
           B == A \cup {today}
<1> SUFFICES Exact(new, B)
  OBVIOUS
<1>1. A \in SUBSET Int /\ B \in SUBSET Int /\ today \in Int
  BY DatesAssumption
<1>2. current \in Nat /\ longest \in Nat
  BY DEF Statistics
<1>3. /\ new.lastWrittenDate = IF last = NoDate THEN today ELSE MaxOf(last, today)
      /\ new.currentStreak = CalculateStreak(s, today).currentStreak
      /\ new.longestStreak = CalculateStreak(s, today).longestStreak
  BY DEF NewStatistics
<1>4. today - 1 \notin A => RunOf(B, today, 1)
  BY <1>1 DEF RunOf
<1>5. CASE A = {} /\ s = EmptyStatistics
  <2>1. /\ new.lastWrittenDate = today
        /\ new.currentStreak = 1 /\ new.longestStreak = 1
    BY <1>3, <1>5 DEF EmptyStatistics, CalculateStreak
  <2> HIDE DEF new
  <2> QED
    BY <1>1, <1>4, <1>5, <2>1 DEF Exact
<1>6. CASE /\ last \in A
           /\ \A day \in A : day <= last
           /\ RunOf(A, last, current)
           /\ \E day \in A : RunOf(A, day, longest)
           /\ \A day \in A : \E n \in 1..longest : RunOf(A, day, n)
  <2>1. last \in Int /\ last # NoDate /\ last <= today
    BY <1>1, <1>6, NoDateAssumption
  <2>2. CASE last = today
    <3>1. B = A
      BY <1>6, <2>2
    <3>2. /\ today - last <= 0 /\ today - last # 1 /\ ~(today - last > 1)
          /\ MaxOf(last, today) = last
      <4> HIDE DEF last
      <4> QED
        BY <2>1, <2>2 DEF MaxOf
    <3>3. /\ new.lastWrittenDate = last
          /\ new.currentStreak = current /\ new.longestStreak = longest
      <4>1. CalculateStreak(s, today) = [currentStreak |-> current, longestStreak |-> longest]
        BY <2>1, <3>2 DEF CalculateStreak, DiffInUtcDays
      <4> HIDE DEF new
      <4> QED
        BY <1>3, <2>1, <3>2, <4>1
    <3> HIDE DEF new, last, current, longest
    <3> QED
      BY <1>6, <3>1, <3>3 DEF Exact
  <2>3. ASSUME last < today
        PROVE  /\ MaxOf(last, today) = today
               /\ today \notin A
               /\ \A day \in A, n \in Nat : RunOf(A, day, n) => RunOf(B, day, n)
    <3>1. MaxOf(last, today) = today /\ today \notin A
      <4> HIDE DEF last
      <4> QED
        BY <1>1, <1>6, <2>1, <2>3 DEF MaxOf
    <3>2. ASSUME NEW day \in A, NEW n \in Nat, RunOf(A, day, n)
          PROVE  RunOf(B, day, n)
      <4>1. day \in Int /\ day < today
        <5> HIDE DEF last
        <5> QED
          BY <1>1, <1>6, <2>1, <2>3
      <4> QED
        BY <1>1, <3>2, <4>1, RunBefore
    <3> QED
      BY <3>1, <3>2
  <2>4. CASE today - last = 1
    <3>1. last < today
      <4> HIDE DEF last
      <4> QED
        BY <1>1, <2>1, <2>4
    <3>2. /\ new.lastWrittenDate = today
          /\ new.currentStreak = current + 1
          /\ new.longestStreak = MaxOf(longest, current + 1)
      BY <1>3, <2>1, <2>3, <2>4, <3>1 DEF CalculateStreak, DiffInUtcDays
    <3>3. RunOf(B, today, current + 1)
      <4> HIDE DEF last, current
      <4> QED
        BY <1>1, <1>2, <1>6, <2>1, <2>4 DEF RunOf
    <3>4. MaxOf(longest, current + 1) \in {longest, current + 1}
          /\ longest <= MaxOf(longest, current + 1)
          /\ current + 1 \in 1..MaxOf(longest, current + 1)
      <4> HIDE DEF longest, current
      <4> QED
        BY <1>2 DEF MaxOf
    <3>5. \E day \in B : RunOf(B, day, new.longestStreak)
      <4> HIDE DEF new, last, current, longest, B
      <4> QED
        BY <1>2, <1>6, <2>3, <3>1, <3>2, <3>3, <3>4 DEF B
    <3>6. ASSUME NEW day \in B
          PROVE  \E n \in 1..new.longestStreak : RunOf(B, day, n)
      <4>1. CASE day = today
        <5> HIDE DEF new, last, current, longest, B
        <5> QED
          BY <3>2, <3>3, <3>4, <4>1
      <4>2. CASE day \in A
        <5>1. PICK n \in 1..longest : RunOf(A, day, n)
          BY <1>6, <4>2
        <5>2. n \in Nat /\ n \in 1..new.longestStreak
          <6> HIDE DEF new, last, current, longest, B
          <6> QED
            BY <1>2, <3>2, <3>4
        <5> QED
          BY <2>3, <3>1, <4>2, <5>1, <5>2
      <4> QED
        BY <4>1, <4>2
    <3> HIDE DEF new
    <3> QED
      BY <1>1, <3>2, <3>3, <3>5, <3>6 DEF Exact
  <2>5. CASE today - last > 1
    <3>1. last < today
      <4> HIDE DEF last
      <4> QED
        BY <1>1, <2>1, <2>5
    <3>2. /\ new.lastWrittenDate = today
          /\ new.currentStreak = 1
          /\ new.longestStreak = longest
      BY <1>3, <2>1, <2>3, <2>5, <3>1 DEF CalculateStreak, DiffInUtcDays
    <3>3. RunOf(B, today, 1)
      <4>1. today - 1 \notin A
        <5> HIDE DEF last
        <5> QED
          BY <1>1, <1>6, <2>1, <2>5
      <4> QED
        BY <1>4, <4>1
    <3>4. \E day \in B : RunOf(B, day, longest)
      BY <1>2, <1>6, <2>3, <3>1
    <3>5. ASSUME NEW day \in B
          PROVE  \E n \in 1..longest : RunOf(B, day, n)
      <4>1. 1 \in 1..longest
        <5>1. PICK n \in 1..longest : RunOf(A, last, n)
          BY <1>6
        <5> HIDE DEF longest
        <5> QED
          BY <1>2, <5>1
      <4>2. CASE day = today
        BY <3>3, <4>1, <4>2
      <4>3. CASE day \in A
        <5>1. PICK n \in 1..longest : RunOf(A, day, n)
          BY <1>6, <4>3
        <5>2. n \in Nat
          BY <1>2
        <5> QED
          BY <2>3, <3>1, <4>3, <5>1, <5>2
      <4> QED
        BY <4>2, <4>3
    <3> HIDE DEF new
    <3> QED
      BY <1>1, <3>2, <3>3, <3>4, <3>5 DEF Exact
  <2>6. last = today \/ today - last = 1 \/ today - last > 1
    <3> HIDE DEF last
    <3> QED
      BY <1>1, <2>1
  <2> QED
    BY <2>2, <2>4, <2>5, <2>6
<1> QED
  BY <1>5, <1>6 DEF Exact

(***************************************************************************)
(* The inductive strengthening of StreakIsExact: a call that began while   *)
(* an earlier one of its user was under way marks that one as overlapped,  *)
(* so that with calls one by one the days recorded so far are those of     *)
(* earlier calls; and the row is exact for these days.                     *)
(***************************************************************************)
ExactInv ==
    /\ \A u \in Users : IsFiniteSet(ActiveDays(u))
    /\ \A w \in Busy, v \in Workers :
          v > w /\ rec[v].pc \in CallStates /\ rec[v].user = rec[w].user => w \in overlapped
    /\ \A u \in Users : OneByOne(u) /\ Orderly(u) => Exact(stats[u], ActiveDays(u))

\* The active days are days, and they grow by the day of the call that ends well.
LEMMA DaysGrow ==
  ASSUME TypeOK, NEW w \in Workers, Moves(w), NEW u \in Users
  PROVE  /\ ActiveDays(u) \in SUBSET Dates
         /\ ActiveDays(u)' = IF rec'[w].pc = "done" /\ rec'[w].user = u
                             THEN ActiveDays(u) \cup {rec'[w].today} ELSE ActiveDays(u)
<1>1. ActiveDays(u) \in SUBSET Dates
  <2>1. ASSUME NEW v \in CallsFor(u, {"done"})
        PROVE  rec[v].today \in Dates
    BY <2>1, ActiveCall DEF CallsFor, Calls, CallStates
  <2> QED
    BY <2>1 DEF ActiveDays
<1>2. CallsFor(u, {"done"})' = IF rec'[w].pc = "done" /\ rec'[w].user = u
                               THEN CallsFor(u, {"done"}) \cup {w} ELSE CallsFor(u, {"done"})
  BY DEF CallsFor, Moves
<1>3. \A v \in CallsFor(u, {"done"}) : rec'[v] = rec[v]
  BY DEF CallsFor, Moves
<1> DEFINE S == CallsFor(u, {"done"})
<1>4. ActiveDays(u)' = {rec'[v].today : v \in S'} /\ ActiveDays(u) = {rec[v].today : v \in S}
  BY DEF ActiveDays
<1>5. CASE rec'[w].pc = "done" /\ rec'[w].user = u
  <2>1. S' = S \cup {w} /\ \A v \in S : rec'[v] = rec[v]
    BY <1>2, <1>3, <1>5
  <2> HIDE DEF S
  <2>2. {rec'[v].today : v \in S'} = {rec[v].today : v \in S} \cup {rec'[w].today}
    BY <2>1
  <2> QED
    BY <1>1, <1>4, <1>5, <2>2
<1>6. CASE ~(rec'[w].pc = "done" /\ rec'[w].user = u)
  <2>1. S' = S /\ \A v \in S : rec'[v] = rec[v]
    BY <1>2, <1>3, <1>6
  <2> HIDE DEF S
  <2>2. {rec'[v].today : v \in S'} = {rec[v].today : v \in S}
    BY <2>1
  <2> QED
    BY <1>1, <1>4, <1>6, <2>2
<1> QED
  BY <1>1, <1>5, <1>6

\* The earlier call is marked when the later one begins.
LEMMA TogetherStep ==
  ASSUME Workers \subseteq Int, TypeOK, AloneInv, ExactInv, OverlapGrows, CalledInOrder,
         NEW x \in Workers,
         Step(x) \/ \E u \in Users, day \in Dates : Begin(x, u, day),
         NEW w \in Busy', NEW v \in Workers,
         v > w, rec'[v].pc \in CallStates, rec'[v].user = rec'[w].user
  PROVE  w \in overlapped'
<1>1. Moves(x) /\ overlapped \subseteq overlapped'
  BY StepMoves DEF OverlapGrows
<1>2. w \in Workers /\ w \in Int /\ v \in Int /\ v # w
  BY DEF Busy
<1>3. ASSUME NEW y \in Workers, rec'[y].pc \in CallStates \ {"done", "failed"},
             rec[y].pc \in CallStates
      PROVE  y \in Busy /\ rec'[y].user = rec[y].user
  BY <1>1, <1>3 DEF Busy, Moves
<1>4. CASE rec[x].pc \in CallStates
  <2>1. /\ rec[v].pc \in CallStates /\ rec[w].pc \in CallStates
        /\ rec'[v].user = rec[v].user
    BY <1>1, <1>2, <1>4 DEF Moves, Busy
  <2>2. w \in Busy /\ rec'[w].user = rec[w].user
    BY <1>2, <1>3, <2>1 DEF Busy
  <2>3. w \in overlapped
    BY <2>1, <2>2 DEF ExactInv
  <2> QED
    BY <1>1, <2>3
<1>5. CASE rec[x].pc \notin CallStates
  <2>1. rec[x] = IdleCall /\ rec'[x] # IdleCall
    BY <1>1, <1>5 DEF TypeOK, Calls, Moves, IdleCall, CallStates
  <2>2. CASE v = x
    <3>1. rec'[w] = rec[w] /\ w \in Busy
      BY <1>1, <1>2, <2>2 DEF Moves, Busy
    <3> QED
      BY <1>2, <2>2, <3>1, BesideIsOverlapped
  <2>3. CASE w = x
    <3>1. rec'[v] = rec[v] /\ rec[v] = IdleCall
      BY <1>1, <1>2, <2>1, <2>3 DEF Moves, CalledInOrder
    <3> QED
      BY <3>1 DEF IdleCall, CallStates
  <2>4. CASE v # x /\ w # x
    <3>1. rec'[v] = rec[v] /\ rec'[w] = rec[w] /\ w \in Busy
      BY <1>1, <1>2, <2>4 DEF Moves, Busy
    <3> QED
      BY <1>1, <3>1 DEF ExactInv
  <2> QED
    BY <2>2, <2>3, <2>4
<1> QED
  BY <1>4, <1>5

\* A step keeps the row of a user exact.
LEMMA ExactStep ==
  ASSUME Workers \subseteq Int, StreakInv, StreakInv', AloneInv, ExactInv, OverlapGrows,
         CalledInOrder, NEW w \in Workers,
         Step(w) \/ \E u \in Users, day \in Dates : Begin(w, u, day),
         NEW u \in Users, OneByOne(u)', Orderly(u)'
  PROVE  Exact(stats[u], ActiveDays(u))'
<1> DEFINE A == ActiveDays(u)
<1>1. TypeOK /\ Moves(w) /\ overlapped \subseteq overlapped'
  BY StepMoves DEF OverlapGrows, StreakInv
<1>2. /\ A \in SUBSET Dates
      /\ A' = IF rec'[w].pc = "done" /\ rec'[w].user = u
              THEN A \cup {rec'[w].today} ELSE A
  BY <1>1, DaysGrow
<1>3. CallsFor(u, CallStates) \subseteq CallsFor(u, CallStates)'
      /\ \A v \in CallsFor(u, CallStates) :
            /\ rec'[v].today = rec[v].today
            /\ rec[v].pc = "failed" => rec'[v].pc = "failed"
  BY <1>1 DEF Moves, CallsFor, CallStates
<1>4. OneByOne(u)
  BY <1>1, <1>3 DEF OneByOne
<1>5. Orderly(u)
  BY <1>3 DEF Orderly
<1>6. Exact(stats[u], A)
  BY <1>4, <1>5 DEF ExactInv
<1>7. CASE rec'[w].pc = "done" /\ rec'[w].user = u
  <2> DEFINE today == rec[w].today
             s == rec[w].existing
  <2>1. /\ rec[w].pc = "saveStatistics" /\ rec[w].user = u /\ rec'[w].today = today
        /\ stats'[u] = NewStatistics(s, today)
    <3>1. rec[w].pc = "saveStatistics"
      BY <1>1, <1>7, SavedOrWritten
    <3>2. rec[w].user = u /\ rec'[w].today = today
      BY <1>1, <1>7, <3>1 DEF Moves, CallStates
    <3> QED
      BY <1>1, <1>7, <3>1, <3>2, SavedOrWritten
  <2>2. w \in CallsFor(u, CallStates) /\ w \in Busy
    BY <2>1 DEF CallsFor, CallStates, Busy
  <2>3. w \notin overlapped
    BY <1>4, <2>2 DEF OneByOne
  <2>4. s = stats[u]
    BY <2>1, <2>3 DEF AloneInv, Snapshots
  <2>5. s \in Statistics /\ today \in Dates
    BY <1>1, <2>1, ActiveCall DEF Calls, CallStates
  <2>6. ASSUME NEW day \in A
        PROVE  day <= today
    <3>1. PICK v \in CallsFor(u, {"done"}) : day = rec[v].today
      BY DEF ActiveDays
    <3>2. /\ v \in CallsFor(u, CallStates) /\ v \in Workers /\ v \in Int /\ w \in Int
          /\ rec[v].pc = "done" /\ rec[v].user = u
      BY DEF CallsFor, CallStates
    <3>3. v # w
      BY <2>1, <3>2
    <3>4. ~(v > w)
      BY <2>1, <2>2, <2>3, <3>2 DEF ExactInv, CallStates
    <3>5. v < w
      BY <3>2, <3>3, <3>4
    <3> QED
      BY <2>2, <3>1, <3>2, <3>5, <1>5 DEF Orderly
  <2>7. A' = A \cup {today}
    BY <1>2, <1>7, <2>1
  <2>8. Exact(s, A)
    BY <1>6, <2>4
  <2> HIDE DEF A, s, today
  <2>9. Exact(NewStatistics(s, today), A \cup {today})
    BY <1>2, <2>5, <2>6, <2>8, ExactExtends
  <2>10. Exact(stats'[u], A')
    BY <2>1, <2>7, <2>9
  <2> QED
    BY <2>10 DEF A, Exact, RunOf
<1>8. CASE ~(rec'[w].pc = "done" /\ rec'[w].user = u)
  <2>1. stats'[u] = stats[u]
    <3> SUFFICES ASSUME stats'[u] # stats[u] PROVE FALSE
      OBVIOUS
    <3>1. /\ rec[w].pc = "saveStatistics" /\ rec[w].user = u
          /\ rec'[w].pc \in {"done", "failed"}
      BY <1>1, StepEffect
    <3>2. rec'[w].user = u /\ rec'[w].pc = "failed"
      BY <1>1, <1>8, <3>1 DEF Moves, CallStates
    <3>3. w \in CallsFor(u, CallStates)'
      BY <3>2 DEF CallsFor, CallStates
    <3> QED
      BY <3>2, <3>3 DEF Orderly
  <2>2. A' = A
    BY <1>2, <1>8
  <2> HIDE DEF A
  <2>3. Exact(stats'[u], A')
    BY <1>6, <2>1, <2>2
  <2> QED
    BY <2>3 DEF A, Exact, RunOf
<1> QED
  BY <1>7, <1>8

\* An exact row says what the reference definition says.
LEMMA ExactSuffices ==
  ASSUME TypeOK, ExactInv
  PROVE  StreakIsExact
<1> SUFFICES ASSUME NEW u \in Users, ActiveDays(u) # {}, OneByOne(u), Orderly(u)
             PROVE  /\ stats[u].lastWrittenDate = Max(ActiveDays(u))
                    /\ stats[u].currentStreak = RunEndingOn(u, Max(ActiveDays(u)))
                    /\ stats[u].longestStreak
                          = Max({RunEndingOn(u, day) : day \in ActiveDays(u)})
  BY DEF StreakIsExact
<1> DEFINE A == ActiveDays(u)
           last == stats[u].lastWrittenDate
           current == stats[u].currentStreak
           longest == stats[u].longestStreak
<1>1. A \in SUBSET Int /\ IsFiniteSet(A)
  <2>1. ASSUME NEW v \in CallsFor(u, {"done"})
        PROVE  rec[v].today \in Int
    BY <2>1, ActiveCall, DatesAssumption DEF CallsFor, Calls, CallStates
  <2> QED
    BY <2>1 DEF ActiveDays, ExactInv
<1>2. /\ last \in A
      /\ \A day \in A : day <= last
      /\ RunOf(A, last, current)
      /\ \E day \in A : RunOf(A, day, longest)
      /\ \A day \in A : \E n \in 1..longest : RunOf(A, day, n)
  BY DEF ExactInv, Exact
<1>3. current \in Nat /\ longest \in Nat
  BY DEF TypeOK, Statistics
<1>4. ASSUME NEW day \in A, NEW n \in Nat, RunOf(A, day, n)
      PROVE  RunEndingOn(u, day) = n
  BY <1>1, <1>4, RunLength DEF RunEndingOn
<1> DEFINE R == {RunEndingOn(u, day) : day \in A}
<1>5. longest \in R
  <2>1. PICK day \in A : RunOf(A, day, longest)
    BY <1>2
  <2>2. RunEndingOn(u, day) = longest
    BY <1>3, <1>4, <2>1
  <2> QED
    BY <2>2
<1>6. ASSUME NEW r \in R
      PROVE  r \in Int /\ r <= longest
  <2>1. PICK day \in A : r = RunEndingOn(u, day)
    OBVIOUS
  <2>2. PICK n \in 1..longest : RunOf(A, day, n)
    BY <1>2
  <2>3. n \in Nat
    BY <1>3
  <2>4. r = n
    BY <1>4, <2>1, <2>2, <2>3
  <2> QED
    BY <1>3, <2>3, <2>4
<1>7. R \in SUBSET Int
  BY <1>6
<1>8. Max(R) = longest
  <2> HIDE DEF R, longest
  <2> QED
    BY <1>5, <1>6, <1>7, MaxIs
<1>9. Max(A) = last
  <2> HIDE DEF A, last
  <2> QED
    BY <1>1, <1>2, MaxIs
<1>10. RunEndingOn(u, last) = current
  BY <1>2, <1>3, <1>4
<1> QED
  BY <1>8, <1>9, <1>10

(***************************************************************************)
(* The streaks of a user whose writings are recorded one by one, in the    *)
(* order of their dates and without failures, are those of the reference   *)
(* definition, whatever happens to the other users.  The calls are         *)
(* numbered as they are made; their numbers are any integers.              *)
(***************************************************************************)
THEOREM StreaksAreExact ==
  ASSUME Workers \subseteq Int
  PROVE  OrderedSpec => []StreakIsExact
<1>1. HistoryInit => ExactInv
  <2> SUFFICES ASSUME HistoryInit PROVE ExactInv
    OBVIOUS
  <2>1. \A w \in Workers : rec[w].pc = "idle"
    BY DEF HistoryInit, Init, IdleCall
  <2>2. Busy = {} /\ \A u \in Users : ActiveDays(u) = {}
    BY <2>1 DEF Busy, ActiveDays, CallsFor, CallStates
  <2>3. \A u \in Users : stats[u] = EmptyStatistics
    BY DEF HistoryInit, Init
  <2> QED
    BY <2>2, <2>3, FS_EmptySet DEF ExactInv, Exact
<1>2. /\ StreakInv /\ StreakInv' /\ AloneInv /\ ExactInv
      /\ [HistoryNext /\ CalledInOrder]_histVars
      => ExactInv'
  <2> SUFFICES ASSUME StreakInv, StreakInv', AloneInv, ExactInv,
                      [HistoryNext /\ CalledInOrder]_histVars
               PROVE  ExactInv'
    OBVIOUS
  <2>1. TypeOK
    BY DEF StreakInv
  <2>2. CASE UNCHANGED histVars
    <3>1. UNCHANGED <<stats, rec, overlapped>>
      BY <2>2 DEF histVars, statsVars
    <3>2. \A u : ActiveDays(u)' = ActiveDays(u)
      BY <3>1 DEF ActiveDays, CallsFor
    <3>3. \A u \in Users : OneByOne(u)' /\ Orderly(u)' => OneByOne(u) /\ Orderly(u)
      BY <3>1 DEF OneByOne, Orderly, CallsFor
    <3>4. \A u \in Users : Exact(stats'[u], ActiveDays(u)') => Exact(stats[u], ActiveDays(u))'
      BY DEF Exact, RunOf
    <3>5. \A u \in Users : OneByOne(u)' /\ Orderly(u)' => Exact(stats[u], ActiveDays(u))'
      BY <3>1, <3>2, <3>3, <3>4 DEF ExactInv
    <3>6. Busy' = Busy
      BY <3>1 DEF Busy
    <3> QED
      BY <3>1, <3>2, <3>5, <3>6 DEF ExactInv
  <2>3. CASE HistoryNext /\ CalledInOrder
    <3>1. PICK w \in Workers : Step(w) \/ \E u \in Users, day \in Dates : Begin(w, u, day)
      BY <2>3 DEF HistoryNext, Next, Call
    <3>2. OverlapGrows /\ Moves(w)
      BY <2>1, <2>3, <3>1, StepMoves DEF HistoryNext, OverlapGrows
    <3>3. ASSUME NEW u \in Users
          PROVE  IsFiniteSet(ActiveDays(u)')
      <4>1. IsFiniteSet(ActiveDays(u))
        BY DEF ExactInv
      <4>2. \/ ActiveDays(u)' = ActiveDays(u)
            \/ ActiveDays(u)' = ActiveDays(u) \cup {rec'[w].today}
        BY <2>1, <3>2, DaysGrow
      <4> QED
        BY <4>1, <4>2, FS_AddElement
    <3>4. ASSUME NEW x \in Busy', NEW v \in Workers,
                 v > x, rec'[v].pc \in CallStates, rec'[v].user = rec'[x].user
          PROVE  x \in overlapped'
      BY <2>1, <2>3, <3>1, <3>2, <3>4, TogetherStep
    <3>5. ASSUME NEW u \in Users, OneByOne(u)', Orderly(u)'
          PROVE  Exact(stats[u], ActiveDays(u))'
      BY <2>3, <3>1, <3>2, <3>5, ExactStep
    <3> QED
      BY <3>3, <3>4, <3>5 DEF ExactInv
  <2> QED
    BY <2>2, <2>3
<1>3. StreakInv /\ ExactInv => StreakIsExact
  BY ExactSuffices DEF StreakInv
<1>4. OrderedSpec => HistorySpec
  <2>1. [HistoryNext /\ CalledInOrder]_histVars => [HistoryNext]_histVars
    OBVIOUS
  <2> QED
    BY <2>1, PTL DEF OrderedSpec, HistorySpec
<1>5. HistoryInit => Init
  BY DEF HistoryInit
<1>6. [HistoryNext]_histVars => [Next]_statsVars
  BY DEF HistoryNext, histVars
<1>7. HistorySpec => Spec
  BY <1>5, <1>6, PTL DEF HistorySpec, Spec
<1> QED
  BY <1>1, <1>2, <1>3, <1>4, <1>7, StreakInvariant, AloneInvariant, PTL DEF OrderedSpec

=============================================================================
