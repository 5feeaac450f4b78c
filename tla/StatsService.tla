---------------------------- MODULE StatsService ----------------------------
(***************************************************************************)
(* StatsService.recordWriting and the StatsRepository calls it makes       *)
(* (src/modules/stats): how a passed writing reaches the grass calendar    *)
(* and the streak statistics.                                              *)
(*                                                                         *)
(* recordWriting is four database calls, each behind an await: it reads    *)
(* the statistics row, reads the day's cell, writes the cell, writes the   *)
(* row.  No transaction or lock joins them, so the calls of several        *)
(* workers (background similarity checks) interleave between any two.  An  *)
(* action is the instant at which the database applies one call; the       *)
(* answer only lets the same worker issue its next call.                   *)
(*                                                                         *)
(* A call may throw.  Faults holds the pairs <<operation, outcome>> that   *)
(* may go wrong: "error" leaves the database alone, "lost" means that the  *)
(* database applied the call and the answer never arrived.                 *)
(***************************************************************************)
EXTENDS StreakCalculator, FiniteSets

CONSTANTS Users,           \* users of the service
          Dates,           \* the day numbers clients send
          Workers,         \* calls of recordWriting, each made at most once
          Faults,          \* what may go wrong, see above
          MaxConcurrency   \* how many calls may be under way at once

ASSUME DatesAssumption == Dates \subseteq Int

VARIABLES stats,   \* table user_statistics
          daily,   \* table user_daily_activity: the count of each user and day
          rec      \* local state of every call of recordWriting

statsVars == <<stats, daily, rec>>

(***************************************************************************)
(* A user without a statistics row reads as these values, both to          *)
(* getMyStatistics (EMPTY_STATISTICS) and to recordWriting (the default    *)
(* snapshot and existing?.totalCount ?? 0), so the missing row is this     *)
(* row.  A missing day is a count of 0 (data?.count ?? 0).                 *)
(***************************************************************************)
EmptyStatistics ==
    [lastWrittenDate |-> NoDate, currentStreak |-> 0, longestStreak |-> 0, totalCount |-> 0]

Statistics == [lastWrittenDate : Dates \cup {NoDate}, currentStreak : Nat,
               longestStreak : Nat, totalCount : Nat]

IdleCall == [pc |-> "idle"]
CallStates == {"findStatistics", "readActivity", "writeActivity", "saveStatistics",
               "done", "failed"}
Calls == [pc : CallStates, user : Users, today : Dates, existing : Statistics, count : Nat]

Init ==
    /\ stats = [u \in Users |-> EmptyStatistics]
    /\ daily = [u \in Users |-> [d \in Dates |-> 0]]
    /\ rec = [w \in Workers |-> IdleCall]

\* How a call of the database may end.
Outcomes(op) == {"ok"} \cup {o \in {"error", "lost"} : <<op, o>> \in Faults}

\* The call of w moves on; a call that is over keeps no intermediate values.
Advance(w, pc) == rec' = [rec EXCEPT ![w].pc = pc]
Return(w, pc) ==
    rec' = [rec EXCEPT ![w] = [@ EXCEPT !.pc = pc, !.existing = EmptyStatistics, !.count = 0]]

\* recordWriting(userId, today) is called.
Begin(w, user, today) ==
    /\ rec[w] = IdleCall
    /\ rec' = [rec EXCEPT ![w] = [pc |-> "findStatistics", user |-> user, today |-> today,
                                  existing |-> EmptyStatistics, count |-> 0]]
    /\ UNCHANGED <<stats, daily>>

\* findStatistics: the snapshot on which everything below is computed.
FindStatistics(w) ==
    /\ rec[w].pc = "findStatistics"
    /\ \E outcome \in Outcomes("findStatistics") :
          IF outcome = "ok"
          THEN rec' = [rec EXCEPT ![w] = [@ EXCEPT !.pc = "readActivity",
                                                   !.existing = stats[rec[w].user]]]
          ELSE Return(w, "failed")
    /\ UNCHANGED <<stats, daily>>

\* incrementDailyActivity, the select.
ReadActivity(w) ==
    /\ rec[w].pc = "readActivity"
    /\ \E outcome \in Outcomes("readActivity") :
          IF outcome = "ok"
          THEN rec' = [rec EXCEPT ![w] = [@ EXCEPT !.pc = "writeActivity",
                                          !.count = daily[rec[w].user][rec[w].today]]]
          ELSE Return(w, "failed")
    /\ UNCHANGED <<stats, daily>>

\* Mutant of WriteActivity: the cell is set back to the count that was read.
WriteActivityUnchanged(w) ==
    /\ rec[w].pc = "writeActivity"
    /\ daily' = [daily EXCEPT ![rec[w].user][rec[w].today] = rec[w].count]
    /\ Advance(w, "saveStatistics")
    /\ UNCHANGED stats

\* Mutant of WriteActivity: a failed upsert is sent again, on top of the first.
WriteActivityTwice(w) ==
    /\ rec[w].pc = "writeActivity"
    /\ \E again \in {1, 2} :
          daily' = [daily EXCEPT ![rec[w].user][rec[w].today] = rec[w].count + again]
    /\ Advance(w, "saveStatistics")
    /\ UNCHANGED stats

\* incrementDailyActivity, the upsert of the count that was read plus one.
WriteActivity(w) ==
    /\ rec[w].pc = "writeActivity"
    /\ \E outcome \in Outcomes("writeActivity") :
          /\ daily' = IF outcome = "error" THEN daily
                      ELSE [daily EXCEPT ![rec[w].user][rec[w].today] = rec[w].count + 1]
          /\ IF outcome = "ok" THEN Advance(w, "saveStatistics") ELSE Return(w, "failed")
    /\ UNCHANGED stats

\* Mutant of NewStatistics: lastWrittenDate follows the client even into the past.
NewStatisticsFollowingClient(existing, today) ==
    LET update == CalculateStreak(existing, today)
    IN  [currentStreak |-> update.currentStreak,
         longestStreak |-> update.longestStreak,
         totalCount |-> existing.totalCount + 1,
         lastWrittenDate |-> today]

\* Mutant of NewStatistics: the server's calendar day for the client's, a day ahead.
NewStatisticsServerDay(existing, today) ==
    LET update == CalculateStreak(existing, today)
    IN  [currentStreak |-> update.currentStreak,
         longestStreak |-> update.longestStreak,
         totalCount |-> existing.totalCount + 1,
         lastWrittenDate |-> today + 1]

\* The row recordWriting saves: a past date never moves lastWrittenDate back.
NewStatistics(existing, today) ==
    LET update == CalculateStreak(existing, today)
        last == existing.lastWrittenDate
    IN  [currentStreak |-> update.currentStreak,
         longestStreak |-> update.longestStreak,
         totalCount |-> existing.totalCount + 1,
         lastWrittenDate |-> IF last = NoDate THEN today ELSE MaxOf(last, today)]

\* Mutant of SaveStatistics: the row is written only on the first call of a day.
SaveStatisticsOncePerDay(w) ==
    /\ rec[w].pc = "saveStatistics"
    /\ stats' = IF rec[w].existing.lastWrittenDate = rec[w].today THEN stats
                ELSE [stats EXCEPT ![rec[w].user] =
                        NewStatistics(rec[w].existing, rec[w].today)]
    /\ Return(w, "done")
    /\ UNCHANGED daily

\* saveStatistics: the upsert of the row computed from the snapshot.
SaveStatistics(w) ==
    /\ rec[w].pc = "saveStatistics"
    /\ \E outcome \in Outcomes("saveStatistics") :
          /\ stats' = IF outcome = "error" THEN stats
                      ELSE [stats EXCEPT ![rec[w].user] =
                              NewStatistics(rec[w].existing, rec[w].today)]
          /\ Return(w, IF outcome = "ok" THEN "done" ELSE "failed")
    /\ UNCHANGED daily

Step(w) == FindStatistics(w) \/ ReadActivity(w) \/ WriteActivity(w) \/ SaveStatistics(w)

Busy == {w \in Workers : rec[w].pc \in CallStates \ {"done", "failed"}}

(***************************************************************************)
(* The service on its own: the caller is the pool of background checks,    *)
(* which has at most MaxConcurrency calls under way.                       *)
(***************************************************************************)
Call(w) ==
    /\ Cardinality(Busy) < MaxConcurrency
    /\ \E user \in Users, today \in Dates : Begin(w, user, today)

Next == \E w \in Workers : Call(w) \/ Step(w)

Spec == Init /\ [][Next]_statsVars

-----------------------------------------------------------------------------
\* Type invariant.
TypeOK ==
    /\ stats \in [Users -> Statistics]
    /\ daily \in [Users -> [Dates -> Nat]]
    /\ rec \in [Workers -> {IdleCall} \cup Calls]

\* Statistics s of user u claim nothing the calendar does not show.
WindowHolds(u, s) ==
    s.lastWrittenDate # NoDate =>
        /\ s.currentStreak \in 1..s.longestStreak
        /\ \A day \in StreakStartDate(s.lastWrittenDate, s.currentStreak)..s.lastWrittenDate :
              day \in Dates /\ daily[u][day] > 0

(***************************************************************************)
(* The streak a user is shown covers only days with grass: every day from  *)
(* the start of the streak to its last day has a count above zero, and the *)
(* longest streak is at least the current one.  This must survive any      *)
(* interleaving of calls for one user, dates that go back, and calls that  *)
(* fail between the cell and the row (recordWriting writes the cell first  *)
(* for this reason).                                                       *)
(***************************************************************************)
StreakWindow == \A u \in Users : WindowHolds(u, stats[u])

(***************************************************************************)
(* Its inductive strengthening: the snapshots that calls hold, however     *)
(* stale, still satisfy it, and the day of a call about to save has its    *)
(* grass already.                                                          *)
(***************************************************************************)
StreakInv ==
    /\ TypeOK
    /\ StreakWindow
    /\ \A w \in Workers : rec[w].pc \in {"readActivity", "writeActivity", "saveStatistics"}
          => WindowHolds(rec[w].user, rec[w].existing)
    /\ \A w \in Workers : rec[w].pc = "saveStatistics"
          => daily[rec[w].user][rec[w].today] > 0

-----------------------------------------------------------------------------
\* The calls for a user, or a user's day, that have got as far as the states in pcs.
CallsFor(u, pcs) == {w \in Workers : rec[w].pc \in pcs /\ rec[w].user = u}
CallsOn(u, day, pcs) == {w \in CallsFor(u, pcs) : rec[w].today = day}

(***************************************************************************)
(* The calendar and the total never show more writings than were recorded, *)
(* whatever the interleaving and the failures: updates get lost, none is   *)
(* applied twice.                                                          *)
(***************************************************************************)
NeverOvercounts ==
    \A u \in Users :
        /\ stats[u].totalCount <= Cardinality(CallsFor(u, CallStates))
        /\ \A day \in Dates : daily[u][day] <= Cardinality(CallsOn(u, day, CallStates))
=============================================================================
