---------------------------- MODULE StatsHistory ----------------------------
(***************************************************************************)
(* What recordWriting promises when the calls of a user do not overlap,    *)
(* with the reference definition of the streak that it computes            *)
(* incrementally.  The state does not tell which calls were under way      *)
(* together once they are over, so a history variable records it.          *)
(***************************************************************************)
EXTENDS StatsService, FiniteSetsExt

VARIABLE overlapped   \* history: the calls that met another one of their user

histVars == <<statsVars, overlapped>>

SameUser(w) == {v \in Busy \ {w} : rec[v].user = rec[w].user}

HistoryInit == Init /\ overlapped = {}

HistoryNext ==
    /\ Next
    /\ overlapped' = overlapped \cup {w \in Busy : SameUser(w) # {}}'

HistorySpec == HistoryInit /\ [][HistoryNext]_histVars

-----------------------------------------------------------------------------
\* The successful calls for a user, or a user's day, that were alone from start to end.
Alone(u) == CallsFor(u, {"done"}) \ overlapped
AloneOn(u, day) == CallsOn(u, day, {"done"}) \ overlapped

(***************************************************************************)
(* A writing whose recording overlapped no other one of its user is never  *)
(* lost: it stays in the day's grass and in the total ("passed writings of *)
(* the day", DATABASE.md), although overlapping calls before and after it  *)
(* overwrite each other and calls fail half-way.                           *)
(***************************************************************************)
CountsEveryPass ==
    \A u \in Users :
        /\ stats[u].totalCount >= Cardinality(Alone(u))
        /\ \A day \in Dates : daily[u][day] >= Cardinality(AloneOn(u, day))

\* So far no two calls for u overlapped.
OneByOne(u) == CallsFor(u, CallStates) \cap overlapped = {}

(***************************************************************************)
(* While a user's writings are recorded one by one, nothing that was shown *)
(* is taken back, with dates in any order and calls that fail: not the     *)
(* last written day ("keep the larger value", comment in recordWriting),   *)
(* not the longest streak, not the total.                                  *)
(***************************************************************************)
NothingTakenBack ==
    [][\A u \in Users : OneByOne(u)' =>
          /\ stats[u].lastWrittenDate # NoDate =>
                stats'[u].lastWrittenDate >= stats[u].lastWrittenDate
          /\ stats'[u].longestStreak >= stats[u].longestStreak
          /\ stats'[u].totalCount >= stats[u].totalCount]_histVars

-----------------------------------------------------------------------------
\* The behaviours in which the calls are numbered as they are made: none follows a later one.
CalledInOrder ==
    \A w \in Workers : rec[w] = IdleCall /\ rec'[w] # IdleCall =>
        \A v \in Workers : v > w => rec[v] = IdleCall

OrderedSpec == HistoryInit /\ [][HistoryNext /\ CalledInOrder]_histVars

\* The days of a user that a successful call recorded.
ActiveDays(u) == {rec[w].today : w \in CallsFor(u, {"done"})}

\* The length of the unbroken run of active days that ends on the given day.
RunEndingOn(u, day) ==
    Max({n \in 0..Cardinality(ActiveDays(u)) : (day - n + 1)..day \subseteq ActiveDays(u)})

\* So far no call for u has failed and the dates its clients sent did not go back.
Orderly(u) ==
    \A v, w \in CallsFor(u, CallStates) :
        rec[w].pc # "failed" /\ (v < w => rec[v].today <= rec[w].today)

(***************************************************************************)
(* The row of a user whose writings were recorded one by one in order of   *)
(* their dates holds what its names say, also while the next one is being  *)
(* recorded: lastWrittenDate is the last active day, currentStreak the run *)
(* of active days that ends there, longestStreak the longest run of the    *)
(* calendar.                                                               *)
(***************************************************************************)
StreakIsExact ==
    \A u \in Users :
        ActiveDays(u) # {} /\ OneByOne(u) /\ Orderly(u) =>
            LET last == Max(ActiveDays(u))
            IN  /\ stats[u].lastWrittenDate = last
                /\ stats[u].currentStreak = RunEndingOn(u, last)
                /\ stats[u].longestStreak = Max({RunEndingOn(u, day) : day \in ActiveDays(u)})

=============================================================================
