----------------------------- MODULE DailyVerse -----------------------------
(***************************************************************************)
(* The verse of the day (src/modules/verse): getToday looks the date up in *)
(* daily_verses, and when nobody asked for it before picks a verse at      *)
(* random, inserts it unless a row is there, and looks the date up again.  *)
(* The calls of requests for one date interleave between any two of these. *)
(*                                                                         *)
(* An action is the instant at which the database applies a call.  Faults  *)
(* holds the pairs <<operation, outcome>> that may go wrong, as in         *)
(* StatsService.  Verses are loaded while the service runs (ReferenceData  *)
(* has the script that does it) and never removed from the table, so the   *)
(* count and the row read at an offset below it are one step.              *)
(***************************************************************************)
CONSTANTS Dates,      \* dates clients ask for
          Verses,     \* the verses there are to store
          Requests,   \* calls of getToday, each made at most once
          Faults,
          Null        \* no row

ASSUME NullAssumption == Null \notin Verses

VARIABLES verses,     \* table verses
          assigned,   \* table daily_verses
          req         \* local state of every call of getToday

vars == <<verses, assigned, req>>

Idle == [pc |-> "idle"]
Failed == [pc |-> "failed"]

Init ==
    /\ verses = {}
    /\ assigned = [d \in Dates |-> Null]
    /\ req = [r \in Requests |-> Idle]

Outcomes(op) == {"ok"} \cup {o \in {"error", "lost"} : <<op, o>> \in Faults}

GetToday(r) ==
    /\ req[r] = Idle
    /\ \E date \in Dates :
          req' = [req EXCEPT ![r] = [pc |-> "findDailyVerse", date |-> date, verse |-> Null]]
    /\ UNCHANGED <<verses, assigned>>

\* Mutant of FindDailyVerse: a missing row passes for an existing one.
FindDailyVerseAlways(r) ==
    /\ req[r].pc = "findDailyVerse"
    /\ req' = [req EXCEPT ![r] = [@ EXCEPT !.pc = "returned", !.verse = assigned[req[r].date]]]
    /\ UNCHANGED <<verses, assigned>>

\* The first look: a verse that is there is the answer.
FindDailyVerse(r) ==
    /\ req[r].pc = "findDailyVerse"
    /\ \E outcome \in Outcomes("findDailyVerse") :
          req' = [req EXCEPT ![r] =
                    IF outcome # "ok" THEN Failed
                    ELSE IF assigned[@.date] # Null
                    THEN [@ EXCEPT !.pc = "returned", !.verse = assigned[req[r].date]]
                    ELSE [@ EXCEPT !.pc = "findRandomVerse"]]
    /\ UNCHANGED <<verses, assigned>>

\* The candidate; without stored verses the call throws.
FindRandomVerse(r) ==
    /\ req[r].pc = "findRandomVerse"
    /\ \/ \E v \in verses : req' = [req EXCEPT ![r] = [@ EXCEPT !.pc = "assign", !.verse = v]]
       \/ /\ verses = {} \/ Outcomes("findRandomVerse") # {"ok"}
          /\ req' = [req EXCEPT ![r] = Failed]
    /\ UNCHANGED <<verses, assigned>>

\* Mutant of Assign: an upsert without ignoreDuplicates.
AssignOverwriting(r) ==
    /\ req[r].pc = "assign"
    /\ assigned' = [assigned EXCEPT ![req[r].date] = req[r].verse]
    /\ req' = [req EXCEPT ![r].pc = "findAgain"]
    /\ UNCHANGED verses

\* assignDailyVerseIfAbsent: the row that came first stays.
Assign(r) ==
    /\ req[r].pc = "assign"
    /\ \E outcome \in Outcomes("assign") :
          /\ assigned' = IF outcome = "error" \/ assigned[req[r].date] # Null THEN assigned
                         ELSE [assigned EXCEPT ![req[r].date] = req[r].verse]
          /\ req' = [req EXCEPT ![r] = IF outcome = "ok" THEN [@ EXCEPT !.pc = "findAgain"]
                                       ELSE Failed]
    /\ UNCHANGED verses

\* Mutant of FindAgain: the candidate is the answer, whoever came first.
FindAgainNot(r) ==
    /\ req[r].pc = "findAgain"
    /\ req' = [req EXCEPT ![r].pc = "returned"]
    /\ UNCHANGED <<verses, assigned>>

\* The second look: what stands in the table, or else the candidate, is the answer.
FindAgain(r) ==
    /\ req[r].pc = "findAgain"
    /\ \E outcome \in Outcomes("findDailyVerse") :
          req' = [req EXCEPT ![r] =
                    IF outcome # "ok" THEN Failed
                    ELSE IF assigned[@.date] # Null
                    THEN [@ EXCEPT !.pc = "returned", !.verse = assigned[req[r].date]]
                    ELSE [@ EXCEPT !.pc = "returned"]]
    /\ UNCHANGED <<verses, assigned>>

Get(r) == \/ GetToday(r) \/ FindDailyVerse(r) \/ FindRandomVerse(r)
          \/ Assign(r) \/ FindAgain(r)

\* Some verses are upserted by their address: rows appear, and stay.
Load(rows) ==
    /\ verses' = verses \cup rows
    /\ UNCHANGED <<assigned, req>>

Next ==
    \/ \E r \in Requests : Get(r)
    \/ \E rows \in SUBSET Verses : Load(rows)

Spec == Init /\ [][Next]_vars

-----------------------------------------------------------------------------
\* Type invariant: an answered call has a verse.
TypeOK ==
    /\ verses \subseteq Verses
    /\ assigned \in [Dates -> Verses \cup {Null}]
    /\ req \in [Requests -> {Idle, Failed}
                  \cup [pc : {"findDailyVerse", "findRandomVerse"}, date : Dates, verse : {Null}]
                  \cup [pc : {"assign", "findAgain", "returned"}, date : Dates, verse : Verses]]

Returned == {r \in Requests : req[r].pc = "returned"}

(***************************************************************************)
(* Everyone who asks for a date gets the same verse ("global: the same     *)
(* verse for all", DATABASE.md), the requests that raced to assign it      *)
(* included, whatever calls fail or lose their answer.                     *)
(***************************************************************************)
SameVerseForAll ==
    \A r, q \in Returned : req[r].date = req[q].date => req[r].verse = req[q].verse

(***************************************************************************)
(* The inductive invariant: what was answered stands in the table, and a   *)
(* call that looks again finds a row, so the candidate is never answered   *)
(* in its place.                                                           *)
(***************************************************************************)
VerseInv ==
    /\ TypeOK
    /\ \A r \in Returned : assigned[req[r].date] = req[r].verse
    /\ \A r \in Requests : req[r].pc = "findAgain" => assigned[req[r].date] # Null

\* The day's verse does not change under those who already saw it.
AssignmentIsFinal ==
    [][\A d \in Dates : assigned[d] # Null => assigned'[d] = assigned[d]]_vars

Abstract == INSTANCE OneVersePerDate
    WITH chosen <- assigned,
         answer <- [r \in Requests |-> IF req[r].pc = "returned"
                                       THEN <<req[r].date, req[r].verse>> ELSE Null]

\* Four calls per request and their races implement one choice and one answer.
ImplementsOneVersePerDate == Abstract!Spec
=============================================================================
