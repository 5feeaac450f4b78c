---------------------------- MODULE WritingReads ----------------------------
(***************************************************************************)
(* What a client reads while writings are checked and recorded             *)
(* (getMyStatistics and getActivityCalendar of src/modules/stats, getById  *)
(* and listMyWritings of src/modules/writing).                             *)
(*                                                                         *)
(* A screen is put together from several queries, and nothing holds the    *)
(* tables still between two of them: the banner of a streak comes from the *)
(* statistics row and then from the writings, a list from one query per    *)
(* page, a verdict from polling.  Here one client reads at a time; what it *)
(* holds from an earlier query is judged against the tables of every later *)
(* moment.  A read that fails shows an error and is left out.              *)
(***************************************************************************)
EXTENDS WritingService

CONSTANTS PageLimit,   \* limit, the size of a page
          Times        \* what the clock of the process may show, in milliseconds

ASSUME PageAssumption == PageLimit \in Nat \ {0}
ASSUME TimesAssumption == Times \subseteq Nat \ {0}

VARIABLES completedAt,   \* the column completed_at, 0 for null
          stamp,         \* the completed_at in the update a job has under way, 0 for none
          screen         \* what the client holds from the queries made so far

readsVars == <<completedAt, stamp, screen>>

Blank == [pc |-> "blank"]

ReadsInit ==
    /\ Init
    /\ completedAt = [s \in Sessions |-> 0]
    /\ stamp = [r \in Requests |-> 0]
    /\ screen = Blank

(***************************************************************************)
(* markCompleted evaluates new Date() as soon as the check has answered,   *)
(* and then awaits the update: of two jobs the one that took its time      *)
(* first may be applied second.  Two jobs may take the same millisecond,   *)
(* and the clock of a host may be set back, so any time may be taken.      *)
(***************************************************************************)
TakeTime ==
    LET taking == {r \in Requests : job[r].pc # "markCompleted" /\ job'[r].pc = "markCompleted"}
    IN  \E now \in [taking -> Times] :
           stamp' = [r \in Requests |-> IF r \in taking THEN now[r]
                                        ELSE IF job'[r].pc = "markCompleted" THEN stamp[r]
                                        ELSE 0]

\* The job whose update completes s.
CompleterOf(s) == CHOOSE r \in Requests : job[r].pc = "markCompleted" /\ SessionOf(r) = s

\* The update, once applied, leaves in the row the time the job had taken.
StampCompletion ==
    completedAt' = [s \in Sessions |->
        IF row[s].status # "completed" /\ row'[s].status = "completed"
        THEN stamp[CompleterOf(s)] ELSE completedAt[s]]

-----------------------------------------------------------------------------
\* findFirstPassedWriting: the passed writings of a day that completed first, if any.
FindFirstPassedWriting(u, date) ==
    {s \in PassedOn(u, date) : \A q \in PassedOn(u, date) : completedAt[s] <= completedAt[q]}

\* findActivityRange: the days of the calendar that have a count.
FindActivityRange(u, from, to) == {day \in Dates : from <= day /\ day <= to /\ daily[u][day] > 0}

(***************************************************************************)
(* getMyStatistics, the first query: the row, or the empty one, which      *)
(* needs no banner.  The first day of the streak is computed from it.      *)
(***************************************************************************)
GetMyStatistics(u) ==
    LET start == Stats!StreakStartDate(stats[u].lastWrittenDate, stats[u].currentStreak)
    IN  screen' = IF start = Null THEN Blank
                  ELSE [pc |-> "statistics", user |-> u, start |-> start,
                        last |-> stats[u].lastWrittenDate]

\* The second query finds the banner's writing, or none; the name of its book is left out.
FindStreakStart ==
    /\ screen.pc = "statistics"
    /\ screen' = [pc |-> "banner",
                  writing |-> FindFirstPassedWriting(screen.user, screen.start)]

(***************************************************************************)
(* getById, as a poll for the verdict: 404 for no row, 403 for another     *)
(* user's; a completed session ends the polling.                           *)
(***************************************************************************)
GetById(u, s) ==
    /\ row[s].status = "completed" /\ Owner[s] = u
    /\ screen' = [pc |-> "verdict", session |-> s, passed |-> row[s].passed]

-----------------------------------------------------------------------------
\* The order of the list: by client_date, then by completed_at, the latest first.
ListedBefore(s, q) ==
    \/ row[s].clientDate > row[q].clientDate
    \/ row[s].clientDate = row[q].clientDate /\ completedAt[s] > completedAt[q]

\* The passed writings of u in that order; ties come in any.
Listings(u) ==
    LET n == Cardinality(PassedOf(u))
    IN  {list \in [1..n -> PassedOf(u)] :
            \A i, j \in 1..n : i < j => list[i] # list[j] /\ ~ListedBefore(list[j], list[i])}

\* findPassedListByUser: range(offset, offset + limit - 1) of the list, as far as there is one.
FindPassedListByUser(list, limit, offset) ==
    SubSeq(list, offset + 1, IF offset + limit < Len(list) THEN offset + limit ELSE Len(list))

\* The client asks for the list; "missed" are the writings listed now and not yet shown.
OpenList(u) ==
    screen' = [pc |-> "list", user |-> u, offset |-> 0, missed |-> PassedOf(u)]

(***************************************************************************)
(* listMyWritings: one query per page.  A page shorter than the limit is   *)
(* the last (WritingController).                                           *)
(***************************************************************************)
ListMyWritings ==
    /\ screen.pc = "list"
    /\ \E list \in Listings(screen.user) :
          LET page == FindPassedListByUser(list, PageLimit, screen.offset)
              missed == screen.missed \ {page[i] : i \in DOMAIN page}
          IN  screen' = IF Len(page) < PageLimit
                        THEN [pc |-> "listed", missed |-> missed]
                        ELSE [screen EXCEPT !.offset = @ + PageLimit, !.missed = missed]

\* What is asked first does not depend on earlier screens, so each begins with a blank one.
Read ==
    \/ /\ screen = Blank
       /\ \E u \in Users : \/ GetMyStatistics(u) \/ OpenList(u)
                            \/ \E s \in Sessions : GetById(u, s)
    \/ FindStreakStart
    \/ ListMyWritings

ReadsNext ==
    \/ Next /\ TakeTime /\ StampCompletion /\ UNCHANGED screen
    \/ Read /\ UNCHANGED <<vars, completedAt, stamp>>

ReadsSpec == ReadsInit /\ [][ReadsNext]_<<vars, readsVars>>

-----------------------------------------------------------------------------
(***************************************************************************)
(* A streak that was shown keeps its proof: whenever the client asks for   *)
(* what lies behind it, the first day has a passed writing for the banner  *)
(* and the calendar has every day of the streak ("the first writing of     *)
(* the streak's first day", StatsController), although statistics, grass   *)
(* and sessions are read at different times, and written by jobs of which  *)
(* some lose updates and some die half-way.                                *)
(***************************************************************************)
ShownStreakIsBacked ==
    screen.pc = "statistics" =>
        /\ FindFirstPassedWriting(screen.user, screen.start) # {}
        /\ FindActivityRange(screen.user, screen.start, screen.last) = screen.start..screen.last

(***************************************************************************)
(* A verdict the client has polled stands: no retry, sweep or slower check *)
(* changes a session that was seen completed ("no edit after completion",  *)
(* CompleteWritingSessionDto).                                             *)
(***************************************************************************)
PolledVerdictStands ==
    screen.pc = "verdict" =>
        /\ row[screen.session].status = "completed"
        /\ row[screen.session].passed = screen.passed

\* Passed writings of s's user that the order of the list does not tell from s.
Ties(s) ==
    {q \in PassedOf(Owner[s]) \ {s} : /\ row[q].clientDate = row[s].clientDate
                                     /\ completedAt[q] = completedAt[s]}

(***************************************************************************)
(* Turning the pages skips nothing: every writing that was in the list     *)
(* when the first page was asked for has been shown on some page by the    *)
(* last one, although writings of any date come in between two pages,      *)
(* anywhere in the list, and shift the offsets.  It may be skipped only    *)
(* for another one of the same day that completed in the same millisecond, *)
(* as the query has no third column to order these by.                     *)
(***************************************************************************)
PagesSkipNothing == screen.pc = "listed" => \A s \in screen.missed : Ties(s) # {}
=============================================================================
