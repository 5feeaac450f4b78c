------------------------- MODULE WritingReads_proofs -------------------------
(***************************************************************************)
(* What a client was shown stands, or is found again, by the next query:   *)
(* for any number of writings, checks and readers' pauses, and any crash,  *)
(* as long as no stored verdict is followed by a failure of its check.     *)
(***************************************************************************)
EXTENDS WritingReads, WritingService_proofs, SequenceTheorems

\* Reading changes nothing that the service keeps.
LEMMA ReadsOfService == ReadsSpec => Spec
<1>1. ReadsInit => Init
  BY DEF ReadsInit
<1>2. [ReadsNext]_<<vars, readsVars>> => [Next]_vars
  BY DEF ReadsNext, readsVars
<1> QED
  BY <1>1, <1>2, PTL DEF ReadsSpec, Spec

\* What a step does to what a client holds.
LEMMA ScreenStep ==
  ASSUME [ReadsNext]_<<vars, readsVars>>
  PROVE  \/ [Next]_vars /\ screen' = screen
         \/ /\ Read
            /\ UNCHANGED <<row, image, req, job, up, crashes, stats, daily, rec>>
            /\ UNCHANGED <<completedAt, stamp>>
BY DEF ReadsNext, vars, readsVars, statsVars

\* What a client holds of a list.
ListScreens == [pc : {"list"}, user : Users, offset : Nat, missed : SUBSET Sessions]

\* What a query leaves a client with, by its kind.
LEMMA ReadKinds ==
  ASSUME Read, screen.pc = "list" => screen \in ListScreens
  PROVE  /\ screen'.pc = "verdict" =>
              \E u \in Users, s \in Sessions :
                 /\ row[s].status = "completed"
                 /\ screen'.session = s /\ screen'.passed = row[s].passed
         /\ screen'.pc = "statistics" =>
              \E u \in Users :
                 /\ Stats!StreakStartDate(stats[u].lastWrittenDate, stats[u].currentStreak) # Null
                 /\ screen'.user = u /\ screen'.last = stats[u].lastWrittenDate
                 /\ screen'.start = Stats!StreakStartDate(stats[u].lastWrittenDate,
                                                          stats[u].currentStreak)
         /\ screen'.pc \in {"list", "listed"} => ListMyWritings \/ \E u \in Users : OpenList(u)
<1>1. ASSUME NEW u \in Users, GetMyStatistics(u)
      PROVE  /\ screen'.pc \in {"blank", "statistics"}
             /\ screen'.pc = "statistics" =>
                 /\ Stats!StreakStartDate(stats[u].lastWrittenDate, stats[u].currentStreak) # Null
                 /\ screen'.user = u /\ screen'.last = stats[u].lastWrittenDate
                 /\ screen'.start = Stats!StreakStartDate(stats[u].lastWrittenDate,
                                                          stats[u].currentStreak)
  BY <1>1 DEF GetMyStatistics, Blank
<1>2. ASSUME NEW u \in Users, NEW s \in Sessions, GetById(u, s)
      PROVE  /\ screen'.pc = "verdict" /\ row[s].status = "completed"
             /\ screen'.session = s /\ screen'.passed = row[s].passed
  BY <1>2 DEF GetById
<1>3. ASSUME NEW u \in Users, OpenList(u) PROVE screen'.pc = "list"
  BY <1>3 DEF OpenList
<1>4. FindStreakStart => screen'.pc = "banner"
  BY DEF FindStreakStart
<1>5. ASSUME ListMyWritings PROVE screen'.pc \in {"list", "listed"}
  <2>1. PICK list \in Listings(screen.user) :
          LET page == FindPassedListByUser(list, PageLimit, screen.offset)
              missed == screen.missed \ {page[i] : i \in DOMAIN page}
          IN  screen' = IF Len(page) < PageLimit
                        THEN [pc |-> "listed", missed |-> missed]
                        ELSE [screen EXCEPT !.offset = @ + PageLimit, !.missed = missed]
    BY <1>5 DEF ListMyWritings
  <2>2. screen \in ListScreens
    BY <1>5 DEF ListMyWritings
  <2> QED
    BY <2>1, <2>2 DEF ListScreens
<1> QED
  BY <1>1, <1>2, <1>3, <1>4, <1>5 DEF Read

-----------------------------------------------------------------------------
(* Verdicts and streaks. *)

VerdictInv ==
    /\ screen.pc = "verdict" => screen.session \in Sessions
    /\ PolledVerdictStands

\* The days of the streak that was shown have their grass.
StreakShown ==
    screen.pc = "statistics" =>
        /\ screen.user \in Users
        /\ screen.start \in screen.start..screen.last
        /\ \A day \in screen.start..screen.last : day \in Dates /\ daily[screen.user][day] > 0

LEMMA VerdictStays ==
  ASSUME JobInv, FailedBeforeVerdict, screen.pc = "list" => screen \in ListScreens, VerdictInv,
         [ReadsNext]_<<vars, readsVars>>
  PROVE  VerdictInv'
<1>1. CASE [Next]_vars /\ screen' = screen
  BY <1>1, CompletedStays DEF VerdictInv, PolledVerdictStands
<1>2. CASE Read /\ row' = row
  BY <1>2, ReadKinds DEF VerdictInv, PolledVerdictStands
<1> QED
  BY <1>1, <1>2, ScreenStep

LEMMA StreakStaysShown ==
  ASSUME JobInv, StatsProofs!StreakInv, screen.pc = "list" => screen \in ListScreens,
         StreakShown, [ReadsNext]_<<vars, readsVars>>
  PROVE  StreakShown'
<1>1. CASE [Next]_vars /\ screen' = screen
  BY <1>1, CountsStayPositive DEF StreakShown
<1>2. CASE Read /\ daily' = daily
  <2> SUFFICES ASSUME screen'.pc = "statistics"
               PROVE  /\ screen'.user \in Users
                      /\ screen'.start \in screen'.start..screen'.last
                      /\ \A day \in screen'.start..screen'.last :
                            day \in Dates /\ daily[screen'.user][day] > 0
    BY <1>2 DEF StreakShown
  <2>1. PICK u \in Users :
          /\ Stats!StreakStartDate(stats[u].lastWrittenDate, stats[u].currentStreak) # Null
          /\ screen'.user = u /\ screen'.last = stats[u].lastWrittenDate
          /\ screen'.start = Stats!StreakStartDate(stats[u].lastWrittenDate,
                                                   stats[u].currentStreak)
    BY <1>2, ReadKinds
  <2> DEFINE last == stats[u].lastWrittenDate
             streak == stats[u].currentStreak
             start == StatsProofs!StreakStartDate(last, streak)
  <2>2. Stats!StreakStartDate(last, streak) = start
    BY DEF Stats!StreakStartDate, StatsProofs!StreakStartDate
  <2>3. start # Null
    BY <2>1, <2>2
  <2>4. last # Null /\ streak # 0 /\ start = last - (streak - 1)
    BY <2>3 DEF StatsProofs!StreakStartDate
  <2>5. /\ last \in Int /\ streak \in Nat
        /\ \A day \in start..last : day \in Dates /\ daily[u][day] > 0
    BY <2>4, DatesAssumption DEF StatsProofs!StreakInv, StatsProofs!StreakWindow,
       StatsProofs!WindowHolds, StatsProofs!TypeOK, StatsProofs!Statistics
  <2>6. start \in start..last
    BY <2>4, <2>5
  <2> QED
    BY <2>1, <2>2, <2>5, <2>6
<1> QED
  BY <1>1, <1>2, ScreenStep

-----------------------------------------------------------------------------
(* The times of completion. *)

\* The columns hold times, or 0.
StampsInv == completedAt \in [Sessions -> Nat] /\ stamp \in [Requests -> Nat]

\* A session completes by the update of one of its jobs, which has taken its time.
LEMMA WhoCompletes ==
  ASSUME JobInv, [Next]_vars, NEW s \in Sessions,
         row[s].status # "completed", row'[s].status = "completed"
  PROVE  \E r \in Requests : job[r].pc = "markCompleted" /\ SessionOf(r) = s
<1>1. row \in [Sessions -> Rows] /\ row[s] \in Rows
  BY DEF JobInv, ServiceTypes
<1>2. ASSUME NEW x \in Sessions, CreateUploadUrl(x) PROVE FALSE
  <2>1. row'[s] = row[s] \/ row'[s] = [row[s] EXCEPT !.status = "pending"]
    BY <1>1, <1>2 DEF CreateUploadUrl, Created
  <2> QED
    BY <1>1, <2>1 DEF Rows
<1>3. ASSUME NEW r \in Requests, ClaimForProcessing(r) PROVE FALSE
  <2>1. \/ row'[s] = row[s]
        \/ row'[s] = [row[s] EXCEPT !.status = "processing", !.clientDate = req[r].date,
                                    !.keyVerse = req[r].keyVerse]
    BY <1>1, <1>3 DEF ClaimForProcessing, Claimed
  <2> QED
    BY <1>1, <2>1 DEF Rows
<1>4. ASSUME NEW r \in Requests, MarkCompleted(r)
      PROVE  job[r].pc = "markCompleted" /\ SessionOf(r) = s
  BY <1>1, <1>4 DEF MarkCompleted, Completed
<1>5. ASSUME NEW r \in Requests, MarkFailed(r) PROVE FALSE
  <2>1. row'[s] = row[s] \/ row'[s] = [row[s] EXCEPT !.status = "failed"]
    BY <1>1, <1>5 DEF MarkFailed, Failed
  <2> QED
    BY <1>1, <2>1 DEF Rows
<1>6. ~Boot
  <2>1. Boot => row'[s] = row[s] \/ row'[s] = [row[s] EXCEPT !.status = "failed"]
    BY DEF Boot, StaleFailed
  <2> QED
    BY <1>1, <2>1 DEF Rows
<1>7. ASSUME NEW r \in Requests,
             Complete(r) \/ FindById(r) \/ StartJob(r) \/ Inspect(r) \/ RecordWriting(r)
               \/ ReleaseSlot(r)
      PROVE  row' = row
  BY <1>7 DEF Complete, FindById, StartJob, Inspect, RecordWriting, ReleaseSlot
<1>8. ASSUME NEW x \in Sessions, Upload(x) PROVE row' = row
  BY <1>8 DEF Upload
<1>9. Crash \/ UNCHANGED vars => row' = row
  BY DEF Crash, vars
<1> QED
  BY <1>2, <1>3, <1>4, <1>5, <1>6, <1>7, <1>8, <1>9 DEF Next, Handle, JobStep

\* A session that does not complete keeps its stamp.
LEMMA StampStep ==
  ASSUME StampsInv, JobInv, [ReadsNext]_<<vars, readsVars>>, NEW s \in Sessions
  PROVE  \/ completedAt'[s] = completedAt[s]
         \/ row[s].status # "completed" /\ row'[s].status = "completed"
<1>1. CASE UNCHANGED completedAt
  BY <1>1
<1>2. CASE StampCompletion
  BY <1>2 DEF StampCompletion
<1> QED
  BY <1>1, <1>2 DEF ReadsNext, vars, readsVars

\* What a job takes is a time, and so is what its row gets.
LEMMA StampsPreserved ==
  ASSUME StampsInv, JobInv, [ReadsNext]_<<vars, readsVars>>
  PROVE  StampsInv'
<1>1. CASE UNCHANGED <<completedAt, stamp>>
  BY <1>1 DEF StampsInv
<1>2. CASE Next /\ TakeTime /\ StampCompletion
  <2>1. stamp' \in [Requests -> Nat]
    <3> DEFINE taking == {r \in Requests : /\ job[r].pc # "markCompleted"
                                           /\ job'[r].pc = "markCompleted"}
    <3>1. PICK now \in [taking -> Times] :
            stamp' = [r \in Requests |-> IF r \in taking THEN now[r]
                                         ELSE IF job'[r].pc = "markCompleted" THEN stamp[r]
                                         ELSE 0]
      BY <1>2 DEF TakeTime
    <3>2. \A r \in taking : now[r] \in Nat
      BY TimesAssumption
    <3> HIDE DEF taking
    <3> QED
      BY <3>1, <3>2 DEF StampsInv
  <2>2. ASSUME NEW s \in Sessions, row[s].status # "completed", row'[s].status = "completed"
        PROVE  stamp[CompleterOf(s)] \in Nat
    <3>1. \E r \in Requests : job[r].pc = "markCompleted" /\ SessionOf(r) = s
      BY <1>2, <2>2, WhoCompletes
    <3>2. CompleterOf(s) \in Requests
      BY <3>1 DEF CompleterOf
    <3> QED
      BY <3>2 DEF StampsInv
  <2>3. completedAt' \in [Sessions -> Nat]
    BY <1>2, <2>2 DEF StampCompletion, StampsInv
  <2> QED
    BY <2>1, <2>3 DEF StampsInv
<1> QED
  BY <1>1, <1>2 DEF ReadsNext, readsVars

-----------------------------------------------------------------------------
(* The first writing of a day. *)

\* A passed session stays, with its row and stamp.
LEMMA PassedAfter ==
  ASSUME JobInv, FailedBeforeVerdict, PassedIsSettled, StampsInv,
         [ReadsNext]_<<vars, readsVars>>, NEW s \in Passed
  PROVE  s \in Passed' /\ s \in Sessions /\ row'[s] = row[s] /\ completedAt'[s] = completedAt[s]
<1>1. [Next]_vars /\ s \in Sessions /\ row[s].status = "completed"
  BY ScreenStep DEF Passed, Read, ReadsNext, vars, PassedIsSettled
<1>2. s \in Passed' /\ row'[s] = row[s]
  BY <1>1, PassedStep
<1> QED
  BY <1>1, <1>2, StampStep

\* Of any times one is the earliest.
LEMMA EarliestTime ==
  ASSUME NEW T \in SUBSET Nat, T # {}
  PROVE  \E first \in T : \A n \in T : first <= n
<1>1. PICK b \in T : TRUE
  OBVIOUS
<1> DEFINE Upto == {0..n : n \in T \cap (0..b)}
<1>2. IsWellFoundedOn(StrictSubsetOrdering(0..b), FiniteSubsetsOf(0..b))
  BY FS_Interval, FS_StrictSubsetOrderingWellFounded
<1>3. Upto \subseteq FiniteSubsetsOf(0..b) /\ Upto # {}
  <2>1. \A n \in T \cap (0..b) : 0..n \in SUBSET (0..b)
    OBVIOUS
  <2>2. \A n \in T \cap (0..b) : 0..n \in FiniteSubsetsOf(0..b)
    BY <2>1, FS_Interval, FS_FiniteSubsetsOfFinite
  <2>3. b \in T \cap (0..b)
    OBVIOUS
  <2> QED
    BY <2>2, <2>3
<1> HIDE DEF Upto
<1>4. PICK A \in Upto : \A B \in Upto : <<B, A>> \notin StrictSubsetOrdering(0..b)
  BY <1>2, <1>3, WFMin
<1>5. PICK first \in T \cap (0..b) : A = 0..first
  BY DEF Upto
<1>6. ASSUME NEW n \in T PROVE first <= n
  <2> SUFFICES ASSUME n < first PROVE FALSE
    OBVIOUS
  <2>1. 0..n \in Upto
    BY DEF Upto
  <2>2. 0..n \subseteq 0..first /\ first \in 0..first /\ first \notin 0..n
    OBVIOUS
  <2>3. 0..n \in SUBSET (0..b) /\ 0..first \in SUBSET (0..b)
    OBVIOUS
  <2> QED
    BY <1>4, <1>5, <2>1, <2>2, <2>3 DEF StrictSubsetOrdering
<1> QED
  BY <1>6

\* A day with passed writings has a first one, whatever times the jobs have taken.
LEMMA FirstIsKnown ==
  ASSUME StampsInv, NEW u, NEW day, PassedOn(u, day) # {}
  PROVE  FindFirstPassedWriting(u, day) # {}
<1> DEFINE times == {completedAt[s] : s \in PassedOn(u, day)}
<1>1. PassedOn(u, day) \subseteq Sessions
  BY DEF PassedOn, PassedOf
<1>2. times \in SUBSET Nat /\ times # {}
  BY <1>1 DEF StampsInv
<1>3. \E first \in times : \A n \in times : first <= n
  <2> HIDE DEF times
  <2> QED
    BY <1>2, EarliestTime
<1> QED
  BY <1>3 DEF FindFirstPassedWriting

LEMMA StampsInvariant == ReadsSpec => []StampsInv
<1>1. ReadsInit => StampsInv
  BY DEF ReadsInit, StampsInv
<1> QED
  BY <1>1, StampsPreserved, ReadsOfService, JobInvariant, PTL DEF ReadsSpec

-----------------------------------------------------------------------------
(* What was shown stands. *)

ListTyped == screen.pc = "list" => screen \in ListScreens

LEMMA ListsAreTyped == ReadsSpec => []ListTyped
<1>1. ReadsInit => ListTyped
  BY DEF ReadsInit, Blank, ListTyped
<1>2. ListTyped /\ [ReadsNext]_<<vars, readsVars>> => ListTyped'
  <2> SUFFICES ASSUME ListTyped, [ReadsNext]_<<vars, readsVars>>, screen'.pc = "list"
               PROVE  screen' \in ListScreens
    BY DEF ListTyped
  <2>1. ASSUME NEW u \in Users, OpenList(u) PROVE screen' \in ListScreens
    BY <2>1 DEF OpenList, ListScreens, PassedOf
  <2>2. ASSUME ListMyWritings PROVE screen' \in ListScreens
    <3>1. screen \in ListScreens
      BY <2>2 DEF ListMyWritings, ListTyped
    <3>2. PICK list \in Listings(screen.user) :
            LET page == FindPassedListByUser(list, PageLimit, screen.offset)
                missed == screen.missed \ {page[i] : i \in DOMAIN page}
            IN  screen' = IF Len(page) < PageLimit
                          THEN [pc |-> "listed", missed |-> missed]
                          ELSE [screen EXCEPT !.offset = @ + PageLimit, !.missed = missed]
      BY <2>2 DEF ListMyWritings
    <3> DEFINE page == FindPassedListByUser(list, PageLimit, screen.offset)
               missed == screen.missed \ {page[i] : i \in DOMAIN page}
    <3>3. screen' = [screen EXCEPT !.offset = @ + PageLimit, !.missed = missed]
      BY <3>2
    <3>4. missed \in SUBSET Sessions
      BY <3>1 DEF ListScreens
    <3> HIDE DEF missed
    <3>5. screen.offset + PageLimit \in Nat
      <4>1. PageLimit \in Nat
        BY PageAssumption
      <4> QED
        BY <3>1, <4>1 DEF ListScreens
    <3> QED
      BY <3>1, <3>3, <3>4, <3>5 DEF ListScreens
  <2>3. CASE screen' = screen
    BY <2>3 DEF ListTyped
  <2> QED
    BY <2>1, <2>2, <2>3, ReadKinds, ScreenStep DEF ListTyped
<1> QED
  BY <1>1, <1>2, PTL DEF ReadsSpec

(***************************************************************************)
(* A verdict the client has polled stands, for any retries, sweeps and     *)
(* slower checks, when no stored verdict is followed by a failure.         *)
(***************************************************************************)
THEOREM VerdictsAreFinal ==
  ASSUME VerdictsStand
  PROVE  ReadsSpec => []PolledVerdictStands
<1>1. ReadsInit => VerdictInv
  BY DEF ReadsInit, Blank, VerdictInv, PolledVerdictStands
<1>2. JobInv /\ FailedBeforeVerdict /\ ListTyped /\ VerdictInv
        /\ [ReadsNext]_<<vars, readsVars>> => VerdictInv'
  BY VerdictStays DEF ListTyped
<1>3. VerdictInv => PolledVerdictStands
  BY DEF VerdictInv
<1> QED
  BY <1>1, <1>2, <1>3, ReadsOfService, JobInvariant, FailuresComeFirst, ListsAreTyped, PTL
     DEF ReadsSpec

(***************************************************************************)
(* A streak that was shown keeps its proof: whenever the client asks, its  *)
(* first day has a first passed writing and the calendar has all its days. *)
(***************************************************************************)
THEOREM StreaksStayBacked ==
  ASSUME VerdictsStand
  PROVE  ReadsSpec => []ShownStreakIsBacked
<1>1. ReadsInit => StreakShown
  BY DEF ReadsInit, Blank, StreakShown
<1>2. JobInv /\ StatsProofs!StreakInv /\ ListTyped /\ StreakShown
        /\ [ReadsNext]_<<vars, readsVars>> => StreakShown'
  BY StreakStaysShown DEF ListTyped
<1>3. StatsProofs!StreakInv /\ StreakShown /\ GrassInv /\ StampsInv => ShownStreakIsBacked
  <2> SUFFICES ASSUME StatsProofs!StreakInv, StreakShown, GrassInv, StampsInv,
                      screen.pc = "statistics"
               PROVE  /\ FindFirstPassedWriting(screen.user, screen.start) # {}
                      /\ FindActivityRange(screen.user, screen.start, screen.last)
                            = screen.start..screen.last
    BY DEF ShownStreakIsBacked
  <2>1. /\ screen.user \in Users
        /\ screen.start \in screen.start..screen.last
        /\ \A day \in screen.start..screen.last : day \in Dates /\ daily[screen.user][day] > 0
    BY DEF StreakShown
  <2>2. FindFirstPassedWriting(screen.user, screen.start) # {}
    BY <2>1, CountsShown, FirstIsKnown
  <2>3. FindActivityRange(screen.user, screen.start, screen.last) = screen.start..screen.last
    <3>1. \A day \in Dates : day \in Int
      BY DatesAssumption
    <3> QED
      BY <2>1, <3>1 DEF FindActivityRange
  <2> QED
    BY <2>2, <2>3
<1> QED
  BY <1>1, <1>2, <1>3, ReadsOfService, JobInvariant, StreakHolds, ListsAreTyped, GrassInvariant,
     StampsInvariant, PTL DEF ReadsSpec

-----------------------------------------------------------------------------
(* The pages of the list. *)

\* The passed writings of u that are listed before m.
Before(m, u) == {s \in PassedOf(u) : ListedBefore(s, m)}

(***************************************************************************)
(* The inductive invariant behind PagesSkipNothing: a writing the client   *)
(* has not been shown yet, and that nothing ties with, has at least as     *)
(* many before it as the next page skips.                                  *)
(***************************************************************************)
PagesInv ==
    /\ screen.pc = "list" =>
          /\ screen.missed \subseteq PassedOf(screen.user)
          /\ \A m \in screen.missed :
                Ties(m) = {} => screen.offset <= Cardinality(Before(m, screen.user))
    /\ screen.pc = "listed" => screen.missed \subseteq Passed
    /\ PagesSkipNothing

LEMMA PassedAreFinite ==
  ASSUME GrassInv, NEW u, NEW S \in SUBSET PassedOf(u)
  PROVE  IsFiniteSet(S) /\ Cardinality(S) \in Nat
<1>1. S \subseteq Passed /\ IsFiniteSet(Passed)
  BY DEF PassedOf, Passed, GrassInv
<1> QED
  BY <1>1, FS_Subset, FS_CardinalityType

\* A writing that nothing ties with is listed before or after each of the others.
LEMMA ListIsTotal ==
  ASSUME GrassInv, StampsInv, NEW u, NEW s \in PassedOf(u), NEW q \in PassedOf(u), s # q,
         Ties(q) = {}
  PROVE  ListedBefore(s, q) \/ ListedBefore(q, s)
<1>1. s \in Passed /\ q \in Passed /\ s \in Sessions /\ q \in Sessions /\ Owner[q] = u
  BY DEF PassedOf, Passed
<1>2. row[s].clientDate \in Int /\ row[q].clientDate \in Int
  BY <1>1, DatesAssumption DEF GrassInv, PassedIsSettled
<1>3. completedAt[s] \in Nat /\ completedAt[q] \in Nat
  BY <1>1 DEF StampsInv
<1>4. row[s].clientDate # row[q].clientDate \/ completedAt[s] # completedAt[q]
  BY <1>1 DEF Ties
<1> QED
  BY <1>2, <1>3, <1>4 DEF ListedBefore

\* And none before itself.
LEMMA ListIsStrict ==
  ASSUME GrassInv, StampsInv, NEW u, NEW s \in PassedOf(u)
  PROVE  ~ListedBefore(s, s)
<1>1. s \in Sessions /\ s \in Passed
  BY DEF PassedOf, Passed
<1>2. row[s].clientDate \in Int /\ completedAt[s] \in Nat
  BY <1>1, DatesAssumption DEF GrassInv, PassedIsSettled, StampsInv
<1> QED
  BY <1>2 DEF ListedBefore

\* A passed writing stands in every listing; when nothing ties with it, behind as many as are
\* listed before it.
LEMMA PlaceInList ==
  ASSUME GrassInv, StampsInv, NEW u, NEW list \in Listings(u), NEW m \in PassedOf(u),
         Ties(m) = {}
  PROVE  \E k \in 1..Cardinality(PassedOf(u)) : list[k] = m /\ Cardinality(Before(m, u)) = k - 1
<1> DEFINE n == Cardinality(PassedOf(u))
<1>1. n \in Nat /\ IsFiniteSet(PassedOf(u))
  BY PassedAreFinite
<1>2. /\ list \in [1..n -> PassedOf(u)]
      /\ \A i, j \in 1..n : i < j => list[i] # list[j] /\ ~ListedBefore(list[j], list[i])
  BY DEF Listings
<1>3. \A i, j \in 1..n : list[i] = list[j] => i = j
  BY <1>1, <1>2
<1>4. list \in Injection(1..n, PassedOf(u))
  BY <1>2, <1>3 DEF Injection, IsInjective
<1>5. Cardinality(1..n) = n
  BY <1>1, FS_Interval
<1>6. list \in Surjection(1..n, PassedOf(u))
  BY <1>1, <1>4, <1>5, FS_Injection
<1>7. PICK k \in 1..n : list[k] = m
  BY <1>6 DEF Surjection
<1>8. k \in Nat /\ k - 1 \in Nat /\ 1..(k - 1) \subseteq 1..n
  BY <1>1, <1>7
<1>9. ASSUME NEW i \in 1..n
      PROVE  ListedBefore(list[i], m) <=> i < k
  <2>1. CASE i = k
    BY <1>7, <1>8, <2>1, ListIsStrict
  <2>2. CASE i # k
    <3>1. list[i] \in PassedOf(u) /\ list[i] # m
      BY <1>2, <1>3, <1>7, <2>2
    <3>2. ListedBefore(list[i], m) \/ ListedBefore(m, list[i])
      BY <3>1, ListIsTotal
    <3>3. i < k \/ k < i
      BY <1>7, <2>2
    <3>4. i < k => ~ListedBefore(m, list[i])
      BY <1>2, <1>7
    <3>5. k < i => ~ListedBefore(list[i], m)
      BY <1>2, <1>7
    <3> QED
      BY <1>7, <3>2, <3>3, <3>4, <3>5
  <2> QED
    BY <2>1, <2>2
<1> DEFINE f == [i \in 1..(k - 1) |-> list[i]]
<1>10. f \in Bijection(1..(k - 1), Before(m, u))
  <2>1. \A i \in 1..(k - 1) : f[i] = list[i] /\ list[i] \in Before(m, u)
    BY <1>2, <1>8, <1>9 DEF Before
  <2>2. \A s \in Before(m, u) : \E i \in 1..(k - 1) : f[i] = s
    <3> SUFFICES ASSUME NEW s \in Before(m, u) PROVE \E i \in 1..(k - 1) : f[i] = s
      OBVIOUS
    <3>1. PICK i \in 1..n : list[i] = s
      BY <1>6 DEF Surjection, Before
    <3>2. i < k
      BY <1>9, <3>1 DEF Before
    <3> QED
      BY <1>8, <3>1, <3>2
  <2>3. f \in [1..(k - 1) -> Before(m, u)]
    BY <2>1
  <2>4. \A i, j \in 1..(k - 1) : f[i] = f[j] => i = j
    BY <1>3, <1>8, <2>1
  <2> HIDE DEF f
  <2> QED
    BY <2>2, <2>3, <2>4 DEF Bijection, Injection, IsInjective, Surjection
<1>11. IsFiniteSet(1..(k - 1)) /\ Cardinality(1..(k - 1)) = k - 1
  BY <1>8, FS_Interval
<1>12. Cardinality(Before(m, u)) = k - 1
  <2> HIDE DEF f
  <2> QED
    BY <1>10, <1>11, FS_Bijection DEF ExistsBijection
<1> QED
  BY <1>7, <1>12

\* A page shows the writings of the list from its offset on, and is short only at the end.
LEMMA PageShows ==
  ASSUME NEW S, NEW n \in Nat, NEW list \in [1..n -> S], NEW offset \in Nat, NEW limit \in Nat \ {0}
  PROVE  LET page == FindPassedListByUser(list, limit, offset)
         IN  /\ \A k \in 1..n : offset < k /\ k <= offset + limit =>
                   \E i \in DOMAIN page : page[i] = list[k]
             /\ Len(page) < limit => n < offset + limit
<1> DEFINE last == IF offset + limit < n THEN offset + limit ELSE n
           page == SubSeq(list, offset + 1, last)
<1>1. list \in Seq(S) /\ Len(list) = n
  OBVIOUS
<1>2. FindPassedListByUser(list, limit, offset) = page
  BY <1>1 DEF FindPassedListByUser
<1>3. last \in Int /\ offset + 1 \in Int /\ \A i \in (offset + 1)..last : i \in 1..n
  OBVIOUS
<1>4. /\ page \in Seq(S)
      /\ Len(page) = IF offset + 1 <= last THEN last - (offset + 1) + 1 ELSE 0
      /\ \A i \in 1..last - (offset + 1) + 1 : page[i] = list[offset + 1 + i - 1]
  <2> HIDE DEF last, page
  <2>1. \A i \in (offset + 1)..last : list[i] \in S
    BY <1>3
  <2> QED
    BY <1>3, <2>1, SubSeqProperties DEF page
<1>5. ASSUME NEW k \in 1..n, offset < k, k <= offset + limit
      PROVE  \E i \in DOMAIN page : page[i] = list[k]
  <2> HIDE DEF page
  <2>1. k <= last /\ offset + 1 <= last
    BY <1>5
  <2>2. k - offset \in 1..last - (offset + 1) + 1
    BY <1>3, <1>5, <2>1
  <2>3. page[k - offset] = list[k]
    BY <1>4, <1>5, <2>2
  <2>4. k - offset \in DOMAIN page
    BY <1>3, <1>4, <2>1, <2>2
  <2> QED
    BY <2>3, <2>4
<1>6. Len(page) < limit => n < offset + limit
  <2> HIDE DEF page
  <2> QED
    BY <1>4
<1> QED
  BY <1>2, <1>5, <1>6

\* Other steps leave an unseen writing with those before it.
LEMMA BeforeGrows ==
  ASSUME JobInv, FailedBeforeVerdict, GrassInv, GrassInv', StampsInv,
         [ReadsNext]_<<vars, readsVars>>, NEW u, NEW m \in PassedOf(u)
  PROVE  /\ m \in PassedOf(u)'
         /\ Cardinality(Before(m, u)) \in Nat
         /\ Cardinality(Before(m, u)') \in Nat
         /\ Cardinality(Before(m, u)) <= Cardinality(Before(m, u)')
         /\ Ties(m) \subseteq Ties(m)'
<1>1. PassedIsSettled
  BY DEF GrassInv
<1>2. ASSUME NEW s \in PassedOf(u)
      PROVE  /\ s \in PassedOf(u)' /\ row'[s] = row[s] /\ completedAt'[s] = completedAt[s]
  <2>1. s \in Passed /\ Owner[s] = u
    BY DEF PassedOf, Passed
  <2>2. s \in Sessions /\ row'[s] = row[s] /\ row[s].passed /\ completedAt'[s] = completedAt[s]
    BY <1>1, <2>1, PassedAfter DEF Passed
  <2>3. s \in {x \in Sessions : Owner[x] = u /\ row'[x].passed}
    BY <2>1, <2>2
  <2> QED
    BY <2>2, <2>3 DEF PassedOf
<1>3. Before(m, u) \subseteq Before(m, u)'
  <2> SUFFICES ASSUME NEW s \in Before(m, u)
               PROVE  s \in PassedOf(u)' /\ ListedBefore(s, m)'
    BY DEF Before
  <2>1. s \in PassedOf(u) /\ ListedBefore(s, m)
    BY DEF Before
  <2> QED
    BY <1>2, <2>1 DEF ListedBefore
<1>4. Before(m, u) \in SUBSET PassedOf(u) /\ Before(m, u)' \in SUBSET PassedOf(u)'
  BY DEF Before
<1>5. \A S \in SUBSET PassedOf(u) : IsFiniteSet(S) /\ Cardinality(S) \in Nat
  BY PassedAreFinite
<1>6. \A S \in SUBSET PassedOf(u)' : IsFiniteSet(S) /\ Cardinality(S) \in Nat
  <2> SUFFICES ASSUME NEW S \in SUBSET PassedOf(u)' PROVE IsFiniteSet(S)
    BY FS_CardinalityType
  <2>1. IsFiniteSet(Passed') /\ S \subseteq Passed'
    BY DEF GrassInv, PassedOf, Passed
  <2> QED
    BY <2>1, FS_Subset
<1>7. IsFiniteSet(Before(m, u)') /\ Cardinality(Before(m, u)') \in Nat
  BY <1>4, <1>6
<1>8. Ties(m) \subseteq Ties(m)'
  <2>1. Owner[m] = u
    BY DEF PassedOf
  <2> QED
    BY <1>2, <2>1 DEF Ties
<1> QED
  BY <1>2, <1>3, <1>4, <1>5, <1>7, <1>8, FS_Subset

\* The page that is turned shows what it would skip.
LEMMA PageTurned ==
  ASSUME GrassInv, StampsInv, ListTyped, PagesInv, ListMyWritings,
         UNCHANGED <<row, completedAt>>
  PROVE  PagesInv'
<1> DEFINE u == screen.user
           offset == screen.offset
           n == Cardinality(PassedOf(u))
<1>1. screen.pc = "list" /\ screen \in ListScreens /\ offset \in Nat
  BY DEF ListMyWritings, ListTyped, ListScreens
<1>2. PageLimit \in Nat \ {0} /\ n \in Nat
  BY PageAssumption, PassedAreFinite
<1>3. PICK list \in Listings(u) :
        LET page == FindPassedListByUser(list, PageLimit, offset)
            missed == screen.missed \ {page[i] : i \in DOMAIN page}
        IN  screen' = IF Len(page) < PageLimit
                      THEN [pc |-> "listed", missed |-> missed]
                      ELSE [screen EXCEPT !.offset = @ + PageLimit, !.missed = missed]
  BY DEF ListMyWritings
<1> DEFINE page == FindPassedListByUser(list, PageLimit, offset)
           missed == screen.missed \ {page[i] : i \in DOMAIN page}
<1>4. list \in [1..n -> PassedOf(u)]
  BY DEF Listings
<1>5. /\ \A k \in 1..n : offset < k /\ k <= offset + PageLimit =>
            \E i \in DOMAIN page : page[i] = list[k]
      /\ Len(page) < PageLimit => n < offset + PageLimit
  BY <1>1, <1>2, <1>4, PageShows
<1>6. /\ screen' = [pc |-> "listed", missed |-> missed] /\ Len(page) < PageLimit
      \/ screen' = [screen EXCEPT !.offset = offset + PageLimit, !.missed = missed]
  BY <1>3
<1>7. ASSUME NEW m \in missed, Ties(m) = {}
      PROVE  /\ offset + PageLimit <= Cardinality(Before(m, u))
             /\ offset + PageLimit <= n
  <2>1. m \in PassedOf(u) /\ offset <= Cardinality(Before(m, u))
    BY <1>1, <1>7 DEF PagesInv
  <2>2. PICK k \in 1..n : list[k] = m /\ Cardinality(Before(m, u)) = k - 1
    BY <1>7, <2>1, PlaceInList
  <2>3. ~\E i \in DOMAIN page : page[i] = m
    BY DEF missed
  <2>4. ~(offset < k /\ k <= offset + PageLimit)
    BY <1>5, <2>2, <2>3
  <2> HIDE DEF u, offset, n, missed, page
  <2> QED
    BY <1>1, <1>2, <2>1, <2>2, <2>4
<1>8. missed \subseteq PassedOf(u)
  BY <1>1 DEF PagesInv
<1>9. Passed' = Passed /\ \A m : Ties(m)' = Ties(m)
  <2>1. \A w : PassedOf(w)' = PassedOf(w)
    <3> HIDE DEF u, offset, n, page, missed
    <3> QED
      BY DEF PassedOf
  <2> QED
    BY <2>1 DEF Ties, Passed
<1> HIDE DEF missed, page
<1>10. CASE screen' = [pc |-> "listed", missed |-> missed] /\ Len(page) < PageLimit
  <2>1. \A m \in missed : Ties(m) # {}
    <3>1. n < offset + PageLimit
      BY <1>5, <1>10
    <3> QED
      BY <1>1, <1>2, <1>7, <3>1
  <2>2. missed \subseteq Passed
    BY <1>8 DEF PassedOf, Passed
  <2> QED
    BY <1>9, <1>10, <2>1, <2>2 DEF PagesInv, PagesSkipNothing
<1>11. CASE screen' = [screen EXCEPT !.offset = offset + PageLimit, !.missed = missed]
  <2>1. /\ screen'.pc = "list" /\ screen'.user = u /\ screen'.offset = offset + PageLimit
        /\ screen'.missed = missed
    BY <1>1, <1>11 DEF ListScreens
  <2>2. PassedOf(u)' = PassedOf(u) /\ \A m : Before(m, u)' = Before(m, u)
    <3>1. \A s : row'[s] = row[s] /\ completedAt'[s] = completedAt[s]
      OBVIOUS
    <3>2. u' = screen'.user
      OBVIOUS
    <3> QED
      BY <2>1, <3>1, <3>2 DEF PassedOf, Before, ListedBefore
  <2> QED
    BY <1>7, <1>8, <1>9, <2>1, <2>2 DEF PagesInv, PagesSkipNothing
<1> QED
  BY <1>6, <1>10, <1>11

LEMMA PagesPreserved ==
  ASSUME JobInv, FailedBeforeVerdict, GrassInv, GrassInv', StampsInv, ListTyped, PagesInv,
         [ReadsNext]_<<vars, readsVars>>
  PROVE  PagesInv'
<1>1. CASE screen' = screen
  <2>1. ASSUME screen.pc = "listed", NEW m \in screen.missed
        PROVE  m \in Passed' /\ Ties(m)' # {}
    <3>1. m \in Passed /\ Ties(m) # {}
      BY <2>1 DEF PagesInv, PagesSkipNothing
    <3>2. PICK u : u = Owner[m]
      OBVIOUS
    <3>3. m \in PassedOf(u)
      BY <3>1, <3>2 DEF Passed, PassedOf
    <3>4. m \in PassedOf(u)' /\ Ties(m) \subseteq Ties(m)'
      BY <3>3, BeforeGrows
    <3> QED
      BY <3>1, <3>4 DEF Passed, PassedOf
  <2>2. ASSUME screen.pc = "list", NEW m \in screen.missed
        PROVE  /\ m \in PassedOf(screen.user)'
               /\ Ties(m)' = {} => screen.offset <= Cardinality(Before(m, screen.user)')
    <3>1. PICK u : u = screen.user
      OBVIOUS
    <3>2. /\ m \in PassedOf(u) /\ screen.offset \in Nat
          /\ Ties(m) = {} => screen.offset <= Cardinality(Before(m, u))
      BY <2>2, <3>1 DEF PagesInv, ListTyped, ListScreens
    <3>3. /\ m \in PassedOf(u)'
          /\ Cardinality(Before(m, u)) \in Nat /\ Cardinality(Before(m, u)') \in Nat
          /\ Cardinality(Before(m, u)) <= Cardinality(Before(m, u)')
          /\ Ties(m) \subseteq Ties(m)'
      BY <3>2, BeforeGrows
    <3>4. screen'.user = u
      BY <1>1, <3>1
    <3>5. Ties(m)' = {} => screen.offset <= Cardinality(Before(m, u)')
      BY <3>2, <3>3
    <3> QED
      BY <1>1, <3>1, <3>3, <3>4, <3>5 DEF PassedOf, Before, ListedBefore
  <2> QED
    BY <1>1, <2>1, <2>2 DEF PagesInv, PagesSkipNothing
<1>2. CASE Read /\ UNCHANGED <<row, completedAt>>
  <2>1. CASE ListMyWritings
    BY <1>2, <2>1, PageTurned
  <2>2. ASSUME NEW u \in Users, OpenList(u)
        PROVE  PagesInv'
    <3>1. /\ screen'.pc = "list" /\ screen'.user = u /\ screen'.offset = 0
          /\ screen'.missed = PassedOf(u)
      BY <2>2 DEF OpenList
    <3>2. \A m : Cardinality(Before(m, u)) \in Nat
      <4>1. \A m : Before(m, u) \in SUBSET PassedOf(u)
        BY DEF Before
      <4> QED
        BY <4>1, PassedAreFinite
    <3>3. PassedOf(u)' = PassedOf(u) /\ \A m : Before(m, u)' = Before(m, u)
      BY <1>2 DEF PassedOf, Before, ListedBefore
    <3>4. \A m \in screen'.missed : screen'.offset <= Cardinality(Before(m, u)')
      BY <3>1, <3>2, <3>3
    <3> QED
      BY <3>1, <3>3, <3>4 DEF PagesInv, PagesSkipNothing, PassedOf, Before, ListedBefore
  <2>3. CASE screen'.pc \notin {"list", "listed"}
    BY <2>3 DEF PagesInv, PagesSkipNothing
  <2> QED
    BY <1>2, <2>1, <2>2, <2>3, ReadKinds DEF ListTyped
<1> QED
  BY <1>1, <1>2, ScreenStep

(***************************************************************************)
(* Turning the pages skips nothing but for writings that tie, for any      *)
(* number of writings and pages, whatever completes in between and in      *)
(* whatever order the jobs' times are applied; when no stored verdict is   *)
(* followed by a failure.                                                  *)
(***************************************************************************)
THEOREM PagesShowEverything ==
  ASSUME VerdictsStand
  PROVE  ReadsSpec => []PagesSkipNothing
<1>1. ReadsInit => PagesInv
  BY DEF ReadsInit, Blank, PagesInv, PagesSkipNothing
<1>2. JobInv /\ FailedBeforeVerdict /\ GrassInv /\ GrassInv' /\ StampsInv /\ ListTyped
        /\ PagesInv /\ [ReadsNext]_<<vars, readsVars>> => PagesInv'
  BY PagesPreserved
<1>3. PagesInv => PagesSkipNothing
  BY DEF PagesInv
<1> QED
  BY <1>1, <1>2, <1>3, ReadsOfService, JobInvariant, FailuresComeFirst, GrassInvariant,
     StampsInvariant, ListsAreTyped, PTL DEF ReadsSpec
=============================================================================
