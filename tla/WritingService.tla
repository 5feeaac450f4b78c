--------------------------- MODULE WritingService ---------------------------
(***************************************************************************)
(* Writing sessions from the upload URL to the verdict (src/modules/       *)
(* writing), composed with the limiter that schedules the background       *)
(* checks and the statistics service they report to.                       *)
(*                                                                         *)
(* A request to complete() validates, reads the session, claims it with a  *)
(* conditional update and answers; the similarity check it queues runs on  *)
(* its own and is identified by the request that queued it.  The process   *)
(* may crash at any point and is started again; its sweep of stale         *)
(* sessions ends before it accepts requests.                               *)
(*                                                                         *)
(* An action is the instant at which the database (or storage, or Gemini)  *)
(* applies a call, together with the synchronous code up to the next call. *)
(* Reads of tables this system never writes (verses) are folded into the   *)
(* step that uses them.  How a call may fail is in Faults, as in           *)
(* StatsService.                                                           *)
(***************************************************************************)
EXTENDS HandwritingVerdict, Integers, Sequences, FiniteSets

CONSTANTS Users,
          Sessions,       \* ids of writing sessions
          Owner,          \* Owner[s]: the user who created s
          VersesOf,       \* VersesOf[s]: ids of the stored verses in the range of s
          VerseIds,       \* key verse ids clients send
          Dates,          \* existing calendar dates, as day numbers
          SentDates,      \* dates clients send, existing or not
          Requests,       \* calls of complete(), each made at most once
          CheckResults,   \* results of the handwriting check
          Max,            \* SIMILARITY_MAX_CONCURRENCY
          MaxCrashes,     \* bound on the crashes of the process
          Faults          \* pairs <<operation, "error" or "lost">> that may occur

ASSUME OwnerAssumption == Owner \in [Sessions -> Users]
ASSUME DatesAssumption == Dates \subseteq Int /\ Null \notin Int
ASSUME CrashAssumption == MaxCrashes \in Nat
\* The schema of the environment and the limiter's constructor ask for at least 1.
ASSUME LimitAssumption == Max \in Nat \ {0}

VARIABLES row,       \* table writing_sessions
          image,     \* the session's object in storage
          req,       \* requests to complete()
          job,       \* background checks (processSimilarity), by request
          up,        \* whether the process runs
          crashes,   \* how often it has crashed
          active, waiters, task,   \* the limiter
          stats, daily, rec        \* the statistics service

limiterVars == <<active, waiters, task>>
statsVars == <<stats, daily, rec>>
vars == <<row, image, req, job, up, crashes, active, waiters, task, stats, daily, rec>>

Limiter == INSTANCE ConcurrencyLimiter WITH Tasks <- Requests
Stats == INSTANCE StatsService
    WITH Workers <- Requests, NoDate <- Null, MaxConcurrency <- Max

Statuses == {"absent", "pending", "processing", "completed", "failed"}

\* Mutant of CLAIMABLE_STATUSES: a completed session may be checked again.
ClaimableWhenCompleted == {"pending", "uploaded", "failed", "completed"}

\* complete() starts a check from these; no code sets 'uploaded'.
CLAIMABLE_STATUSES == {"pending", "uploaded", "failed"}

NoRow == [status |-> "absent", passed |-> FALSE, clientDate |-> Null, keyVerse |-> Null]
NoRequest == [pc |-> "idle"]
Refused == [pc |-> "refused"]
NoJob == [pc |-> "none", passed |-> FALSE]

Init ==
    /\ row = [s \in Sessions |-> NoRow]
    /\ image = [s \in Sessions |-> "none"]
    /\ req = [r \in Requests |-> NoRequest]
    /\ job = [r \in Requests |-> NoJob]
    /\ up = TRUE
    /\ crashes = 0
    /\ Limiter!Init
    /\ Stats!Init

Outcomes(op) == {"ok"} \cup {o \in {"error", "lost"} : <<op, o>> \in Faults}

SessionOf(r) == req[r].session

\* Background checks that still have a call to make.
Live == {r \in Requests : job[r].pc \in
            {"inspect", "markCompleted", "recordWriting", "markFailed"}}

-----------------------------------------------------------------------------
(***************************************************************************)
(* What the calls of WritingRepository make of the table and of storage.   *)
(***************************************************************************)
Created(s) == [row EXCEPT ![s].status = "pending"]

UrlIssued(s) == [image EXCEPT ![s] = "url"]

Claimed(r) ==
    [row EXCEPT ![SessionOf(r)] = [@ EXCEPT !.status = "processing",
                                            !.clientDate = req[r].date,
                                            !.keyVerse = req[r].keyVerse]]

Completed(r) ==
    [row EXCEPT ![SessionOf(r)] = [@ EXCEPT !.status = "completed", !.passed = job[r].passed]]

Failed(s) == [row EXCEPT ![s].status = "failed"]

\* Of all users; the process that did the checking is gone.
StaleFailed ==
    [s \in Sessions |-> IF row[s].status = "processing"
                        THEN [row[s] EXCEPT !.status = "failed"] ELSE row[s]]

\* downloadImage throws unless the client's upload is there.
DownloadImage(s) == image[s] = "stored"

-----------------------------------------------------------------------------
(***************************************************************************)
(* createUploadUrl: the row is inserted, then storage is asked for the     *)
(* URL; when that fails the row stays behind without one.  Nothing else    *)
(* can know the session's id in between.                                   *)
(***************************************************************************)
CreateUploadUrl(s) ==
    /\ up
    /\ row[s].status = "absent"
    /\ \E insert \in Outcomes("create"), sign \in Outcomes("createSignedUploadUrl") :
          /\ row' = IF insert = "error" THEN row ELSE Created(s)
          /\ image' = IF insert = "ok" /\ sign = "ok" THEN UrlIssued(s) ELSE image
    /\ UNCHANGED <<req, job, up, crashes, limiterVars, statsVars>>

\* The client puts the photograph in storage, directly (external).
Upload(s) ==
    /\ image[s] = "url"
    /\ image' = [image EXCEPT ![s] = "stored"]
    /\ UNCHANGED <<row, req, job, up, crashes, limiterVars, statsVars>>

\* complete() is called; a date that does not exist is refused before any read.
Complete(r) ==
    /\ up
    /\ req[r] = NoRequest
    /\ \E user \in Users, s \in Sessions, date \in SentDates, verse \in VerseIds :
          req' = [req EXCEPT ![r] =
                    IF date \in Dates
                    THEN [pc |-> "findById", user |-> user, session |-> s,
                          date |-> date, keyVerse |-> verse]
                    ELSE Refused]
    /\ UNCHANGED <<row, image, job, up, crashes, limiterVars, statsVars>>

\* Mutant of MayProceed: whose session it is is not asked.
MayProceedForAnyone(r) ==
    /\ row[SessionOf(r)].status \notin {"absent", "completed", "processing"}
    /\ req[r].keyVerse \in VersesOf[SessionOf(r)]

\* Mutant of MayProceed: the key verse may lie outside the range.
MayProceedWithAnyVerse(r) ==
    /\ row[SessionOf(r)].status \notin {"absent", "completed", "processing"}
    /\ Owner[SessionOf(r)] = req[r].user

(***************************************************************************)
(* The session and the key verse are read and checked: 404, 403, 409 and   *)
(* 400 all end the request.  The status is only what it was at the read.   *)
(***************************************************************************)
MayProceed(r) ==
    LET s == SessionOf(r)
    IN  /\ row[s].status \notin {"absent", "completed", "processing"}
        /\ Owner[s] = req[r].user
        /\ req[r].keyVerse \in VersesOf[s]

FindById(r) ==
    /\ req[r].pc = "findById"
    /\ \E outcome \in Outcomes("findById") :
          req' = [req EXCEPT ![r] = IF outcome = "ok" /\ MayProceed(r)
                                    THEN [@ EXCEPT !.pc = "claim"]
                                    ELSE Refused]
    /\ UNCHANGED <<row, image, job, up, crashes, limiterVars, statsVars>>

\* Mutant of ClaimForProcessing: an update by id alone, trusting the earlier read.
ClaimUnconditionally(r) ==
    /\ req[r].pc = "claim"
    /\ row' = Claimed(r)
    /\ req' = [req EXCEPT ![r].pc = "accepted"]
    /\ job' = [job EXCEPT ![r].pc = "inspect"]
    /\ Limiter!Run(r)
    /\ UNCHANGED <<image, up, crashes, statsVars>>

\* Mutant of ClaimForProcessing: the check starts at once, without the limiter's leave.
ClaimWithoutLimit(r) ==
    /\ req[r].pc = "claim"
    /\ row[SessionOf(r)].status \in CLAIMABLE_STATUSES
    /\ row' = Claimed(r)
    /\ req' = [req EXCEPT ![r].pc = "accepted"]
    /\ job' = [job EXCEPT ![r].pc = "inspect"]
    /\ active' = active + 1
    /\ task' = [task EXCEPT ![r] = "starting"]
    /\ UNCHANGED <<waiters, image, up, crashes, statsVars>>

(***************************************************************************)
(* claimForProcessing, one conditional update: it takes the row only while *)
(* its status is claimable, and stores the key verse and the date of this  *)
(* request.  It leaves the columns of an earlier check alone.  When the    *)
(* claimed row comes back the check is given to the limiter at once; when  *)
(* nothing, or an error, comes back the request is refused.                *)
(***************************************************************************)
ClaimForProcessing(r) ==
    /\ req[r].pc = "claim"
    /\ LET s == SessionOf(r)
           claimable == row[s].status \in CLAIMABLE_STATUSES
       IN  \E outcome \in Outcomes("claimForProcessing") :
             /\ row' = IF claimable /\ outcome # "error"
                       THEN Claimed(r)
                       ELSE row
             /\ IF claimable /\ outcome = "ok"
                THEN /\ req' = [req EXCEPT ![r].pc = "accepted"]
                     /\ job' = [job EXCEPT ![r].pc = "inspect"]
                     /\ Limiter!Run(r)
                ELSE /\ req' = [req EXCEPT ![r] = Refused]
                     /\ UNCHANGED <<job, limiterVars>>
    /\ UNCHANGED <<image, up, crashes, statsVars>>

-----------------------------------------------------------------------------
\* The limiter calls processSimilarity.
StartJob(r) ==
    /\ Limiter!Start(r)
    /\ UNCHANGED <<row, image, req, job, up, crashes, statsVars>>

\* Mutant of Inspect: an error ends the job without the catch clause.
InspectSwallowingErrors(r) ==
    /\ task[r] = "running"
    /\ job[r].pc = "inspect"
    /\ \E outcome \in Outcomes("inspect"), result \in CheckResults :
          job' = [job EXCEPT ![r] =
                    IF outcome = "ok" /\ DownloadImage(SessionOf(r))
                    THEN [pc |-> "markCompleted", passed |-> Passes(result)]
                    ELSE [@ EXCEPT !.pc = "ended"]]
    /\ UNCHANGED <<row, image, req, up, crashes, limiterVars, statsVars>>

(***************************************************************************)
(* downloadImage, getRange and checkAndLog: anything missing or failing    *)
(* sends the job to its catch clause.                                      *)
(***************************************************************************)
Inspect(r) ==
    /\ task[r] = "running"
    /\ job[r].pc = "inspect"
    /\ \E outcome \in Outcomes("inspect"), result \in CheckResults :
          job' = [job EXCEPT ![r] =
                    IF /\ outcome = "ok"
                       /\ DownloadImage(SessionOf(r))
                       /\ VersesOf[SessionOf(r)] # {}
                    THEN [pc |-> "markCompleted", passed |-> Passes(result)]
                    ELSE [@ EXCEPT !.pc = "markFailed"]]
    /\ UNCHANGED <<row, image, req, up, crashes, limiterVars, statsVars>>

\* Mutant of MarkCompleted: recordWriting is called whatever the verdict.
MarkCompletedRecordingAll(r) ==
    /\ job[r].pc = "markCompleted"
    /\ row' = Completed(r)
    /\ job' = [job EXCEPT ![r].pc = "recordWriting"]
    /\ Stats!Begin(r, Owner[SessionOf(r)], req[r].date)
    /\ UNCHANGED <<image, req, up, crashes, limiterVars>>

(***************************************************************************)
(* markCompleted, an update by id alone.  A passed row that comes back     *)
(* makes the job call recordWriting, with the date of the request it holds *)
(* in memory.                                                              *)
(***************************************************************************)
MarkCompleted(r) ==
    /\ job[r].pc = "markCompleted"
    /\ LET s == SessionOf(r)
       IN  \E outcome \in Outcomes("markCompleted") :
             /\ row' = IF outcome = "error" THEN row ELSE Completed(r)
             /\ job' = [job EXCEPT ![r].pc = IF outcome # "ok" THEN "markFailed"
                                             ELSE IF job[r].passed THEN "recordWriting"
                                             ELSE "ended"]
             /\ IF outcome = "ok" /\ job[r].passed
                THEN Stats!Begin(r, Owner[s], req[r].date)
                ELSE UNCHANGED statsVars
    /\ UNCHANGED <<image, req, up, crashes, limiterVars>>

\* The job awaits recordWriting, which returns or throws.
RecordWriting(r) ==
    /\ job[r].pc = "recordWriting"
    /\ Stats!Step(r)
    /\ job' = [job EXCEPT ![r].pc = CASE rec'[r].pc = "done" -> "ended"
                                      [] rec'[r].pc = "failed" -> "markFailed"
                                      [] OTHER -> @]
    /\ UNCHANGED <<row, image, req, up, crashes, limiterVars>>

\* The catch clause: markFailed, by id alone, whose own failure is only logged.
MarkFailed(r) ==
    /\ job[r].pc = "markFailed"
    /\ \E outcome \in Outcomes("markFailed") :
          row' = IF outcome = "error" THEN row ELSE Failed(SessionOf(r))
    /\ job' = [job EXCEPT ![r].pc = "ended"]
    /\ UNCHANGED <<image, req, up, crashes, limiterVars, statsVars>>

\* processSimilarity has settled; run() gives the slot back.
ReleaseSlot(r) ==
    /\ job[r].pc = "ended"
    /\ Limiter!Finish(r)
    /\ UNCHANGED <<row, image, req, job, up, crashes, statsVars>>

-----------------------------------------------------------------------------
(***************************************************************************)
(* The process dies: requests, jobs, queue and half-done recordWriting     *)
(* calls are gone, the tables stay.                                        *)
(***************************************************************************)
Crash ==
    /\ up
    /\ crashes < MaxCrashes
    /\ up' = FALSE
    /\ crashes' = crashes + 1
    /\ req' = [r \in Requests |-> IF req[r].pc \in {"findById", "claim"} THEN Refused ELSE req[r]]
    /\ job' = [r \in Requests |-> NoJob]
    /\ active' = 0
    /\ waiters' = <<>>
    /\ task' = [r \in Requests |-> IF task[r] = "new" THEN "new" ELSE "done"]
    /\ rec' = [r \in Requests |-> IF job[r].pc = "recordWriting" THEN Stats!IdleCall ELSE rec[r]]
    /\ UNCHANGED <<row, image, stats, daily>>

\* Mutant of Boot: the sweep does not look at the status.
BootSweepingEverything ==
    /\ ~up
    /\ up' = TRUE
    /\ row' = [s \in Sessions |-> IF row[s].status = "absent" THEN row[s]
                                  ELSE [row[s] EXCEPT !.status = "failed"]]
    /\ UNCHANGED <<image, req, job, crashes, limiterVars, statsVars>>

\* Mutant of Boot: there is no sweep.
BootWithoutSweep ==
    /\ ~up
    /\ up' = TRUE
    /\ UNCHANGED <<row, image, req, job, crashes, limiterVars, statsVars>>

(***************************************************************************)
(* It is started again: onApplicationBootstrap runs failStaleProcessing,   *)
(* whose failure does not stop the boot, and only then listens.            *)
(***************************************************************************)
Boot ==
    /\ ~up
    /\ up' = TRUE
    /\ \E outcome \in Outcomes("failStaleProcessing") :
          row' = IF outcome = "error" THEN row ELSE StaleFailed
    /\ UNCHANGED <<image, req, job, crashes, limiterVars, statsVars>>

-----------------------------------------------------------------------------
Handle(r) == FindById(r) \/ ClaimForProcessing(r)

JobStep(r) == StartJob(r) \/ Inspect(r) \/ MarkCompleted(r) \/ RecordWriting(r)
                 \/ MarkFailed(r) \/ ReleaseSlot(r)

Next ==
    \/ \E s \in Sessions : CreateUploadUrl(s) \/ Upload(s)
    \/ \E r \in Requests : Complete(r) \/ Handle(r) \/ JobStep(r)
    \/ Crash
    \/ Boot

Spec == Init /\ [][Next]_vars

(***************************************************************************)
(* Every call a job awaits is answered or times out (Gemini by             *)
(* AbortSignal.timeout, the database by its client), and the container is  *)
(* restarted (restart: unless-stopped).  Clients owe nothing.              *)
(***************************************************************************)
Fairness == WF_vars(Boot) /\ \A r \in Requests : WF_vars(JobStep(r))

FairSpec == Spec /\ Fairness

-----------------------------------------------------------------------------
Rows == [status : Statuses, passed : BOOLEAN, clientDate : Dates \cup {Null},
         keyVerse : VerseIds \cup {Null}]
ReadRequests == [pc : {"findById", "claim", "accepted"}, user : Users, session : Sessions,
                 date : Dates, keyVerse : VerseIds]
JobStates == {"none", "inspect", "markCompleted", "recordWriting", "markFailed", "ended"}

\* The types of the service's own variables.
ServiceTypes ==
    /\ row \in [Sessions -> Rows]
    /\ image \in [Sessions -> {"none", "url", "stored"}]
    /\ req \in [Requests -> {NoRequest, Refused} \cup ReadRequests]
    /\ job \in [Requests -> [pc : JobStates, passed : BOOLEAN]]
    /\ up \in BOOLEAN
    /\ crashes \in 0..MaxCrashes

\* Type invariant, of the composition.
TypeOK ==
    /\ ServiceTypes
    /\ Limiter!TypeOK
    /\ Stats!TypeOK

(***************************************************************************)
(* No two checks of one session are ever under way.  complete() reads the  *)
(* status long before it claims, completions and failures are written by   *)
(* id with no condition, and a failed session may be claimed again at any  *)
(* time: only the conditional claim, the order of the job's writes and the *)
(* boot before listening keep two checks apart.                            *)
(***************************************************************************)
OneJobPerSession ==
    \A r, q \in Live : SessionOf(r) = SessionOf(q) => r = q

(***************************************************************************)
(* A check under way owns its session: it was asked for by the owner, the  *)
(* row is in the state the job left it in and still carries the date and   *)
(* the key verse of the request that queued it, so the date the job holds  *)
(* in memory is the date the row shows, whatever other requests arrived.   *)
(***************************************************************************)
JobOwnsSession ==
    \A r \in Live :
        LET s == SessionOf(r)
        IN  /\ up
            /\ req[r].pc = "accepted"
            /\ req[r].user = Owner[s]
            /\ row[s].clientDate = req[r].date
            /\ row[s].keyVerse = req[r].keyVerse
            /\ job[r].pc \in {"inspect", "markCompleted"} => row[s].status = "processing"
            /\ job[r].pc = "recordWriting" => row[s].status = "completed" /\ row[s].passed
            /\ job[r].pc = "markFailed" => row[s].status \in {"processing", "completed"}

(***************************************************************************)
(* A request under way lives with the process, and one that got past the   *)
(* first read was made by the owner, with a verse in the range.            *)
(***************************************************************************)
RequestsAreChecked ==
    \A r \in Requests :
        /\ req[r].pc \in {"findById", "claim"} => up
        /\ req[r].pc \in {"claim", "accepted"} =>
              /\ req[r].user = Owner[SessionOf(r)]
              /\ req[r].keyVerse \in VersesOf[SessionOf(r)]

(***************************************************************************)
(* The inductive invariant behind both: a live check's session is in a     *)
(* status that cannot be claimed, so no second check can come to it, so no *)
(* other job writes its row.                                               *)
(***************************************************************************)
JobInv ==
    /\ ServiceTypes
    /\ RequestsAreChecked
    /\ JobOwnsSession
    /\ OneJobPerSession

(***************************************************************************)
(* Once its check is over, a completed session never changes again (the    *)
(* API offers no edit after completion), whatever crashes, retries and     *)
(* failures follow: no stale job or sweep reaches it.                      *)
(***************************************************************************)
SettledIsFinal ==
    [][\A s \in Sessions :
          row[s].status = "completed" /\ (\A r \in Live : SessionOf(r) # s)
             => row'[s] = row[s]]_vars

(***************************************************************************)
(* A session passes only with a photograph in storage and a key verse in   *)
(* its range, though complete() may be called before the upload, and for a *)
(* row whose upload URL was never issued.                                  *)
(***************************************************************************)
PassedHasEvidence ==
    \A s \in Sessions : row[s].passed => image[s] = "stored" /\ row[s].keyVerse \in VersesOf[s]

\* The streak stays backed by grass when driven by concurrent, failing and dying jobs.
StreakWindow == Stats!StreakWindow

(***************************************************************************)
(* While the process runs, a session in processing has a check under way   *)
(* that will end it: requests, queue and jobs hand it over without a gap.  *)
(* (An unanswered claim, a failed markFailed or a failed sweep leave one   *)
(* behind until the next boot; the code logs these and no more.)           *)
(***************************************************************************)
ProcessingHasJob ==
    up => \A s \in Sessions : row[s].status = "processing" => \E r \in Live : SessionOf(r) = s

(***************************************************************************)
(* A session does not stay in processing: a client that polls sees it end, *)
(* through the queue, slow checks and crashes.                             *)
(***************************************************************************)
ProcessingEnds ==
    \A s \in Sessions : (row[s].status = "processing") ~> (row[s].status # "processing")

\* The passed sessions of a user, and those of one day.
PassedOf(u) == {s \in Sessions : Owner[s] = u /\ row[s].passed}
PassedOn(u, day) == {s \in PassedOf(u) : row[s].clientDate = day}

(***************************************************************************)
(* No day shows more grass than it has passed writings, and no total       *)
(* counts more than the user's ("the calendar shows passes only",          *)
(* API_SUMMARY.md): at every moment, while checks write at the same time   *)
(* from counts they read before, and after crashes that cut their calls    *)
(* short.  As long as none has, and with no check under way, every day     *)
(* with a passed writing has grass.  Less than the passed writings may be  *)
(* shown, for checks that end together (CountsEveryPass says when not).    *)
(***************************************************************************)
GrassMatchesPassed ==
    \A u \in Users :
        /\ stats[u].totalCount <= Cardinality(PassedOf(u))
        /\ \A day \in Dates : daily[u][day] <= Cardinality(PassedOn(u, day))
        /\ crashes = 0 /\ Live = {} =>
              /\ PassedOf(u) # {} => stats[u].totalCount > 0
              /\ \A day \in Dates : PassedOn(u, day) # {} => daily[u][day] > 0

(***************************************************************************)
(* One writing counts once: no user has more grass than writing sessions   *)
(* ("one writing = one row = +1 grass and total_count", DATABASE.md).      *)
(***************************************************************************)
OneGrassPerWriting ==
    \A u \in Users, day \in Dates :
        daily[u][day] <= Cardinality({s \in Sessions : Owner[s] = u})

-----------------------------------------------------------------------------
Lifecycle == INSTANCE SessionLifecycle
    WITH status <- [s \in Sessions |-> row[s].status],
         passed <- [s \in Sessions |-> row[s].passed]

\* What a polling client sees is the documented lifecycle.
ImplementsLifecycle == Lifecycle!Spec
=============================================================================
