------------------------ MODULE WritingService_proofs ------------------------
(***************************************************************************)
(* A session has at most one check under way and a settled session is      *)
(* final, for every set of users, sessions and requests, every limit, any  *)
(* number of crashes and any failures of the calls to the database,        *)
(* storage and Gemini.  What was proved of the limiter and of the          *)
(* statistics service alone holds inside the composition, and where the    *)
(* failures that the code cannot mend are left out, no session is left in  *)
(* processing and a client sees the documented lifecycle.                  *)
(***************************************************************************)
EXTENDS WritingService, FiniteSetTheorems, TLAPS

LiveStates == {"inspect", "markCompleted", "recordWriting", "markFailed"}

\* What JobOwnsSession says of one live check.
Owns(r) ==
    LET s == SessionOf(r)
    IN  /\ up
        /\ req[r].pc = "accepted"
        /\ req[r].user = Owner[s]
        /\ row[s].clientDate = req[r].date
        /\ row[s].keyVerse = req[r].keyVerse
        /\ job[r].pc \in {"inspect", "markCompleted"} => row[s].status = "processing"
        /\ job[r].pc = "recordWriting" => row[s].status = "completed" /\ row[s].passed
        /\ job[r].pc = "markFailed" => row[s].status \in {"processing", "completed"}

\* A request beyond its validation carries its session and its inputs.
LEMMA ReadRequest ==
  ASSUME ServiceTypes, NEW r \in Requests, req[r].pc \in {"findById", "claim", "accepted"}
  PROVE  req[r] \in ReadRequests /\ SessionOf(r) \in Sessions
<1>1. req[r] \in {NoRequest, Refused} \cup ReadRequests
  BY DEF ServiceTypes
<1>2. req[r] # NoRequest /\ req[r] # Refused
  BY DEF NoRequest, Refused
<1>3. req[r] \in ReadRequests
  BY <1>1, <1>2
<1> QED
  BY <1>3 DEF ReadRequests, SessionOf

\* A live check's session cannot be claimed.
LEMMA LiveIsNotClaimable ==
  ASSUME JobInv, NEW r \in Live
  PROVE  /\ r \in Requests
         /\ Owns(r)
         /\ SessionOf(r) \in Sessions
         /\ row[SessionOf(r)].status \in {"processing", "completed"}
<1>1. r \in Requests /\ Owns(r)
  BY DEF JobInv, JobOwnsSession, Live, Owns
<1>2. job[r].pc \in LiveStates
  BY DEF Live, LiveStates
<1> QED
  BY <1>1, <1>2, ReadRequest DEF JobInv, Owns, LiveStates

\* Steps that leave rows, requests, jobs and the process alone.
LEMMA Untouched ==
  ASSUME JobInv, UNCHANGED <<row, req, job, up>>,
         image' \in [Sessions -> {"none", "url", "stored"}],
         crashes' \in 0..MaxCrashes
  PROVE  JobInv'
BY DEF JobInv, ServiceTypes, RequestsAreChecked, JobOwnsSession, OneJobPerSession, Live, SessionOf

\* A check that no step touches keeps its session.
LEMMA OwnsPersists ==
  ASSUME NEW r \in Requests, Owns(r), up',
         job'[r] = job[r], req'[r] = req[r], row'[SessionOf(r)] = row[SessionOf(r)]
  PROVE  Owns(r)' /\ SessionOf(r)' = SessionOf(r)
BY DEF Owns, SessionOf

\* The parts of the invariant that a step of the jobs can disturb.
LEMMA JobInvFrom ==
  ASSUME ServiceTypes', RequestsAreChecked',
         \A r \in Live' : Owns(r)',
         \A r, q \in Live' : SessionOf(r)' = SessionOf(q)' => r = q
  PROVE  JobInv'
BY DEF JobInv, JobOwnsSession, Owns, OneJobPerSession

LEMMA InitEstablishes == Init => JobInv
<1> SUFFICES ASSUME Init PROVE JobInv
  OBVIOUS
<1>1. ServiceTypes
  BY CrashAssumption DEF Init, ServiceTypes, Rows, Statuses, NoRow, NoJob, JobStates
<1>2. \A r \in Requests : job[r].pc = "none" /\ req[r].pc = "idle"
  BY DEF Init, NoJob, NoRequest
<1>3. Live = {}
  BY <1>2 DEF Live
<1> QED
  BY <1>1, <1>2, <1>3 DEF JobInv, RequestsAreChecked, JobOwnsSession, OneJobPerSession

\* A new row appears; the checks under way have rows of their own.
LEMMA CreateUploadUrlPreserves ==
  ASSUME JobInv, NEW s \in Sessions, CreateUploadUrl(s)
  PROVE  JobInv'
<1>1. /\ row' = row \/ row' = [row EXCEPT ![s].status = "pending"]
      /\ image' \in [Sessions -> {"none", "url", "stored"}]
      /\ UNCHANGED <<req, job, up, crashes>>
      /\ row[s].status = "absent"
  BY DEF CreateUploadUrl, Created, UrlIssued, JobInv, ServiceTypes
<1>2. ServiceTypes'
  <2>1. [row[s] EXCEPT !.status = "pending"] \in Rows
    BY DEF JobInv, ServiceTypes, Rows, Statuses
  <2>2. row' \in [Sessions -> Rows]
    BY <1>1, <2>1 DEF JobInv, ServiceTypes
  <2> QED
    BY <1>1, <2>2 DEF JobInv, ServiceTypes
<1>3. RequestsAreChecked' /\ Live' = Live
  BY <1>1 DEF JobInv, RequestsAreChecked, Live, SessionOf
<1>4. ASSUME NEW r \in Live
      PROVE  Owns(r)' /\ SessionOf(r)' = SessionOf(r)
  <2>1. r \in Requests /\ Owns(r) /\ SessionOf(r) \in Sessions /\ SessionOf(r) # s
    BY <1>1, LiveIsNotClaimable
  <2>2. row'[SessionOf(r)] = row[SessionOf(r)]
    BY <1>1, <2>1 DEF JobInv, ServiceTypes
  <2> QED
    BY <1>1, <2>1, <2>2, OwnsPersists DEF Owns
<1> QED
  BY <1>2, <1>3, <1>4, JobInvFrom DEF JobInv, OneJobPerSession

\* Requests come in, or are refused; no check is concerned.
LEMMA RequestStepPreserves ==
  ASSUME JobInv, NEW r \in Requests, req[r].pc # "accepted",
         NEW n, req' = [req EXCEPT ![r] = n],
         n \in {Refused} \cup ReadRequests, n.pc # "accepted",
         n.pc \in {"findById", "claim"} => up,
         n.pc = "claim" => n.user = Owner[n.session] /\ n.keyVerse \in VersesOf[n.session],
         UNCHANGED <<row, job, up, image, crashes>>
  PROVE  JobInv'
<1>1. ServiceTypes'
  BY DEF JobInv, ServiceTypes
<1>2. req'[r] = n /\ \A q \in Requests \ {r} : req'[q] = req[q]
  BY DEF JobInv, ServiceTypes
<1>3. RequestsAreChecked'
  BY <1>2 DEF JobInv, RequestsAreChecked, SessionOf
<1>4. ASSUME NEW q \in Live
      PROVE  Owns(q)' /\ SessionOf(q)' = SessionOf(q)
  <2>1. q \in Requests /\ Owns(q)
    BY LiveIsNotClaimable
  <2>2. q # r
    BY <2>1 DEF Owns
  <2> QED
    BY <1>2, <2>1, <2>2, OwnsPersists DEF Owns
<1>5. Live' = Live
  BY DEF Live
<1> QED
  BY <1>1, <1>3, <1>4, <1>5, JobInvFrom DEF JobInv, OneJobPerSession

LEMMA CompletePreserves ==
  ASSUME JobInv, NEW r \in Requests, Complete(r)
  PROVE  JobInv'
<1>1. PICK user \in Users, s \in Sessions, date \in SentDates, verse \in VerseIds :
        req' = [req EXCEPT ![r] =
                  IF date \in Dates
                  THEN [pc |-> "findById", user |-> user, session |-> s,
                        date |-> date, keyVerse |-> verse]
                  ELSE Refused]
  BY DEF Complete
<1> DEFINE n == IF date \in Dates
                THEN [pc |-> "findById", user |-> user, session |-> s,
                      date |-> date, keyVerse |-> verse]
                ELSE Refused
<1>2. n \in {Refused} \cup ReadRequests /\ n.pc \in {"findById", "refused"}
  BY DEF ReadRequests, Refused
<1>3. req[r].pc # "accepted"
  BY DEF Complete, NoRequest
<1>4. UNCHANGED <<row, job, up, image, crashes>> /\ up
  BY DEF Complete
<1>5. req' = [req EXCEPT ![r] = n]
  BY <1>1
<1> HIDE DEF n
<1> QED
  BY <1>2, <1>3, <1>4, <1>5, RequestStepPreserves

LEMMA FindByIdPreserves ==
  ASSUME JobInv, NEW r \in Requests, FindById(r)
  PROVE  JobInv'
<1>1. req[r] \in ReadRequests /\ req[r].pc # "accepted" /\ up
  BY ReadRequest DEF FindById, JobInv, RequestsAreChecked
<1>2. UNCHANGED <<row, job, up, image, crashes>>
  BY DEF FindById
<1>3. CASE req' = [req EXCEPT ![r] = Refused]
  <2>1. Refused.pc = "refused"
    BY DEF Refused
  <2> QED
    BY <1>1, <1>2, <1>3, <2>1, RequestStepPreserves
<1>4. CASE MayProceed(r) /\ req' = [req EXCEPT ![r] = [@ EXCEPT !.pc = "claim"]]
  <2> DEFINE n == [req[r] EXCEPT !.pc = "claim"]
  <2>1. /\ n \in ReadRequests
        /\ n.pc = "claim"
        /\ n.user = req[r].user /\ n.session = req[r].session
        /\ n.keyVerse = req[r].keyVerse
    BY <1>1 DEF ReadRequests
  <2>2. n.user = Owner[n.session] /\ n.keyVerse \in VersesOf[n.session]
    BY <1>4, <2>1 DEF MayProceed, SessionOf
  <2>3. req' = [req EXCEPT ![r] = n]
    BY <1>4
  <2> HIDE DEF n
  <2> QED
    BY <1>1, <1>2, <2>1, <2>2, <2>3, RequestStepPreserves
<1> QED
  BY <1>3, <1>4 DEF FindById

(***************************************************************************)
(* The claim: when it takes the row, no check of that session is under     *)
(* way, because such a check holds it in a status that is not claimable.   *)
(***************************************************************************)
LEMMA ClaimPreserves ==
  ASSUME JobInv, NEW r \in Requests, ClaimForProcessing(r)
  PROVE  JobInv'
<1> DEFINE s == SessionOf(r)
           claimable == row[s].status \in CLAIMABLE_STATUSES
           taken == [row[s] EXCEPT !.status = "processing", !.clientDate = req[r].date,
                                   !.keyVerse = req[r].keyVerse]
<1>1. /\ req[r] \in ReadRequests /\ req[r].pc = "claim" /\ s \in Sessions
      /\ req[r].user = Owner[s] /\ req[r].keyVerse \in VersesOf[s] /\ up
  BY ReadRequest DEF ClaimForProcessing, Claimed, JobInv, RequestsAreChecked
<1>2. UNCHANGED <<image, up, crashes>>
  BY DEF ClaimForProcessing, Claimed
<1>3. PICK outcome \in Outcomes("claimForProcessing") :
        /\ row' = IF claimable /\ outcome # "error" THEN [row EXCEPT ![s] = taken] ELSE row
        /\ IF claimable /\ outcome = "ok"
           THEN /\ req' = [req EXCEPT ![r].pc = "accepted"]
                /\ job' = [job EXCEPT ![r].pc = "inspect"]
           ELSE /\ req' = [req EXCEPT ![r] = Refused]
                /\ UNCHANGED job
  BY DEF ClaimForProcessing, Claimed
<1>4. /\ taken \in Rows /\ taken.status = "processing"
      /\ taken.clientDate = req[r].date /\ taken.keyVerse = req[r].keyVerse
  <2>1. /\ row[s] \in Rows
        /\ req[r].date \in Dates /\ req[r].keyVerse \in VerseIds
    BY <1>1 DEF JobInv, ServiceTypes, ReadRequests
  <2> HIDE DEF s
  <2> QED
    BY <2>1 DEF Rows, Statuses
<1> HIDE DEF taken
<1>5. r \notin Live
  BY <1>1, LiveIsNotClaimable DEF Owns
<1>6. ASSUME NEW q \in Live
      PROVE  Owns(q)' /\ SessionOf(q)' = SessionOf(q) /\ (claimable => SessionOf(q) # s)
  <2>1. q \in Requests /\ Owns(q) /\ q # r /\ SessionOf(q) \in Sessions
    BY <1>5, LiveIsNotClaimable
  <2>2. claimable => SessionOf(q) # s
    BY LiveIsNotClaimable DEF CLAIMABLE_STATUSES
  <2>3. row'[SessionOf(q)] = row[SessionOf(q)]
    BY <1>1, <1>3, <2>1, <2>2 DEF JobInv, ServiceTypes
  <2>4. req'[q] = req[q] /\ job'[q] = job[q]
    BY <1>3, <2>1 DEF JobInv, ServiceTypes
  <2>5. up'
    BY <1>2, <2>1 DEF Owns
  <2> QED
    BY <2>1, <2>2, <2>3, <2>4, <2>5, OwnsPersists
<1>7. CASE claimable /\ outcome = "ok"
  <2> DEFINE n == [req[r] EXCEPT !.pc = "accepted"]
             j == [job[r] EXCEPT !.pc = "inspect"]
  <2>1. /\ n \in ReadRequests /\ n.pc = "accepted" /\ n.user = req[r].user
        /\ n.session = req[r].session /\ n.date = req[r].date
        /\ n.keyVerse = req[r].keyVerse
    BY <1>1 DEF ReadRequests
  <2>2. j \in [pc : JobStates, passed : BOOLEAN] /\ j.pc = "inspect"
    BY DEF JobInv, ServiceTypes, JobStates
  <2>3. req' = [req EXCEPT ![r] = n] /\ job' = [job EXCEPT ![r] = j]
           /\ row' = [row EXCEPT ![s] = taken]
    BY <1>3, <1>7
  <2> HIDE DEF n, j
  <2>4. ServiceTypes'
    BY <1>1, <1>2, <1>4, <2>1, <2>2, <2>3 DEF JobInv, ServiceTypes
  <2>5. /\ req'[r] = n /\ job'[r] = j /\ row'[s] = taken
        /\ \A q \in Requests \ {r} : req'[q] = req[q] /\ job'[q] = job[q]
    BY <1>1, <2>3 DEF JobInv, ServiceTypes
  <2>6. SessionOf(r)' = s
    BY <2>1, <2>5 DEF SessionOf
  <2>7. RequestsAreChecked'
    BY <1>1, <1>2, <2>1, <2>5, <2>6 DEF JobInv, RequestsAreChecked, SessionOf
  <2>8. Live' = Live \cup {r}
    BY <2>2, <2>5 DEF Live
  <2>9. Owns(r)'
    <3>1. up'
      BY <1>1, <1>2
    <3> QED
      BY <1>1, <1>4, <2>1, <2>2, <2>5, <2>6, <3>1 DEF Owns
  <2>10. \A p, q \in Live' : SessionOf(p)' = SessionOf(q)' => p = q
    BY <1>6, <1>7, <2>6, <2>8 DEF JobInv, OneJobPerSession
  <2> QED
    BY <1>6, <2>4, <2>7, <2>8, <2>9, <2>10, JobInvFrom
<1>8. CASE ~(claimable /\ outcome = "ok")
  <2>1. req' = [req EXCEPT ![r] = Refused] /\ UNCHANGED job
    BY <1>3, <1>8
  <2>2. row' \in [Sessions -> Rows]
    BY <1>1, <1>3, <1>4 DEF JobInv, ServiceTypes
  <2>3. ServiceTypes'
    BY <1>2, <2>1, <2>2 DEF JobInv, ServiceTypes
  <2>4. req'[r].pc = "refused" /\ \A q \in Requests \ {r} : req'[q] = req[q]
    BY <2>1 DEF JobInv, ServiceTypes, Refused
  <2>5. RequestsAreChecked'
    BY <1>2, <2>4 DEF JobInv, RequestsAreChecked, SessionOf
  <2>6. Live' = Live
    BY <2>1 DEF Live
  <2> QED
    BY <1>6, <2>3, <2>5, <2>6, JobInvFrom DEF JobInv, OneJobPerSession
<1> QED
  BY <1>7, <1>8

(***************************************************************************)
(* A step of a live check: it may write its own row and moves its own job  *)
(* on; every other check keeps both.                                       *)
(***************************************************************************)
LEMMA JobStepPreserves ==
  ASSUME JobInv, NEW r \in Live, NEW j \in [pc : JobStates, passed : BOOLEAN],
         job' = [job EXCEPT ![r] = j],
         NEW n \in Rows,
         row' = [row EXCEPT ![SessionOf(r)] = n] \/ (n = row[SessionOf(r)] /\ row' = row),
         n.clientDate = row[SessionOf(r)].clientDate,
         n.keyVerse = row[SessionOf(r)].keyVerse,
         j.pc \in {"inspect", "markCompleted"} => n.status = "processing",
         j.pc = "recordWriting" => n.status = "completed" /\ n.passed,
         j.pc = "markFailed" => n.status \in {"processing", "completed"},
         UNCHANGED <<image, req, up, crashes>>
  PROVE  JobInv'
<1>1. r \in Requests /\ Owns(r) /\ SessionOf(r) \in Sessions
  BY LiveIsNotClaimable
<1>2. row' = [row EXCEPT ![SessionOf(r)] = n]
  BY <1>1 DEF JobInv, ServiceTypes
<1>3. ServiceTypes'
  BY <1>1, <1>2 DEF JobInv, ServiceTypes
<1>4. RequestsAreChecked'
  BY DEF JobInv, RequestsAreChecked, SessionOf
<1>5. /\ job'[r] = j /\ row'[SessionOf(r)] = n
      /\ \A q \in Requests \ {r} : job'[q] = job[q]
      /\ \A s \in Sessions \ {SessionOf(r)} : row'[s] = row[s]
  BY <1>1, <1>2 DEF JobInv, ServiceTypes
<1>6. \A q \in Requests : SessionOf(q)' = SessionOf(q)
  BY DEF SessionOf
<1>7. Live' \subseteq Live
  BY <1>5 DEF Live
<1>8. ASSUME NEW q \in Live'
      PROVE  Owns(q)'
  <2>1. CASE q = r
    <3>1. j.pc \in LiveStates
      BY <1>5, <2>1 DEF Live, LiveStates
    <3> QED
      BY <1>1, <1>5, <1>6, <2>1 DEF Owns
  <2>2. CASE q # r
    <3>1. q \in Requests /\ Owns(q) /\ SessionOf(q) \in Sessions
      BY <1>7, LiveIsNotClaimable
    <3>2. SessionOf(q) # SessionOf(r)
      BY <1>7, <2>2 DEF JobInv, OneJobPerSession
    <3>3. row'[SessionOf(q)] = row[SessionOf(q)] /\ job'[q] = job[q]
      BY <1>5, <2>2, <3>1, <3>2
    <3> QED
      BY <3>1, <3>3, OwnsPersists DEF Owns
  <2> QED
    BY <2>1, <2>2
<1>9. \A p, q \in Live' : SessionOf(p)' = SessionOf(q)' => p = q
  BY <1>6, <1>7 DEF JobInv, OneJobPerSession, Live
<1> QED
  BY <1>3, <1>4, <1>8, <1>9, JobInvFrom

LEMMA InspectPreserves ==
  ASSUME JobInv, NEW r \in Requests, Inspect(r)
  PROVE  JobInv'
<1>1. r \in Live /\ UNCHANGED <<row, image, req, up, crashes>>
  BY DEF Inspect, DownloadImage, Live
<1>2. Owns(r) /\ SessionOf(r) \in Sessions /\ row[SessionOf(r)].status = "processing"
  BY <1>1, LiveIsNotClaimable DEF Owns, Inspect, DownloadImage
<1>3. PICK j \in [pc : JobStates, passed : BOOLEAN] :
        job' = [job EXCEPT ![r] = j] /\ j.pc \in {"markCompleted", "markFailed"}
  <2>1. PICK outcome \in Outcomes("inspect"), result \in CheckResults :
          job' = [job EXCEPT ![r] =
                    IF /\ outcome = "ok"
                       /\ image[SessionOf(r)] = "stored"
                       /\ VersesOf[SessionOf(r)] # {}
                    THEN [pc |-> "markCompleted", passed |-> Passes(result)]
                    ELSE [@ EXCEPT !.pc = "markFailed"]]
    BY DEF Inspect, DownloadImage
  <2>2. Passes(result) \in BOOLEAN
    BY DEF Passes
  <2>3. [pc |-> "markCompleted", passed |-> Passes(result)] \in [pc : JobStates, passed : BOOLEAN]
    BY <2>2 DEF JobStates
  <2>4. /\ [job[r] EXCEPT !.pc = "markFailed"] \in [pc : JobStates, passed : BOOLEAN]
        /\ [job[r] EXCEPT !.pc = "markFailed"].pc = "markFailed"
    BY DEF JobInv, ServiceTypes, JobStates
  <2> QED
    BY <2>1, <2>3, <2>4
<1>4. row[SessionOf(r)] \in Rows
  BY <1>2 DEF JobInv, ServiceTypes
<1> QED
  BY <1>1, <1>2, <1>3, <1>4, JobStepPreserves

LEMMA MarkCompletedPreserves ==
  ASSUME JobInv, NEW r \in Requests, MarkCompleted(r)
  PROVE  JobInv'
<1> DEFINE s == SessionOf(r)
           n == [row[s] EXCEPT !.status = "completed", !.passed = job[r].passed]
<1>1. r \in Live /\ UNCHANGED <<image, req, up, crashes>>
  BY DEF MarkCompleted, Completed, Live
<1>2. s \in Sessions /\ row[s].status = "processing" /\ row[s] \in Rows
        /\ job[r] \in [pc : JobStates, passed : BOOLEAN]
  BY <1>1, LiveIsNotClaimable DEF Owns, MarkCompleted, Completed, JobInv, ServiceTypes
<1>3. PICK outcome \in Outcomes("markCompleted") :
        /\ row' = IF outcome = "error" THEN row ELSE [row EXCEPT ![s] = n]
        /\ job' = [job EXCEPT ![r].pc = IF outcome # "ok" THEN "markFailed"
                                        ELSE IF job[r].passed THEN "recordWriting"
                                        ELSE "ended"]
  BY DEF MarkCompleted, Completed
<1> DEFINE j == [job[r] EXCEPT !.pc = IF outcome # "ok" THEN "markFailed"
                                      ELSE IF job[r].passed THEN "recordWriting"
                                      ELSE "ended"]
<1>4. /\ j \in [pc : JobStates, passed : BOOLEAN]
      /\ j.pc = "recordWriting" => outcome = "ok" /\ job[r].passed
      /\ j.pc \in {"markFailed", "recordWriting", "ended"}
      /\ job' = [job EXCEPT ![r] = j]
  BY <1>2, <1>3 DEF JobStates
<1>5. /\ n \in Rows /\ n.status = "completed" /\ n.passed = job[r].passed
      /\ n.clientDate = row[s].clientDate /\ n.keyVerse = row[s].keyVerse
  <2> HIDE DEF s
  <2> QED
    BY <1>2 DEF Rows, Statuses
<1> HIDE DEF j, n
<1>6. CASE outcome = "error"
  BY <1>1, <1>2, <1>3, <1>4, <1>6, JobStepPreserves
<1>7. CASE outcome # "error"
  BY <1>1, <1>2, <1>3, <1>4, <1>5, <1>7, JobStepPreserves
<1> QED
  BY <1>6, <1>7

LEMMA RecordWritingPreserves ==
  ASSUME JobInv, NEW r \in Requests, RecordWriting(r)
  PROVE  JobInv'
<1>1. r \in Live /\ UNCHANGED <<row, image, req, up, crashes>>
  BY DEF RecordWriting, Live
<1>2. /\ SessionOf(r) \in Sessions /\ row[SessionOf(r)] \in Rows
      /\ row[SessionOf(r)].status = "completed" /\ row[SessionOf(r)].passed
  BY <1>1, LiveIsNotClaimable DEF Owns, RecordWriting, JobInv, ServiceTypes
<1>3. PICK j \in [pc : JobStates, passed : BOOLEAN] :
        job' = [job EXCEPT ![r] = j] /\ j.pc \in {"ended", "markFailed", "recordWriting"}
  <2> DEFINE pc == CASE rec'[r].pc = "done" -> "ended"
                     [] rec'[r].pc = "failed" -> "markFailed"
                     [] OTHER -> job[r].pc
             j == [job[r] EXCEPT !.pc = pc]
  <2>1. job' = [job EXCEPT ![r] = j]
    BY DEF RecordWriting
  <2>2. pc \in {"ended", "markFailed", "recordWriting"}
    BY DEF RecordWriting
  <2> HIDE DEF pc
  <2>3. j \in [pc : JobStates, passed : BOOLEAN] /\ j.pc = pc
    BY <2>2 DEF JobInv, ServiceTypes, JobStates
  <2> QED
    BY <2>1, <2>2, <2>3
<1> QED
  BY <1>1, <1>2, <1>3, JobStepPreserves

LEMMA MarkFailedPreserves ==
  ASSUME JobInv, NEW r \in Requests, MarkFailed(r)
  PROVE  JobInv'
<1> DEFINE s == SessionOf(r)
           n == [row[s] EXCEPT !.status = "failed"]
           j == [job[r] EXCEPT !.pc = "ended"]
<1>1. r \in Live /\ UNCHANGED <<image, req, up, crashes>>
  BY DEF MarkFailed, Failed, Live
<1>2. s \in Sessions /\ row[s] \in Rows
  BY <1>1, LiveIsNotClaimable DEF JobInv, ServiceTypes
<1>3. (row' = row \/ row' = [row EXCEPT ![s] = n]) /\ job' = [job EXCEPT ![r] = j]
  BY DEF MarkFailed, Failed
<1>4. j \in [pc : JobStates, passed : BOOLEAN] /\ j.pc = "ended"
  BY DEF JobInv, ServiceTypes, JobStates
<1>5. /\ n \in Rows /\ n.clientDate = row[s].clientDate /\ n.keyVerse = row[s].keyVerse
  <2> HIDE DEF s
  <2> QED
    BY <1>2 DEF Rows, Statuses
<1> HIDE DEF j, n
<1>6. CASE row' = row
  BY <1>1, <1>2, <1>3, <1>4, <1>6, JobStepPreserves
<1>7. CASE row' = [row EXCEPT ![s] = n]
  BY <1>1, <1>2, <1>3, <1>4, <1>5, <1>7, JobStepPreserves
<1> QED
  BY <1>3, <1>6, <1>7

\* A crash ends every check and every request under way.
LEMMA CrashPreserves ==
  ASSUME JobInv, Crash
  PROVE  JobInv'
<1> USE DEF Crash
<1>1. \A r \in Requests : job'[r].pc = "none"
  BY DEF NoJob
<1>2. Live' = {}
  BY <1>1 DEF Live
<1>3. ServiceTypes'
  <2>1. crashes' \in 0..MaxCrashes
    BY CrashAssumption DEF JobInv, ServiceTypes
  <2>2. job' \in [Requests -> [pc : JobStates, passed : BOOLEAN]]
    BY DEF NoJob, JobStates
  <2>3. req' \in [Requests -> {NoRequest, Refused} \cup ReadRequests]
    BY DEF JobInv, ServiceTypes
  <2> QED
    BY <2>1, <2>2, <2>3 DEF JobInv, ServiceTypes
<1>4. ASSUME NEW r \in Requests, req'[r].pc \in {"findById", "claim", "accepted"}
      PROVE  req'[r] = req[r] /\ req[r].pc = "accepted"
  <2>1. CASE req[r].pc \in {"findById", "claim"}
    BY <1>4, <2>1 DEF Refused
  <2>2. CASE req[r].pc \notin {"findById", "claim"}
    BY <1>4, <2>2
  <2> QED
    BY <2>1, <2>2
<1>5. RequestsAreChecked'
  BY <1>4 DEF JobInv, RequestsAreChecked, SessionOf
<1> QED
  BY <1>2, <1>3, <1>5, JobInvFrom

\* No check is under way before the process listens: the sweep disturbs none.
LEMMA BootPreserves ==
  ASSUME JobInv, Boot
  PROVE  JobInv'
<1>1. Live = {}
  BY LiveIsNotClaimable DEF Boot, StaleFailed, Owns
<1>2. Live' = {}
  BY <1>1 DEF Boot, StaleFailed, Live
<1>3. row' \in [Sessions -> Rows]
  <2>1. \A s \in Sessions : row[s] \in Rows /\ [row[s] EXCEPT !.status = "failed"] \in Rows
    BY DEF JobInv, ServiceTypes, Rows, Statuses
  <2> QED
    BY <2>1 DEF Boot, StaleFailed, JobInv, ServiceTypes
<1>4. ServiceTypes' /\ RequestsAreChecked'
  BY <1>3 DEF Boot, StaleFailed, JobInv, ServiceTypes, RequestsAreChecked, SessionOf
<1> QED
  BY <1>2, <1>4, JobInvFrom

-----------------------------------------------------------------------------
LEMMA StepPreserves == JobInv /\ [Next]_vars => JobInv'
<1> SUFFICES ASSUME JobInv, [Next]_vars PROVE JobInv'
  OBVIOUS
<1>1. ASSUME NEW s \in Sessions, CreateUploadUrl(s) PROVE JobInv'
  BY <1>1, CreateUploadUrlPreserves
<1>2. ASSUME NEW s \in Sessions, Upload(s) PROVE JobInv'
  BY <1>2, Untouched DEF Upload, JobInv, ServiceTypes
<1>3. ASSUME NEW r \in Requests, Complete(r) PROVE JobInv'
  BY <1>3, CompletePreserves
<1>4. ASSUME NEW r \in Requests, Handle(r) PROVE JobInv'
  BY <1>4, FindByIdPreserves, ClaimPreserves DEF Handle
<1>5. ASSUME NEW r \in Requests, JobStep(r) PROVE JobInv'
  <2>1. CASE StartJob(r) \/ ReleaseSlot(r)
    BY <2>1, Untouched DEF StartJob, ReleaseSlot, JobInv, ServiceTypes
  <2>2. CASE Inspect(r)
    BY <2>2, InspectPreserves
  <2>3. CASE MarkCompleted(r)
    BY <2>3, MarkCompletedPreserves
  <2>4. CASE RecordWriting(r)
    BY <2>4, RecordWritingPreserves
  <2>5. CASE MarkFailed(r)
    BY <2>5, MarkFailedPreserves
  <2> QED
    BY <1>5, <2>1, <2>2, <2>3, <2>4, <2>5 DEF JobStep
<1>6. CASE Crash
  BY <1>6, CrashPreserves
<1>7. CASE Boot
  BY <1>7, BootPreserves
<1>8. CASE UNCHANGED vars
  BY <1>8, Untouched DEF vars, JobInv, ServiceTypes
<1> QED
  BY <1>1, <1>2, <1>3, <1>4, <1>5, <1>6, <1>7, <1>8 DEF Next

\* Checks own their sessions, at most one each, always.
THEOREM JobInvariant == Spec => []JobInv
BY InitEstablishes, StepPreserves, PTL DEF Spec

(***************************************************************************)
(* No two checks of one session are ever under way: whatever requests race *)
(* between the read of the status and the claim, and whatever fails.       *)
(***************************************************************************)
THEOREM OneJob == Spec => []OneJobPerSession
<1>1. JobInv => OneJobPerSession
  BY DEF JobInv
<1> QED
  BY <1>1, JobInvariant, PTL

(***************************************************************************)
(* The date and key verse a check holds in memory are the ones its         *)
(* session's row shows, and the session is its requester's own.            *)
(***************************************************************************)
THEOREM JobOwns == Spec => []JobOwnsSession
<1>1. JobInv => JobOwnsSession
  BY DEF JobInv
<1> QED
  BY <1>1, JobInvariant, PTL

(***************************************************************************)
(* A completed session whose check is over is never written again: not by  *)
(* a claim, a late job or the sweep of a later boot.                       *)
(***************************************************************************)
THEOREM SettledFinal == Spec => SettledIsFinal
<1> DEFINE Settled(s) == row[s].status = "completed" /\ \A r \in Live : SessionOf(r) # s
<1>1. ASSUME JobInv, [Next]_vars, NEW s \in Sessions, Settled(s)
      PROVE  row'[s] = row[s]
  <2>1. row \in [Sessions -> Rows]
    BY <1>1 DEF JobInv, ServiceTypes
  <2>2. ASSUME NEW x \in Sessions, CreateUploadUrl(x) PROVE row'[s] = row[s]
    BY <1>1, <2>1, <2>2 DEF CreateUploadUrl, Created, UrlIssued
  <2>3. ASSUME NEW r \in Requests, ClaimForProcessing(r) PROVE row'[s] = row[s]
    <3>1. CASE s = SessionOf(r)
      BY <1>1, <2>3, <3>1 DEF ClaimForProcessing, Claimed, CLAIMABLE_STATUSES
    <3>2. CASE s # SessionOf(r)
      BY <2>1, <2>3, <3>2 DEF ClaimForProcessing, Claimed
    <3> QED
      BY <3>1, <3>2
  <2>4. ASSUME NEW r \in Requests, MarkCompleted(r) \/ MarkFailed(r) PROVE row'[s] = row[s]
    <3>1. r \in Live
      BY <2>4 DEF MarkCompleted, Completed, MarkFailed, Failed, Live
    <3>2. s # SessionOf(r)
      BY <1>1, <3>1
    <3> QED
      BY <2>1, <2>4, <3>2 DEF MarkCompleted, Completed, MarkFailed, Failed
  <2>5. CASE Boot
    BY <1>1, <2>5 DEF Boot, StaleFailed
  <2>6. CASE UNCHANGED row
    BY <2>6
  <2>7. ASSUME NEW r \in Requests,
               Complete(r) \/ FindById(r) \/ StartJob(r) \/ Inspect(r)
                 \/ RecordWriting(r) \/ ReleaseSlot(r)
        PROVE  UNCHANGED row
    BY <2>7 DEF Complete, FindById, StartJob, Inspect, DownloadImage, RecordWriting, ReleaseSlot
  <2>8. ASSUME NEW x \in Sessions, Upload(x) PROVE UNCHANGED row
    BY <2>8 DEF Upload
  <2>9. Crash \/ UNCHANGED vars => UNCHANGED row
    BY DEF Crash, vars
  <2> QED
    BY <1>1, <2>2, <2>3, <2>4, <2>5, <2>6, <2>7, <2>8, <2>9 DEF Next, Handle, JobStep
<1>2. JobInv /\ [Next]_vars =>
        [\A s \in Sessions :
           row[s].status = "completed" /\ (\A r \in Live : SessionOf(r) # s)
             => row'[s] = row[s]]_vars
  BY <1>1
<1> QED
  BY <1>2, JobInvariant, PTL DEF Spec, SettledIsFinal

-----------------------------------------------------------------------------
(***************************************************************************)
(* PassedHasEvidence, strengthened: a check about to store its verdict has *)
(* found the photograph, and a row that does not exist has not passed.     *)
(***************************************************************************)
EvidenceInv ==
    /\ PassedHasEvidence
    /\ \A s \in Sessions : row[s].status = "absent" => ~row[s].passed
    /\ \A r \in Live : job[r].pc = "markCompleted" => image[SessionOf(r)] = "stored"

\* What a step does to the row of a session: it is left alone, changes status, is claimed or
\* completed.
RowKept(s) ==
    /\ row'[s].passed = row[s].passed /\ row'[s].keyVerse = row[s].keyVerse
    /\ row'[s].status = "absent" => row[s].status = "absent"
RowClaimed(s) ==
    /\ row'[s].passed = row[s].passed /\ row'[s].keyVerse \in VersesOf[s]
    /\ row'[s].status = "processing"
RowCompleted(s) ==
    /\ image[s] = "stored" /\ row[s].status = "processing"
    /\ row'[s].keyVerse \in VersesOf[s] /\ row'[s].status = "completed"

LEMMA RowStep ==
  ASSUME JobInv, EvidenceInv, [Next]_vars, NEW s \in Sessions
  PROVE  RowKept(s) \/ RowClaimed(s) \/ RowCompleted(s)
<1>1. row \in [Sessions -> Rows] /\ row[s] \in Rows
  BY DEF JobInv, ServiceTypes
<1>2. ASSUME row'[s] = row[s] PROVE RowKept(s)
  BY <1>2 DEF RowKept
<1>3. ASSUME row'[s] = [row[s] EXCEPT !.status = "pending"]
             \/ row'[s] = [row[s] EXCEPT !.status = "failed"]
      PROVE  RowKept(s)
  BY <1>1, <1>3 DEF RowKept, Rows
<1>4. ASSUME NEW x \in Sessions, CreateUploadUrl(x)
      PROVE  RowKept(s)
  <2>1. row'[s] = row[s] \/ row'[s] = [row[s] EXCEPT !.status = "pending"]
    BY <1>1, <1>4 DEF CreateUploadUrl, Created
  <2> QED
    BY <1>2, <1>3, <2>1
<1>5. ASSUME NEW r \in Requests, ClaimForProcessing(r)
      PROVE  RowKept(s) \/ RowClaimed(s)
  <2>1. CASE row'[s] = row[s]
    BY <1>2, <2>1
  <2>2. CASE row'[s] # row[s]
    <3>1. req[r].keyVerse \in VersesOf[SessionOf(r)]
      BY <1>5 DEF ClaimForProcessing, JobInv, RequestsAreChecked
    <3>2. s = SessionOf(r) /\ row' = Claimed(r)
      BY <1>1, <1>5, <2>2 DEF ClaimForProcessing, Claimed
    <3> QED
      BY <1>1, <3>1, <3>2 DEF Claimed, RowClaimed, Rows
  <2> QED
    BY <2>1, <2>2
<1>6. ASSUME NEW r \in Requests, MarkCompleted(r)
      PROVE  RowKept(s) \/ RowCompleted(s)
  <2>1. CASE row'[s] = row[s]
    BY <1>2, <2>1
  <2>2. CASE row'[s] # row[s]
    <3>1. s = SessionOf(r) /\ row' = Completed(r)
      BY <1>1, <1>6, <2>2 DEF MarkCompleted, Completed
    <3>2. r \in Live /\ job[r].pc = "markCompleted"
      BY <1>6 DEF MarkCompleted, Live
    <3>3. /\ image[s] = "stored" /\ row[s].status = "processing"
          /\ row[s].keyVerse \in VersesOf[s]
      BY <3>1, <3>2, LiveIsNotClaimable DEF EvidenceInv, Owns, JobInv, RequestsAreChecked
    <3> QED
      BY <1>1, <3>1, <3>3 DEF Completed, RowCompleted, Rows
  <2> QED
    BY <2>1, <2>2
<1>7. ASSUME NEW r \in Requests, MarkFailed(r)
      PROVE  RowKept(s)
  <2>1. row'[s] = row[s] \/ row'[s] = [row[s] EXCEPT !.status = "failed"]
    BY <1>1, <1>7 DEF MarkFailed, Failed
  <2> QED
    BY <1>2, <1>3, <2>1
<1>8. CASE Boot
  <2>1. row'[s] = row[s] \/ row'[s] = [row[s] EXCEPT !.status = "failed"]
    BY <1>8 DEF Boot, StaleFailed
  <2> QED
    BY <1>2, <1>3, <2>1
<1>9. ASSUME NEW r \in Requests,
             Complete(r) \/ FindById(r) \/ StartJob(r) \/ Inspect(r)
               \/ RecordWriting(r) \/ ReleaseSlot(r)
      PROVE  RowKept(s)
  BY <1>2, <1>9 DEF Complete, FindById, StartJob, Inspect, RecordWriting, ReleaseSlot
<1>10. ASSUME NEW x \in Sessions, Upload(x) PROVE RowKept(s)
  BY <1>2, <1>10 DEF Upload
<1>11. CASE Crash \/ UNCHANGED vars
  BY <1>2, <1>11 DEF Crash, vars
<1> QED
  BY <1>4, <1>5, <1>6, <1>7, <1>8, <1>9, <1>10, <1>11 DEF Next, Handle, JobStep

\* A photograph in storage stays there: only a session without a row is given a new URL.
LEMMA ImageStays ==
  ASSUME JobInv, [Next]_vars, NEW s \in Sessions,
         row[s].status # "absent", image[s] = "stored"
  PROVE  image'[s] = "stored"
<1>1. image \in [Sessions -> {"none", "url", "stored"}]
  BY DEF JobInv, ServiceTypes
<1>2. ASSUME NEW x \in Sessions, CreateUploadUrl(x) PROVE image'[s] = "stored"
  BY <1>1, <1>2 DEF CreateUploadUrl, UrlIssued
<1>3. ASSUME NEW x \in Sessions, Upload(x) PROVE image'[s] = "stored"
  BY <1>1, <1>3 DEF Upload
<1>4. ASSUME NEW r \in Requests, Complete(r) \/ Handle(r) \/ JobStep(r) PROVE image' = image
  BY <1>4 DEF Complete, Handle, FindById, ClaimForProcessing, JobStep, StartJob, Inspect,
              MarkCompleted, RecordWriting, MarkFailed, ReleaseSlot
<1>5. Crash \/ Boot \/ UNCHANGED vars => image' = image
  BY DEF Crash, Boot, vars
<1> QED
  BY <1>2, <1>3, <1>4, <1>5 DEF Next

\* An accepted request is never touched again.
LEMMA AcceptedStays ==
  ASSUME JobInv, [Next]_vars, NEW r \in Requests, req[r].pc = "accepted"
  PROVE  req'[r] = req[r]
<1>1. /\ r \in Requests /\ req[r].pc = "accepted"
      /\ req \in [Requests -> {NoRequest, Refused} \cup ReadRequests]
  BY DEF JobInv, ServiceTypes
<1>2. ASSUME NEW q \in Requests, Complete(q) \/ Handle(q) PROVE req'[r] = req[r]
  <2>1. q # r
    <3>1. Complete(q) => req[q].pc = "idle"
      BY DEF Complete, NoRequest
    <3>2. Handle(q) => req[q].pc \in {"findById", "claim"}
      BY DEF Handle, FindById, ClaimForProcessing
    <3> QED
      BY <1>1, <1>2, <3>1, <3>2
  <2>2. Complete(q) => req'[r] = req[r]
    BY <1>1, <2>1 DEF Complete
  <2>3. FindById(q) => req'[r] = req[r]
    BY <1>1, <2>1 DEF FindById
  <2>4. ClaimForProcessing(q) => req'[r] = req[r]
    BY <1>1, <2>1 DEF ClaimForProcessing
  <2> QED
    BY <1>2, <2>2, <2>3, <2>4 DEF Handle
<1>3. ASSUME NEW q \in Requests, JobStep(q) PROVE req' = req
  BY <1>3 DEF JobStep, StartJob, Inspect, MarkCompleted, RecordWriting, MarkFailed, ReleaseSlot
<1>4. ASSUME NEW s \in Sessions, CreateUploadUrl(s) \/ Upload(s) PROVE req' = req
  BY <1>4 DEF CreateUploadUrl, Upload
<1>5. Boot \/ UNCHANGED vars => req' = req
  BY DEF Boot, vars
<1>6. Crash => req'[r] = req[r]
  BY <1>1 DEF Crash
<1> QED
  BY <1>2, <1>3, <1>4, <1>5, <1>6 DEF Next

\* Nor, therefore, is the request of a live check.
LEMMA RequestStays ==
  ASSUME JobInv, [Next]_vars, NEW r \in Live
  PROVE  req'[r] = req[r]
BY AcceptedStays, LiveIsNotClaimable DEF Owns

\* Only Inspect sends a job on to markCompleted, and it has seen the photograph.
LEMMA VerdictStep ==
  ASSUME JobInv, EvidenceInv, [Next]_vars, NEW r \in Requests, job'[r].pc = "markCompleted"
  PROVE  r \in Live /\ image[SessionOf(r)] = "stored" /\ SessionOf(r)' = SessionOf(r)
<1>1. /\ job \in [Requests -> [pc : JobStates, passed : BOOLEAN]]
      /\ req \in [Requests -> {NoRequest, Refused} \cup ReadRequests]
  BY DEF JobInv, ServiceTypes
<1>2. CASE Inspect(r)
  BY <1>1, <1>2 DEF Inspect, DownloadImage, Live, SessionOf
<1>3. CASE ~Inspect(r)
  <2>1. ASSUME NEW q \in Requests, Complete(q) \/ FindById(q) PROVE job' = job
    BY <2>1 DEF Complete, FindById
  <2>2. ASSUME NEW q \in Requests, ClaimForProcessing(q) PROVE job'[r].pc = job[r].pc
    BY <1>1, <1>3, <2>2 DEF ClaimForProcessing
  <2>3. ASSUME NEW q \in Requests, JobStep(q) PROVE job'[r].pc = job[r].pc
    <3>1. CASE q # r
      BY <1>1, <2>3, <3>1 DEF JobStep, StartJob, Inspect, MarkCompleted, RecordWriting,
                              MarkFailed, ReleaseSlot
    <3>2. CASE q = r
      <4>1. StartJob(r) \/ ReleaseSlot(r) => job' = job
        BY DEF StartJob, ReleaseSlot
      <4>2. ~MarkCompleted(r) /\ ~MarkFailed(r) /\ ~RecordWriting(r)
        BY <1>1 DEF MarkCompleted, MarkFailed, RecordWriting
      <4> QED
        BY <1>3, <2>3, <3>2, <4>1, <4>2 DEF JobStep
    <3> QED
      BY <3>1, <3>2
  <2>4. ASSUME NEW x \in Sessions, CreateUploadUrl(x) \/ Upload(x) PROVE job' = job
    BY <2>4 DEF CreateUploadUrl, Upload
  <2>5. ~Crash
    BY DEF Crash, NoJob
  <2>6. Boot \/ UNCHANGED vars => job' = job
    BY DEF Boot, vars
  <2>7. job[r].pc = "markCompleted" /\ r \in Live
    BY <2>1, <2>2, <2>3, <2>4, <2>5, <2>6 DEF Next, Handle, Live
  <2>8. req'[r] = req[r]
    BY <2>7, RequestStays
  <2> QED
    BY <2>7, <2>8 DEF EvidenceInv, SessionOf
<1> QED
  BY <1>2, <1>3

LEMMA EvidenceStep == JobInv /\ EvidenceInv /\ [Next]_vars => EvidenceInv'
<1> SUFFICES ASSUME JobInv, EvidenceInv, [Next]_vars PROVE EvidenceInv'
  OBVIOUS
<1>1. ASSUME NEW s \in Sessions
      PROVE  /\ row'[s].passed => image'[s] = "stored" /\ row'[s].keyVerse \in VersesOf[s]
             /\ row'[s].status = "absent" => ~row'[s].passed
  <2>1. image[s] = "stored" /\ row[s].status # "absent" => image'[s] = "stored"
    BY ImageStays
  <2>2. /\ row[s].passed => image[s] = "stored" /\ row[s].keyVerse \in VersesOf[s]
        /\ row[s].status = "absent" => ~row[s].passed
    BY DEF EvidenceInv, PassedHasEvidence
  <2> QED
    BY <2>1, <2>2, RowStep DEF RowKept, RowClaimed, RowCompleted
<1>2. ASSUME NEW r \in Requests, job'[r].pc = "markCompleted"
      PROVE  image'[SessionOf(r)'] = "stored"
  <2>1. r \in Live /\ image[SessionOf(r)] = "stored" /\ SessionOf(r)' = SessionOf(r)
    BY <1>2, VerdictStep
  <2>2. SessionOf(r) \in Sessions /\ row[SessionOf(r)].status # "absent"
    BY <2>1, LiveIsNotClaimable
  <2> QED
    BY <2>1, <2>2, ImageStays
<1> QED
  BY <1>1, <1>2 DEF EvidenceInv, PassedHasEvidence, Live

(***************************************************************************)
(* No session passes without a photograph in storage and a key verse in    *)
(* its range, whatever is called in whatever order and whatever fails.     *)
(***************************************************************************)
THEOREM EvidenceBehindPass == Spec => []PassedHasEvidence
<1>1. Init => EvidenceInv
  BY DEF Init, EvidenceInv, PassedHasEvidence, NoRow, NoJob, Live
<1>2. EvidenceInv => PassedHasEvidence
  BY DEF EvidenceInv
<1> QED
  BY <1>1, <1>2, EvidenceStep, JobInvariant, PTL DEF Spec

-----------------------------------------------------------------------------
(* The limiter and the statistics service inside the composition. *)

LimiterProofs == INSTANCE ConcurrencyLimiter_proofs WITH Tasks <- Requests, arrivals <- <<>>
StatsProofs == INSTANCE StatsService_proofs
    WITH Workers <- Requests, NoDate <- Null, MaxConcurrency <- Max, overlapped <- {}

\* The assumptions under which they were proved hold here.
LEMMA Assumptions ==
  LimiterProofs!MaxAssumption /\ StatsProofs!DatesAssumption /\ StatsProofs!NoDateAssumption
BY LimitAssumption, DatesAssumption
   DEF LimiterProofs!MaxAssumption, StatsProofs!DatesAssumption, StatsProofs!NoDateAssumption

\* A step either is one of the limiter's, or leaves the limiter alone, or is the crash.
LEMMA LimiterStep ==
  ASSUME [Next]_vars
  PROVE  \/ \E r \in Requests : \/ LimiterProofs!Run(r) \/ LimiterProofs!Start(r)
                                \/ LimiterProofs!Finish(r) /\ job[r].pc = "ended"
         \/ UNCHANGED limiterVars
         \/ Crash
<1>1. ASSUME NEW r \in Requests, ClaimForProcessing(r)
      PROVE  LimiterProofs!Run(r) \/ UNCHANGED limiterVars
  BY <1>1 DEF ClaimForProcessing, Limiter!Run, LimiterProofs!Run
<1>2. ASSUME NEW r \in Requests, StartJob(r)
      PROVE  LimiterProofs!Start(r)
  BY <1>2 DEF StartJob, Limiter!Start, LimiterProofs!Start
<1>3. ASSUME NEW r \in Requests, ReleaseSlot(r)
      PROVE  LimiterProofs!Finish(r) /\ job[r].pc = "ended"
  BY <1>3 DEF ReleaseSlot, Limiter!Finish, LimiterProofs!Finish
<1>4. ASSUME NEW r \in Requests,
             Complete(r) \/ FindById(r) \/ Inspect(r) \/ MarkCompleted(r)
               \/ RecordWriting(r) \/ MarkFailed(r)
      PROVE  UNCHANGED limiterVars
  BY <1>4 DEF Complete, FindById, Inspect, MarkCompleted, RecordWriting, MarkFailed
<1>5. ASSUME NEW s \in Sessions, CreateUploadUrl(s) \/ Upload(s)
      PROVE  UNCHANGED limiterVars
  BY <1>5 DEF CreateUploadUrl, Upload
<1>6. Boot \/ UNCHANGED vars => UNCHANGED limiterVars
  BY DEF Boot, vars, limiterVars
<1> QED
  BY <1>1, <1>2, <1>3, <1>4, <1>5, <1>6 DEF Next, Handle, JobStep

\* The crash empties the queue and frees every slot; no task is run twice.
LEMMA CrashKeepsLimiter ==
  ASSUME LimiterProofs!LimiterInv, Crash
  PROVE  LimiterProofs!LimiterInv'
<1>1. active' = 0 /\ waiters' = <<>> /\ \A r \in Requests : task'[r] \in {"new", "done"}
  BY DEF Crash
<1>2. LimiterProofs!Holders' = {}
  BY <1>1 DEF LimiterProofs!Holders
<1>3. LimiterProofs!IsFiniteSet({}) /\ LimiterProofs!Cardinality({}) = 0
  BY FS_EmptySet DEF IsFiniteSet, Cardinality, LimiterProofs!IsFiniteSet, LimiterProofs!Cardinality
<1>4. LimiterProofs!TypeOK'
  <2>1. task' \in [Requests -> {"new", "done"}]
    BY DEF Crash
  <2>2. task' \in [Requests -> LimiterProofs!TaskStates]
    BY <2>1 DEF LimiterProofs!TaskStates
  <2> QED
    BY <1>1, <2>2, LimitAssumption DEF LimiterProofs!TypeOK
<1>5. LimiterProofs!QueueIsExact' /\ LimiterProofs!NoIdleSlot'
  <2>1. DOMAIN waiters' = {}
    BY <1>1
  <2> QED
    BY <1>1, <2>1 DEF LimiterProofs!QueueIsExact, LimiterProofs!NoIdleSlot
<1>6. LimiterProofs!SlotsAreCounted'
  BY <1>1, <1>2, <1>3 DEF LimiterProofs!SlotsAreCounted
<1> QED
  BY <1>2, <1>3, <1>4, <1>5, <1>6 DEF LimiterProofs!LimiterInv

\* The limiter's invariant, in the composition.
LEMMA LimiterHolds == Spec => []LimiterProofs!LimiterInv
<1>1. Init => LimiterProofs!Init
  BY DEF Init, Limiter!Init, LimiterProofs!Init
<1>2. Init => LimiterProofs!LimiterInv
  BY <1>1, Assumptions, LimiterProofs!InitEstablishes
<1>3. LimiterProofs!LimiterInv /\ [Next]_vars => LimiterProofs!LimiterInv'
  <2> SUFFICES ASSUME LimiterProofs!LimiterInv, [Next]_vars
               PROVE  LimiterProofs!LimiterInv'
    OBVIOUS
  <2>1. ASSUME NEW r \in Requests, LimiterProofs!Run(r)
        PROVE  LimiterProofs!LimiterInv'
    BY <2>1, Assumptions, LimiterProofs!RunPreserves
  <2>2. ASSUME NEW r \in Requests, LimiterProofs!Start(r)
        PROVE  LimiterProofs!LimiterInv'
    BY <2>2, Assumptions, LimiterProofs!StartPreserves
  <2>3. ASSUME NEW r \in Requests, LimiterProofs!Finish(r)
        PROVE  LimiterProofs!LimiterInv'
    BY <2>3, Assumptions, LimiterProofs!FinishPreserves
  <2>4. CASE UNCHANGED limiterVars
    BY <2>4 DEF limiterVars, LimiterProofs!LimiterInv, LimiterProofs!TypeOK,
                LimiterProofs!Holders, LimiterProofs!SlotsAreCounted,
                LimiterProofs!QueueIsExact, LimiterProofs!NoIdleSlot
  <2> QED
    BY <2>1, <2>2, <2>3, <2>4, CrashKeepsLimiter, LimiterStep
<1> QED
  BY <1>2, <1>3, PTL DEF Spec

\* The step of a job that awaits recordWriting is a step of recordWriting.
LEMMA RecordingIsStep ==
  ASSUME NEW r \in Requests, RecordWriting(r)
  PROVE  StatsProofs!Step(r)
<1>1. Stats!Step(r)
  BY DEF RecordWriting
<1>2. \A op : Stats!Outcomes(op) = StatsProofs!Outcomes(op)
  BY DEF Stats!Outcomes, StatsProofs!Outcomes
<1>3. /\ \A pc : Stats!Return(r, pc) <=> StatsProofs!Return(r, pc)
      /\ \A pc : Stats!Advance(r, pc) <=> StatsProofs!Advance(r, pc)
  BY DEF Stats!Return, StatsProofs!Return, Stats!Advance, StatsProofs!Advance,
         Stats!EmptyStatistics, StatsProofs!EmptyStatistics
<1>4. Stats!FindStatistics(r) => StatsProofs!FindStatistics(r)
  BY <1>2, <1>3 DEF Stats!FindStatistics, StatsProofs!FindStatistics
<1>5. Stats!ReadActivity(r) => StatsProofs!ReadActivity(r)
  BY <1>2, <1>3 DEF Stats!ReadActivity, StatsProofs!ReadActivity
<1>6. Stats!WriteActivity(r) => StatsProofs!WriteActivity(r)
  BY <1>2, <1>3 DEF Stats!WriteActivity, StatsProofs!WriteActivity
<1>7. Stats!SaveStatistics(r) => StatsProofs!SaveStatistics(r)
  <2>1. \A e, t : Stats!NewStatistics(e, t) = StatsProofs!NewStatistics(e, t)
    BY DEF Stats!NewStatistics, StatsProofs!NewStatistics,
           Stats!CalculateStreak, StatsProofs!CalculateStreak, Stats!MaxOf, StatsProofs!MaxOf,
           Stats!DiffInUtcDays, StatsProofs!DiffInUtcDays
  <2> QED
    BY <1>2, <1>3, <2>1 DEF Stats!SaveStatistics, StatsProofs!SaveStatistics
<1> QED
  BY <1>1, <1>4, <1>5, <1>6, <1>7 DEF Stats!Step, StatsProofs!Step

\* A step either is one of the statistics service's, or leaves it alone, or is the crash; and
\* it is called with users and dates only.
LEMMA StatsStep ==
  ASSUME JobInv, [Next]_vars
  PROVE  \/ \E r \in Requests : \/ StatsProofs!FindStatistics(r)
                                \/ StatsProofs!ReadActivity(r)
                                \/ StatsProofs!WriteActivity(r)
                                \/ StatsProofs!SaveStatistics(r)
                                \/ \E u \in Users, d \in Dates : StatsProofs!Begin(r, u, d)
         \/ UNCHANGED statsVars
         \/ Crash
<1>1. ASSUME NEW r \in Requests, MarkCompleted(r)
      PROVE  \/ \E u \in Users, d \in Dates : StatsProofs!Begin(r, u, d)
             \/ UNCHANGED statsVars
  <2>1. r \in Live
    BY <1>1 DEF MarkCompleted, Live
  <2>2. req[r].date \in Dates /\ SessionOf(r) \in Sessions
    BY <2>1, LiveIsNotClaimable, ReadRequest DEF JobInv, Owns, ReadRequests
  <2>3. Owner[SessionOf(r)] \in Users
    BY <2>2, OwnerAssumption
  <2>4. Stats!Begin(r, Owner[SessionOf(r)], req[r].date) \/ UNCHANGED statsVars
    BY <1>1 DEF MarkCompleted
  <2>5. \A u, d : Stats!Begin(r, u, d) => StatsProofs!Begin(r, u, d)
    BY DEF Stats!Begin, StatsProofs!Begin, Stats!IdleCall, StatsProofs!IdleCall,
           Stats!EmptyStatistics, StatsProofs!EmptyStatistics
  <2> QED
    BY <2>2, <2>3, <2>4, <2>5
<1>2. ASSUME NEW r \in Requests, RecordWriting(r)
      PROVE  \/ StatsProofs!FindStatistics(r) \/ StatsProofs!ReadActivity(r)
             \/ StatsProofs!WriteActivity(r) \/ StatsProofs!SaveStatistics(r)
  BY <1>2, RecordingIsStep DEF StatsProofs!Step
<1>3. ASSUME NEW r \in Requests,
             Complete(r) \/ Handle(r) \/ StartJob(r) \/ Inspect(r)
               \/ MarkFailed(r) \/ ReleaseSlot(r)
      PROVE  UNCHANGED statsVars
  BY <1>3 DEF Complete, Handle, FindById, ClaimForProcessing, StartJob, Inspect, MarkFailed,
              ReleaseSlot
<1>4. ASSUME NEW s \in Sessions, CreateUploadUrl(s) \/ Upload(s)
      PROVE  UNCHANGED statsVars
  BY <1>4 DEF CreateUploadUrl, Upload
<1>5. Boot \/ UNCHANGED vars => UNCHANGED statsVars
  BY DEF Boot, vars, statsVars
<1> QED
  BY <1>1, <1>2, <1>3, <1>4, <1>5 DEF Next, JobStep

\* A call of recordWriting that dies leaves the tables where it had brought them.
LEMMA CrashKeepsStreak ==
  ASSUME StatsProofs!StreakInv, Crash
  PROVE  StatsProofs!StreakInv'
<1>1. UNCHANGED <<stats, daily>>
  BY DEF Crash
<1>2. \A r \in Requests : rec'[r] = rec[r] \/ rec'[r] = StatsProofs!IdleCall
  BY DEF Crash, Stats!IdleCall, StatsProofs!IdleCall
<1>3. StatsProofs!TypeOK'
  <2>1. rec' \in [Requests -> {StatsProofs!IdleCall} \cup StatsProofs!Calls]
    BY <1>2 DEF Crash, StatsProofs!StreakInv, StatsProofs!TypeOK
  <2> QED
    BY <1>1, <2>1 DEF StatsProofs!StreakInv, StatsProofs!TypeOK, StatsProofs!Calls,
                      StatsProofs!Statistics
<1>4. StatsProofs!StreakWindow'
  BY <1>1 DEF StatsProofs!StreakInv, StatsProofs!StreakWindow, StatsProofs!WindowHolds
<1>5. StatsProofs!IdleCall.pc = "idle"
  BY DEF StatsProofs!IdleCall
<1>6. ASSUME NEW r \in Requests,
             rec'[r].pc \in {"readActivity", "writeActivity", "saveStatistics"}
      PROVE  rec'[r] = rec[r]
  BY <1>2, <1>5, <1>6
<1> QED
  BY <1>1, <1>3, <1>4, <1>6 DEF StatsProofs!StreakInv, StatsProofs!WindowHolds

\* The invariant of the statistics service, in the composition.
LEMMA StreakHolds == Spec => []StatsProofs!StreakInv
<1>1. Init => StatsProofs!Init
  BY DEF Init, Stats!Init, StatsProofs!Init, Stats!IdleCall, StatsProofs!IdleCall,
         Stats!EmptyStatistics, StatsProofs!EmptyStatistics
<1>2. Init => StatsProofs!StreakInv
  BY <1>1, Assumptions, StatsProofs!InitEstablishes
<1>3. StatsProofs!StreakInv /\ JobInv /\ [Next]_vars => StatsProofs!StreakInv'
  <2> SUFFICES ASSUME StatsProofs!StreakInv, JobInv, [Next]_vars
               PROVE  StatsProofs!StreakInv'
    OBVIOUS
  <2>1. ASSUME NEW r \in Requests, NEW u \in Users, NEW d \in Dates, StatsProofs!Begin(r, u, d)
        PROVE  StatsProofs!StreakInv'
    BY <2>1, Assumptions, StatsProofs!BeginPreserves
  <2>2. ASSUME NEW r \in Requests, StatsProofs!FindStatistics(r)
        PROVE  StatsProofs!StreakInv'
    BY <2>2, Assumptions, StatsProofs!FindStatisticsPreserves
  <2>3. ASSUME NEW r \in Requests, StatsProofs!ReadActivity(r)
        PROVE  StatsProofs!StreakInv'
    BY <2>3, Assumptions, StatsProofs!ReadActivityPreserves
  <2>4. ASSUME NEW r \in Requests, StatsProofs!WriteActivity(r)
        PROVE  StatsProofs!StreakInv'
    BY <2>4, Assumptions, StatsProofs!WriteActivityPreserves
  <2>5. ASSUME NEW r \in Requests, StatsProofs!SaveStatistics(r)
        PROVE  StatsProofs!StreakInv'
    BY <2>5, Assumptions, StatsProofs!SaveStatisticsPreserves
  <2>6. CASE UNCHANGED statsVars
    BY <2>6 DEF statsVars, StatsProofs!StreakInv, StatsProofs!TypeOK, StatsProofs!StreakWindow,
                StatsProofs!WindowHolds
  <2> QED
    BY <2>1, <2>2, <2>3, <2>4, <2>5, <2>6, CrashKeepsStreak, StatsStep
<1> QED
  BY <1>2, <1>3, JobInvariant, PTL DEF Spec

(***************************************************************************)
(* Type correctness of the whole: requests, rows and jobs, the limiter     *)
(* that runs the jobs and the statistics they write.                       *)
(***************************************************************************)
THEOREM TypeCorrect == Spec => []TypeOK
<1>1. JobInv => ServiceTypes
  BY DEF JobInv
<1>2. LimiterProofs!LimiterInv => Limiter!TypeOK
  BY DEF LimiterProofs!LimiterInv, LimiterProofs!TypeOK, Limiter!TypeOK,
         LimiterProofs!TaskStates, Limiter!TaskStates
<1>3. StatsProofs!StreakInv => Stats!TypeOK
  BY DEF StatsProofs!StreakInv, StatsProofs!TypeOK, Stats!TypeOK, StatsProofs!Calls, Stats!Calls,
         StatsProofs!Statistics, Stats!Statistics, StatsProofs!IdleCall, Stats!IdleCall,
         StatsProofs!CallStates, Stats!CallStates
<1> QED
  BY <1>1, <1>2, <1>3, JobInvariant, LimiterHolds, StreakHolds, PTL DEF TypeOK

(***************************************************************************)
(* The streak stays backed by grass when recordWriting is driven by        *)
(* concurrent checks that fail, are retried and die with the process.      *)
(***************************************************************************)
THEOREM StreakIsBacked == Spec => []StreakWindow
<1>1. StatsProofs!StreakInv => StreakWindow
  BY DEF StatsProofs!StreakInv, StatsProofs!StreakWindow, StatsProofs!WindowHolds, StreakWindow,
         Stats!StreakWindow, Stats!WindowHolds, Stats!StreakStartDate,
         StatsProofs!StreakStartDate
<1> QED
  BY <1>1, StreakHolds, PTL

-----------------------------------------------------------------------------
(* A session in processing has a check under way. *)

\* The three faults that leave a session in processing behind do not occur.
NothingLeftBehind ==
    Faults \cap {<<"claimForProcessing", "lost">>, <<"markFailed", "error">>,
                 <<"failStaleProcessing", "error">>} = {}

\* A session that was in processing and whose check is still under way.
LEMMA StillUnderWay ==
  ASSUME JobInv, ProcessingHasJob, NEW s \in Sessions, row[s].status = "processing", up,
         \A r \in Live : SessionOf(r) = s => req'[r] = req[r] /\ job'[r].pc \in LiveStates
  PROVE  \E r \in Live' : SessionOf(r)' = s
<1>1. PICK r \in Live : SessionOf(r) = s
  BY DEF ProcessingHasJob
<1>2. r \in Requests /\ req'[r] = req[r] /\ job'[r].pc \in LiveStates
  BY <1>1 DEF Live
<1>3. r \in Live' /\ SessionOf(r)' = s
  BY <1>1, <1>2 DEF Live, LiveStates, SessionOf
<1> QED
  BY <1>3

\* Live checks are in live states, and were asked for by accepted requests.
LEMMA LiveIsAccepted ==
  ASSUME JobInv, NEW r \in Live
  PROVE  r \in Requests /\ job[r].pc \in LiveStates /\ req[r].pc = "accepted"
BY LiveIsNotClaimable DEF Live, LiveStates, Owns

\* A claim either hands its session to a new check, or leaves all rows alone.
LEMMA ClaimHandsOver ==
  ASSUME NothingLeftBehind, JobInv, ProcessingHasJob, NEW r \in Requests,
         ClaimForProcessing(r), NEW s \in Sessions, row'[s].status = "processing"
  PROVE  \E q \in Live' : SessionOf(q)' = s
<1> DEFINE claimed == SessionOf(r)
<1>1. /\ req[r] \in ReadRequests /\ req[r].pc = "claim" /\ claimed \in Sessions /\ up
      /\ row \in [Sessions -> Rows] /\ row[claimed] \in Rows
  BY ReadRequest DEF ClaimForProcessing, JobInv, RequestsAreChecked, ServiceTypes
<1>2. PICK outcome \in Outcomes("claimForProcessing") :
        /\ row' = IF row[claimed].status \in CLAIMABLE_STATUSES /\ outcome # "error"
                  THEN Claimed(r) ELSE row
        /\ IF row[claimed].status \in CLAIMABLE_STATUSES /\ outcome = "ok"
           THEN /\ req' = [req EXCEPT ![r].pc = "accepted"]
                /\ job' = [job EXCEPT ![r].pc = "inspect"]
           ELSE /\ req' = [req EXCEPT ![r] = Refused]
                /\ UNCHANGED job
  BY DEF ClaimForProcessing
<1>3. outcome # "lost"
  BY DEF NothingLeftBehind, Outcomes
<1>4. outcome \in {"ok", "error"}
  BY <1>3 DEF Outcomes
<1>5. ASSUME NEW q \in Live
      PROVE  req'[q] = req[q] /\ job'[q].pc \in LiveStates
  <2>1. q \in Requests /\ q # r /\ job[q].pc \in LiveStates
    BY <1>1, LiveIsAccepted
  <2> QED
    BY <1>2, <2>1 DEF JobInv, ServiceTypes
<1>6. CASE row[s].status = "processing"
  BY <1>1, <1>5, <1>6, StillUnderWay
<1>7. CASE row[s].status # "processing"
  <2>1. row' = Claimed(r) /\ s = claimed
    BY <1>1, <1>2, <1>7 DEF Claimed
  <2>2. outcome = "ok" /\ row[claimed].status \in CLAIMABLE_STATUSES
    BY <1>2, <1>4, <1>7, <2>1
  <2>3. job'[r].pc = "inspect" /\ req'[r].session = req[r].session
    BY <1>1, <1>2, <2>2 DEF JobInv, ServiceTypes, ReadRequests
  <2> QED
    BY <2>1, <2>3 DEF Live, SessionOf
<1> QED
  BY <1>6, <1>7

\* A check that ends, or breaks down, takes its session out of processing.
LEMMA JobHandsOver ==
  ASSUME NothingLeftBehind, JobInv, ProcessingHasJob, up, NEW r \in Requests, JobStep(r),
         NEW s \in Sessions, row'[s].status = "processing"
  PROVE  \E q \in Live' : SessionOf(q)' = s
<1>1. UNCHANGED <<req, up>>
  BY DEF JobStep, StartJob, Inspect, MarkCompleted, RecordWriting, MarkFailed, ReleaseSlot
<1>2. row \in [Sessions -> Rows] /\ job \in [Requests -> [pc : JobStates, passed : BOOLEAN]]
  BY DEF JobInv, ServiceTypes
<1>3. ASSUME NEW q \in Requests, q # r
      PROVE  job'[q] = job[q]
  BY <1>2, <1>3 DEF JobStep, StartJob, Inspect, MarkCompleted, RecordWriting, MarkFailed,
                    ReleaseSlot
<1>4. r \in Live => SessionOf(r) \in Sessions /\ row[SessionOf(r)] \in Rows /\ Owns(r)
  BY <1>2, LiveIsNotClaimable
<1>5. /\ row[s].status = "processing"
      /\ r \in Live /\ SessionOf(r) = s => job'[r].pc \in LiveStates
  <2>1. CASE StartJob(r) \/ ReleaseSlot(r)
    BY <2>1, LiveIsAccepted DEF StartJob, ReleaseSlot
  <2>2. CASE Inspect(r)
    BY <1>2, <2>2 DEF Inspect, LiveStates
  <2>3. CASE MarkCompleted(r)
    <3>1. r \in Live
      BY <2>3 DEF MarkCompleted, Live
    <3>2. PICK outcome \in Outcomes("markCompleted") :
            /\ row' = IF outcome = "error" THEN row ELSE Completed(r)
            /\ job' = [job EXCEPT ![r].pc = IF outcome # "ok" THEN "markFailed"
                                            ELSE IF job[r].passed THEN "recordWriting"
                                            ELSE "ended"]
      BY <2>3 DEF MarkCompleted
    <3>3. row[s].status = "processing"
      BY <1>2, <1>4, <3>1, <3>2 DEF Completed
    <3>4. SessionOf(r) = s => outcome = "error"
      BY <1>2, <1>4, <3>1, <3>2 DEF Completed
    <3> QED
      BY <1>2, <3>2, <3>3, <3>4 DEF LiveStates
  <2>4. CASE RecordWriting(r)
    <3>1. r \in Live /\ job[r].pc = "recordWriting" /\ row' = row
      BY <2>4 DEF RecordWriting, Live
    <3> QED
      BY <1>4, <3>1 DEF Owns
  <2>5. CASE MarkFailed(r)
    <3>1. r \in Live
      BY <2>5 DEF MarkFailed, Live
    <3>2. "error" \notin Outcomes("markFailed")
      BY DEF NothingLeftBehind, Outcomes
    <3>3. row' = Failed(SessionOf(r))
      BY <2>5, <3>2 DEF MarkFailed
    <3> QED
      BY <1>2, <1>4, <3>1, <3>3 DEF Failed
  <2> QED
    BY <2>1, <2>2, <2>3, <2>4, <2>5 DEF JobStep
<1>6. ASSUME NEW q \in Live, SessionOf(q) = s
      PROVE  req'[q] = req[q] /\ job'[q].pc \in LiveStates
  BY <1>1, <1>3, <1>5, <1>6, LiveIsAccepted
<1> QED
  BY <1>5, <1>6, StillUnderWay

(***************************************************************************)
(* While the process runs, a session in processing has a check under way   *)
(* that will end it, unless the answer to a claim is lost, or markFailed   *)
(* or the sweep fails: for any number of requests, crashes and all other   *)
(* failures.                                                               *)
(***************************************************************************)
THEOREM ProcessingIsHandedOver ==
  ASSUME NothingLeftBehind
  PROVE  Spec => []ProcessingHasJob
<1>1. Init => ProcessingHasJob
  BY DEF Init, NoRow, ProcessingHasJob
<1>2. JobInv /\ ProcessingHasJob /\ [Next]_vars => ProcessingHasJob'
  <2> SUFFICES ASSUME JobInv, ProcessingHasJob, [Next]_vars, up',
                      NEW s \in Sessions, row'[s].status = "processing"
               PROVE  \E r \in Live' : SessionOf(r)' = s
    BY DEF ProcessingHasJob
  <2>1. row \in [Sessions -> Rows]
    BY DEF JobInv, ServiceTypes
  <2>2. ASSUME NEW x \in Sessions, CreateUploadUrl(x) \/ Upload(x)
        PROVE  row[s].status = "processing" /\ UNCHANGED <<req, job, up>>
    <3>1. UNCHANGED <<req, job, up>> /\ (row' = row \/ row' = Created(x))
      BY <2>2 DEF CreateUploadUrl, Upload
    <3>2. row'[s] = row[s] \/ row'[s] = [row[s] EXCEPT !.status = "pending"]
      BY <2>1, <3>1 DEF Created
    <3>3. [row[s] EXCEPT !.status = "pending"].status = "pending"
      BY <2>1 DEF Rows
    <3> QED
      BY <3>1, <3>2, <3>3
  <2>3. ASSUME NEW r \in Requests, Complete(r) \/ FindById(r)
        PROVE  /\ UNCHANGED <<row, job, up>>
               /\ \A q \in Live : req'[q] = req[q]
    <3>1. req[r].pc # "accepted"
      <4>1. Complete(r) => req[r].pc = "idle"
        BY DEF Complete, NoRequest
      <4>2. FindById(r) => req[r].pc = "findById"
        BY DEF FindById
      <4> QED
        BY <2>3, <4>1, <4>2
    <3>2. \A q \in Requests \ {r} : req'[q] = req[q]
      BY <2>3 DEF Complete, FindById, JobInv, ServiceTypes
    <3> QED
      BY <2>3, <3>1, <3>2, LiveIsAccepted DEF Complete, FindById
  <2>4. ASSUME UNCHANGED <<job, up>>, row[s].status = "processing",
               \A q \in Live : req'[q] = req[q]
        PROVE  \E r \in Live' : SessionOf(r)' = s
    BY <2>4, LiveIsAccepted, StillUnderWay
  <2>5. ASSUME NEW r \in Requests, Handle(r)
        PROVE  \E q \in Live' : SessionOf(q)' = s
    BY <2>3, <2>4, <2>5, ClaimHandsOver DEF Handle
  <2>6. ASSUME NEW r \in Requests, JobStep(r)
        PROVE  \E q \in Live' : SessionOf(q)' = s
    <3>1. up' = up
      BY <2>6 DEF JobStep, StartJob, Inspect, MarkCompleted, RecordWriting, MarkFailed,
                  ReleaseSlot
    <3> QED
      BY <2>6, <3>1, JobHandsOver
  <2>7. ~Crash
    BY DEF Crash
  <2>8. ~Boot
    <3>1. "error" \notin Outcomes("failStaleProcessing")
      BY DEF NothingLeftBehind, Outcomes
    <3> QED
      BY <2>1, <3>1 DEF Boot, StaleFailed, Rows
  <2>9. CASE UNCHANGED vars
    BY <2>4, <2>9 DEF vars
  <2> QED
    BY <2>2, <2>3, <2>4, <2>5, <2>6, <2>7, <2>8, <2>9 DEF Next
<1> QED
  BY <1>1, <1>2, JobInvariant, PTL DEF Spec

-----------------------------------------------------------------------------
(* The documented lifecycle. *)

(***************************************************************************)
(* A verdict that was stored is never followed by a failure of the job:    *)
(* its answer is not lost, and recordWriting does not throw.               *)
(***************************************************************************)
VerdictsStand ==
    /\ <<"markCompleted", "lost">> \notin Faults
    /\ \A op \in {"findStatistics", "readActivity", "writeActivity", "saveStatistics"} :
          <<op, "error">> \notin Faults /\ <<op, "lost">> \notin Faults

\* So a job that failed has left its session in processing.
FailedBeforeVerdict ==
    \A r \in Requests : job[r].pc = "markFailed" => row[SessionOf(r)].status = "processing"

\* With no such failures recordWriting returns.
LEMMA RecordingReturns ==
  ASSUME VerdictsStand, StatsProofs!StreakInv, NEW r \in Requests, RecordWriting(r)
  PROVE  rec'[r].pc # "failed"
<1>1. /\ Stats!Outcomes("findStatistics") = {"ok"} /\ Stats!Outcomes("readActivity") = {"ok"}
      /\ Stats!Outcomes("writeActivity") = {"ok"} /\ Stats!Outcomes("saveStatistics") = {"ok"}
  BY DEF VerdictsStand, Stats!Outcomes
<1>2. Stats!Step(r)
  BY DEF RecordWriting
<1>3. rec \in [Requests -> {StatsProofs!IdleCall} \cup StatsProofs!Calls]
  BY DEF StatsProofs!StreakInv, StatsProofs!TypeOK
<1>4. rec[r] # StatsProofs!IdleCall
  BY <1>2 DEF Stats!Step, Stats!FindStatistics, Stats!ReadActivity, Stats!WriteActivity,
              Stats!SaveStatistics, StatsProofs!IdleCall
<1>5. rec[r] \in StatsProofs!Calls
  BY <1>3, <1>4
<1>6. CASE Stats!FindStatistics(r)
  <2>1. rec'[r] = [rec[r] EXCEPT !.pc = "readActivity", !.existing = stats[rec[r].user]]
    BY <1>1, <1>3, <1>6 DEF Stats!FindStatistics
  <2> QED
    BY <1>5, <2>1 DEF StatsProofs!Calls
<1>7. CASE Stats!ReadActivity(r)
  <2>1. rec'[r] = [rec[r] EXCEPT !.pc = "writeActivity",
                                 !.count = daily[rec[r].user][rec[r].today]]
    BY <1>1, <1>3, <1>7 DEF Stats!ReadActivity
  <2> QED
    BY <1>5, <2>1 DEF StatsProofs!Calls
<1>8. CASE Stats!WriteActivity(r)
  BY <1>1, <1>3, <1>5, <1>8 DEF Stats!WriteActivity, Stats!Advance, StatsProofs!Calls
<1>9. CASE Stats!SaveStatistics(r)
  BY <1>1, <1>3, <1>5, <1>9 DEF Stats!SaveStatistics, Stats!Return, StatsProofs!Calls
<1> QED
  BY <1>2, <1>6, <1>7, <1>8, <1>9 DEF Stats!Step

\* Whose step moves a job on.
LEMMA JobStepOf ==
  ASSUME JobInv, [Next]_vars, NEW r \in Requests
  PROVE  \/ job'[r] = job[r]
         \/ ClaimForProcessing(r) \/ Inspect(r) \/ MarkCompleted(r)
         \/ RecordWriting(r) \/ MarkFailed(r) \/ Crash
<1>1. job \in [Requests -> [pc : JobStates, passed : BOOLEAN]]
  BY DEF JobInv, ServiceTypes
<1>2. ASSUME NEW q \in Requests, q # r, ClaimForProcessing(q) \/ JobStep(q)
      PROVE  job'[r] = job[r]
  BY <1>1, <1>2 DEF ClaimForProcessing, JobStep, StartJob, Inspect, MarkCompleted,
                    RecordWriting, MarkFailed, ReleaseSlot
<1>3. ASSUME NEW q \in Requests, Complete(q) \/ FindById(q) \/ StartJob(q) \/ ReleaseSlot(q)
      PROVE  job' = job
  BY <1>3 DEF Complete, FindById, StartJob, ReleaseSlot
<1>4. ASSUME NEW s \in Sessions, CreateUploadUrl(s) \/ Upload(s)
      PROVE  job' = job
  BY <1>4 DEF CreateUploadUrl, Upload
<1>5. Boot \/ UNCHANGED vars => job' = job
  BY DEF Boot, vars
<1> QED
  BY <1>2, <1>3, <1>4, <1>5 DEF Next, Handle, JobStep

\* Only its own check writes the row of a session that is being checked.
LEMMA RowStepOf ==
  ASSUME JobInv, [Next]_vars, NEW r \in Live
  PROVE  \/ row'[SessionOf(r)] = row[SessionOf(r)]
         \/ MarkCompleted(r) \/ MarkFailed(r)
<1> DEFINE s == SessionOf(r)
<1>1. /\ r \in Requests /\ s \in Sessions /\ up /\ row \in [Sessions -> Rows]
      /\ row[s].status \in {"processing", "completed"}
  BY LiveIsNotClaimable DEF JobInv, ServiceTypes, Owns
<1> HIDE DEF s
<1>2. ASSUME NEW x \in Sessions, CreateUploadUrl(x)
      PROVE  row'[s] = row[s]
  BY <1>1, <1>2 DEF CreateUploadUrl, Created
<1>3. ASSUME NEW q \in Requests, ClaimForProcessing(q)
      PROVE  row'[s] = row[s]
  BY <1>1, <1>3 DEF ClaimForProcessing, Claimed, CLAIMABLE_STATUSES
<1>4. ASSUME NEW q \in Requests, q # r, MarkCompleted(q) \/ MarkFailed(q)
      PROVE  row'[s] = row[s]
  <2>1. q \in Live
    BY <1>4 DEF MarkCompleted, MarkFailed, Live
  <2>2. SessionOf(q) # s
    BY <1>4, <2>1 DEF JobInv, OneJobPerSession, s
  <2> QED
    BY <1>1, <1>4, <2>2 DEF MarkCompleted, MarkFailed, Completed, Failed
<1>5. ASSUME NEW q \in Requests,
             Complete(q) \/ FindById(q) \/ StartJob(q) \/ Inspect(q) \/ RecordWriting(q)
               \/ ReleaseSlot(q)
      PROVE  row' = row
  BY <1>5 DEF Complete, FindById, StartJob, Inspect, RecordWriting, ReleaseSlot
<1>6. ASSUME NEW x \in Sessions, Upload(x)
      PROVE  row' = row
  BY <1>6 DEF Upload
<1>7. ~Boot /\ (Crash \/ UNCHANGED vars => row' = row)
  BY <1>1 DEF Boot, Crash, vars
<1> QED
  BY <1>2, <1>3, <1>4, <1>5, <1>6, <1>7 DEF Next, Handle, JobStep, s

\* A job fails in its inspection, or storing its verdict: its session stays in processing.
LEMMA FailureStep ==
  ASSUME VerdictsStand, JobInv, StatsProofs!StreakInv, FailedBeforeVerdict, [Next]_vars,
         NEW r \in Requests, job'[r].pc = "markFailed"
  PROVE  row'[SessionOf(r)].status = "processing" /\ SessionOf(r)' = SessionOf(r)
<1>1. job \in [Requests -> [pc : JobStates, passed : BOOLEAN]] /\ row \in [Sessions -> Rows]
  BY DEF JobInv, ServiceTypes
<1>2. ~Crash /\ ~ClaimForProcessing(r) /\ ~MarkFailed(r)
  <2>1. Crash => job'[r].pc = "none"
    BY DEF Crash, NoJob
  <2>2. ClaimForProcessing(r) => job'[r].pc = "inspect" \/ job' = job
    BY <1>1 DEF ClaimForProcessing
  <2>3. MarkFailed(r) => job'[r].pc = "ended"
    BY <1>1 DEF MarkFailed
  <2>4. ClaimForProcessing(r) => job[r].pc # "markFailed"
    <3>1. r \in Live => req[r].pc = "accepted"
      BY LiveIsAccepted
    <3> QED
      BY <3>1 DEF ClaimForProcessing, Live
  <2> QED
    BY <2>1, <2>2, <2>3, <2>4
<1>3. ~RecordWriting(r)
  <2>1. RecordWriting(r) => rec'[r].pc # "failed" /\ job[r].pc = "recordWriting"
    BY RecordingReturns DEF RecordWriting
  <2>2. RecordWriting(r) => job'[r].pc \in {"ended", "recordWriting"}
    BY <1>1, <2>1 DEF RecordWriting
  <2> QED
    BY <2>2
<1>4. CASE Inspect(r)
  <2>1. r \in Live /\ job[r].pc = "inspect" /\ row' = row /\ req' = req
    BY <1>4 DEF Inspect, Live
  <2> QED
    BY <2>1, LiveIsNotClaimable DEF Owns, SessionOf
<1>5. CASE MarkCompleted(r)
  <2>1. r \in Live /\ job[r].pc = "markCompleted" /\ req' = req
    BY <1>5 DEF MarkCompleted, Live
  <2>2. PICK outcome \in Outcomes("markCompleted") :
          /\ row' = IF outcome = "error" THEN row ELSE Completed(r)
          /\ job' = [job EXCEPT ![r].pc = IF outcome # "ok" THEN "markFailed"
                                          ELSE IF job[r].passed THEN "recordWriting"
                                          ELSE "ended"]
    BY <1>5 DEF MarkCompleted
  <2>3. outcome # "ok"
    BY <1>1, <2>2
  <2>4. outcome = "error"
    BY <2>3 DEF VerdictsStand, Outcomes
  <2> QED
    BY <2>1, <2>2, <2>4, LiveIsNotClaimable DEF Owns, SessionOf
<1>6. CASE job'[r] = job[r] /\ ~MarkCompleted(r)
  <2>1. r \in Live /\ row[SessionOf(r)].status = "processing"
    BY <1>6 DEF FailedBeforeVerdict, Live
  <2>2. row'[SessionOf(r)] = row[SessionOf(r)]
    BY <1>2, <1>6, <2>1, RowStepOf
  <2>3. req'[r] = req[r]
    BY <2>1, RequestStays
  <2> QED
    BY <2>1, <2>2, <2>3 DEF SessionOf
<1> QED
  BY <1>2, <1>3, <1>4, <1>5, <1>6, JobStepOf

LEMMA FailuresComeFirst ==
  ASSUME VerdictsStand
  PROVE  Spec => []FailedBeforeVerdict
<1>1. Init => FailedBeforeVerdict
  BY DEF Init, FailedBeforeVerdict, NoJob
<1>2. JobInv /\ StatsProofs!StreakInv /\ FailedBeforeVerdict /\ [Next]_vars
        => FailedBeforeVerdict'
  BY FailureStep DEF FailedBeforeVerdict
<1> QED
  BY <1>1, <1>2, JobInvariant, StreakHolds, PTL DEF Spec

\* What a poll shows of all sessions.
StatusShown == [s \in Sessions |-> row[s].status]
PassedShown == [s \in Sessions |-> row[s].passed]

\* A step that changes the row of one session.
LEMMA OneRowShown ==
  ASSUME row \in [Sessions -> Rows], NEW s \in Sessions, NEW n \in Rows,
         row' = [row EXCEPT ![s] = n]
  PROVE  /\ StatusShown' = [StatusShown EXCEPT ![s] = n.status]
         /\ PassedShown' = [PassedShown EXCEPT ![s] = n.passed]
BY DEF StatusShown, PassedShown

LEMMA LifecycleStep ==
  ASSUME JobInv, FailedBeforeVerdict, [Next]_vars, row' # row
  PROVE  Lifecycle!Next \/ UNCHANGED <<StatusShown, PassedShown>>
<1>1. row \in [Sessions -> Rows] /\ \A s \in Sessions : row[s] \in Rows
  BY DEF JobInv, ServiceTypes
<1>2. ASSUME NEW s \in Sessions
      PROVE  StatusShown[s] = row[s].status /\ PassedShown[s] = row[s].passed
  BY DEF StatusShown, PassedShown
<1>3. ASSUME NEW s \in Sessions, CreateUploadUrl(s)
      PROVE  Lifecycle!Create(s)
  <2> DEFINE n == [row[s] EXCEPT !.status = "pending"]
  <2>1. row' = [row EXCEPT ![s] = n] /\ row[s].status = "absent"
    BY <1>3 DEF CreateUploadUrl, Created
  <2>2. n \in Rows /\ n.status = "pending" /\ n.passed = row[s].passed
    BY <1>1 DEF Rows, Statuses
  <2> HIDE DEF n
  <2> QED
    BY <1>1, <1>2, <2>1, <2>2, OneRowShown DEF Lifecycle!Create, StatusShown, PassedShown
<1>4. ASSUME NEW r \in Requests, ClaimForProcessing(r)
      PROVE  \E s \in Sessions : Lifecycle!BeginCheck(s)
  <2>1. req[r] \in ReadRequests /\ SessionOf(r) \in Sessions
    BY <1>4, ReadRequest DEF ClaimForProcessing, JobInv
  <2>2. PICK s \in Sessions : s = SessionOf(r)
    BY <2>1
  <2> DEFINE n == [row[s] EXCEPT !.status = "processing", !.clientDate = req[r].date,
                                 !.keyVerse = req[r].keyVerse]
  <2>3. row' = [row EXCEPT ![s] = n] /\ row[s].status \in CLAIMABLE_STATUSES
    BY <1>4, <2>2 DEF ClaimForProcessing, Claimed
  <2>4. n \in Rows /\ n.status = "processing" /\ n.passed = row[s].passed
    BY <1>1, <2>1 DEF Rows, Statuses, ReadRequests
  <2>5. row[s].status \in {"pending", "failed"}
    BY <1>1, <2>3 DEF Rows, Statuses, CLAIMABLE_STATUSES
  <2> HIDE DEF n
  <2>6. Lifecycle!BeginCheck(s)
    BY <1>1, <1>2, <2>3, <2>4, <2>5, OneRowShown
       DEF Lifecycle!BeginCheck, StatusShown, PassedShown
  <2> QED
    BY <2>6
<1>5. ASSUME NEW r \in Requests, MarkCompleted(r)
      PROVE  \E s \in Sessions : Lifecycle!Decide(s)
  <2>1. r \in Live
    BY <1>5 DEF MarkCompleted, Live
  <2>2. PICK s \in Sessions : s = SessionOf(r)
    BY <2>1, LiveIsNotClaimable
  <2> DEFINE n == [row[s] EXCEPT !.status = "completed", !.passed = job[r].passed]
  <2>3. row[s].status = "processing" /\ job[r].passed \in BOOLEAN
    BY <1>5, <2>1, <2>2, LiveIsNotClaimable DEF Owns, MarkCompleted, JobInv, ServiceTypes
  <2>4. row' = [row EXCEPT ![s] = n]
    BY <1>5, <2>2 DEF MarkCompleted, Completed
  <2>5. n \in Rows /\ n.status = "completed" /\ n.passed = job[r].passed
    BY <1>1, <2>3 DEF Rows, Statuses
  <2> HIDE DEF n
  <2>6. Lifecycle!Decide(s)
    BY <1>1, <1>2, <2>3, <2>4, <2>5, OneRowShown
       DEF Lifecycle!Decide, StatusShown, PassedShown
  <2> QED
    BY <2>6
<1>6. ASSUME NEW r \in Requests, MarkFailed(r)
      PROVE  \E s \in Sessions : Lifecycle!BreakDown({s})
  <2>1. r \in Live
    BY <1>6 DEF MarkFailed, Live
  <2>2. PICK s \in Sessions : s = SessionOf(r)
    BY <2>1, LiveIsNotClaimable
  <2> DEFINE n == [row[s] EXCEPT !.status = "failed"]
  <2>3. row[s].status = "processing"
    BY <1>6, <2>2 DEF MarkFailed, FailedBeforeVerdict
  <2>4. row' = [row EXCEPT ![s] = n]
    BY <1>6, <2>2 DEF MarkFailed, Failed
  <2>5. n \in Rows /\ n.status = "failed" /\ n.passed = row[s].passed
    BY <1>1 DEF Rows, Statuses
  <2> HIDE DEF n
  <2>6. StatusShown' = [x \in Sessions |-> IF x \in {s} THEN "failed" ELSE StatusShown[x]]
    BY <1>1, <2>4, <2>5, OneRowShown DEF StatusShown
  <2>7. PassedShown' = PassedShown
    BY <1>1, <1>2, <2>4, <2>5, OneRowShown DEF PassedShown
  <2> QED
    BY <1>2, <2>3, <2>6, <2>7 DEF Lifecycle!BreakDown, StatusShown, PassedShown
<1>7. CASE Boot
  <2> DEFINE P == {s \in Sessions : row[s].status = "processing"}
  <2>1. PICK S \in SUBSET Sessions : S = P
    OBVIOUS
  <2>2. \A s \in Sessions : row'[s] = IF row[s].status = "processing"
                                      THEN [row[s] EXCEPT !.status = "failed"] ELSE row[s]
    BY <1>7 DEF Boot, StaleFailed
  <2>3. \A s \in Sessions : /\ [row[s] EXCEPT !.status = "failed"].status = "failed"
                            /\ [row[s] EXCEPT !.status = "failed"].passed = row[s].passed
    BY <1>1 DEF Rows
  <2>4. /\ StatusShown' = [s \in Sessions |-> IF s \in S THEN "failed" ELSE StatusShown[s]]
        /\ PassedShown' = PassedShown
    BY <2>1, <2>2, <2>3 DEF StatusShown, PassedShown
  <2>5. S # {}
    <3> SUFFICES ASSUME S = {} PROVE FALSE
      OBVIOUS
    <3>1. \A s \in Sessions : row[s].status # "processing"
      BY <2>1
    <3>2. row' = [s \in Sessions |-> row[s]]
      BY <1>1, <1>7, <3>1 DEF Boot, StaleFailed
    <3> QED
      BY <1>1, <3>2
  <2>6. Lifecycle!BreakDown(S)
    BY <1>2, <2>1, <2>4, <2>5 DEF Lifecycle!BreakDown, StatusShown, PassedShown
  <2> QED
    BY <2>6 DEF Lifecycle!Next
<1>8. ASSUME NEW r \in Requests,
             Complete(r) \/ FindById(r) \/ StartJob(r) \/ Inspect(r) \/ RecordWriting(r)
               \/ ReleaseSlot(r)
      PROVE  row' = row
  BY <1>8 DEF Complete, FindById, StartJob, Inspect, RecordWriting, ReleaseSlot
<1>9. ASSUME NEW x \in Sessions, Upload(x)
      PROVE  row' = row
  BY <1>9 DEF Upload
<1>10. ~Crash /\ ~UNCHANGED vars
  BY DEF Crash, vars
<1>11. \/ \E s \in Sessions : CreateUploadUrl(s)
       \/ \E r \in Requests : ClaimForProcessing(r) \/ MarkCompleted(r) \/ MarkFailed(r)
       \/ Boot
  BY <1>8, <1>9, <1>10 DEF Next, Handle, JobStep
<1>12. ASSUME NEW S \in SUBSET Sessions, Lifecycle!BreakDown(S)
       PROVE  Lifecycle!Next
  BY <1>12 DEF Lifecycle!Next
<1>13. ASSUME NEW r \in Requests,
              ClaimForProcessing(r) \/ MarkCompleted(r) \/ MarkFailed(r)
       PROVE  Lifecycle!Next
  <2>1. CASE ClaimForProcessing(r) \/ MarkCompleted(r)
    BY <1>4, <1>5, <2>1 DEF Lifecycle!Next
  <2>2. CASE MarkFailed(r)
    <3>1. PICK s \in Sessions : Lifecycle!BreakDown({s})
      BY <1>6, <2>2
    <3> QED
      BY <1>12, <3>1
  <2> QED
    BY <1>13, <2>1, <2>2
<1>14. ASSUME NEW s \in Sessions, CreateUploadUrl(s)
       PROVE  Lifecycle!Next
  BY <1>3, <1>14 DEF Lifecycle!Next
<1> QED
  BY <1>7, <1>11, <1>13, <1>14

(***************************************************************************)
(* What a polling client sees is the documented lifecycle: a session goes  *)
(* from one check to the next until one decides it, once and for all;      *)
(* provided that no stored verdict is followed by a failure of its job     *)
(* (MCWritingCountedTwice shows what happens otherwise).                   *)
(***************************************************************************)
THEOREM PollsShowTheLifecycle ==
  ASSUME VerdictsStand
  PROVE  Spec => ImplementsLifecycle
<1>1. Init => Lifecycle!Init
  BY DEF Init, NoRow, Lifecycle!Init
<1>2. JobInv /\ FailedBeforeVerdict /\ [Next]_vars
        => [Lifecycle!Next]_<<StatusShown, PassedShown>>
  <2>1. row' = row => UNCHANGED <<StatusShown, PassedShown>>
    BY DEF StatusShown, PassedShown
  <2> QED
    BY <2>1, LifecycleStep
<1> QED
  BY <1>1, <1>2, JobInvariant, FailuresComeFirst, PTL
     DEF Spec, ImplementsLifecycle, Lifecycle!Spec, StatusShown, PassedShown

-----------------------------------------------------------------------------
(* Grass and passed writings. *)

\* A completed session keeps its row, once no check fails after its verdict.
LEMMA CompletedStays ==
  ASSUME JobInv, FailedBeforeVerdict, [Next]_vars, NEW s \in Sessions,
         row[s].status = "completed"
  PROVE  row'[s] = row[s]
<1>1. row \in [Sessions -> Rows]
  BY DEF JobInv, ServiceTypes
<1>2. ASSUME NEW x \in Sessions, CreateUploadUrl(x) PROVE row'[s] = row[s]
  BY <1>1, <1>2 DEF CreateUploadUrl, Created
<1>3. ASSUME NEW r \in Requests, ClaimForProcessing(r) PROVE row'[s] = row[s]
  BY <1>1, <1>3 DEF ClaimForProcessing, Claimed, CLAIMABLE_STATUSES
<1>4. ASSUME NEW r \in Requests, MarkCompleted(r) PROVE row'[s] = row[s]
  <2>1. r \in Live /\ job[r].pc = "markCompleted"
    BY <1>4 DEF MarkCompleted, Live
  <2>2. SessionOf(r) # s
    BY <2>1, LiveIsNotClaimable DEF Owns
  <2> QED
    BY <1>1, <1>4, <2>2 DEF MarkCompleted, Completed
<1>5. ASSUME NEW r \in Requests, MarkFailed(r) PROVE row'[s] = row[s]
  <2>1. SessionOf(r) # s
    BY <1>5 DEF MarkFailed, FailedBeforeVerdict
  <2> QED
    BY <1>1, <1>5, <2>1 DEF MarkFailed, Failed
<1>6. CASE Boot
  BY <1>6 DEF Boot, StaleFailed
<1>7. ASSUME NEW r \in Requests,
             Complete(r) \/ FindById(r) \/ StartJob(r) \/ Inspect(r) \/ RecordWriting(r)
               \/ ReleaseSlot(r)
      PROVE  row' = row
  BY <1>7 DEF Complete, FindById, StartJob, Inspect, RecordWriting, ReleaseSlot
<1>8. ASSUME NEW x \in Sessions, Upload(x) PROVE row' = row
  BY <1>8 DEF Upload
<1>9. Crash \/ UNCHANGED vars => row' = row
  BY DEF Crash, vars
<1> QED
  BY <1>2, <1>3, <1>4, <1>5, <1>6, <1>7, <1>8, <1>9 DEF Next, Handle, JobStep

\* A session passes when its check stores that it did.
LEMMA PassesOnce ==
  ASSUME JobInv, [Next]_vars, NEW s \in Sessions, row'[s].passed, ~row[s].passed
  PROVE  \E r \in Requests : /\ MarkCompleted(r) /\ job[r].passed
                             /\ SessionOf(r) = s /\ row' = Completed(r)
<1>1. row \in [Sessions -> Rows] /\ row[s] \in Rows
  BY DEF JobInv, ServiceTypes
<1>2. ASSUME NEW x \in Sessions, CreateUploadUrl(x) PROVE FALSE
  <2>1. row'[s] = row[s] \/ row'[s] = [row[s] EXCEPT !.status = "pending"]
    BY <1>1, <1>2 DEF CreateUploadUrl, Created
  <2> QED
    BY <1>1, <2>1 DEF Rows
<1>3. ASSUME NEW r \in Requests, ClaimForProcessing(r) PROVE FALSE
  <2>1. \/ row'[s] = row[s]
        \/ row'[s] = [row[s] EXCEPT !.status = "processing", !.clientDate = req[r].date,
                                    !.keyVerse = req[r].keyVerse]
    BY <1>1, <1>3 DEF ClaimForProcessing, Claimed
  <2> QED
    BY <1>1, <2>1 DEF Rows
<1>4. ASSUME NEW r \in Requests, MarkCompleted(r)
      PROVE  job[r].passed /\ SessionOf(r) = s /\ row' = Completed(r)
  <2>1. row' = Completed(r) /\ SessionOf(r) = s
    BY <1>1, <1>4 DEF MarkCompleted, Completed
  <2>2. row'[s] = [row[s] EXCEPT !.status = "completed", !.passed = job[r].passed]
    BY <1>1, <2>1 DEF Completed
  <2> QED
    BY <1>1, <2>1, <2>2 DEF Rows
<1>5. ASSUME NEW r \in Requests, MarkFailed(r) PROVE FALSE
  <2>1. row'[s] = row[s] \/ row'[s] = [row[s] EXCEPT !.status = "failed"]
    BY <1>1, <1>5 DEF MarkFailed, Failed
  <2> QED
    BY <1>1, <2>1 DEF Rows
<1>6. ~Boot
  <2>1. Boot => row'[s] = row[s] \/ row'[s] = [row[s] EXCEPT !.status = "failed"]
    BY DEF Boot, StaleFailed
  <2> QED
    BY <1>1, <2>1 DEF Rows
<1>7. ASSUME NEW r \in Requests,
             Complete(r) \/ FindById(r) \/ StartJob(r) \/ Inspect(r) \/ RecordWriting(r)
               \/ ReleaseSlot(r)
      PROVE  row' = row
  BY <1>7 DEF Complete, FindById, StartJob, Inspect, RecordWriting, ReleaseSlot
<1>8. ASSUME NEW x \in Sessions, Upload(x) PROVE row' = row
  BY <1>8 DEF Upload
<1>9. Crash \/ UNCHANGED vars => row' = row
  BY DEF Crash, vars
<1>10. row' # row
  OBVIOUS
<1> QED
  BY <1>2, <1>3, <1>4, <1>5, <1>6, <1>7, <1>8, <1>9, <1>10 DEF Next, Handle, JobStep

\* But for the crash, a step is one of the calls of recordWriting or leaves them alone.
LEMMA CallStep ==
  ASSUME JobInv, [Next]_vars, ~Crash
  PROVE  \/ \E r \in Requests : \/ StatsProofs!Step(r)
                                \/ \E u \in Users, day \in Dates : StatsProofs!Begin(r, u, day)
         \/ UNCHANGED statsVars
BY StatsStep DEF StatsProofs!Step

\* Counts above zero stay so, in the composition.
LEMMA CountsStayPositive ==
  ASSUME JobInv, StatsProofs!StreakInv, [Next]_vars, NEW u \in Users
  PROVE  /\ \A day \in Dates : daily[u][day] > 0 => daily'[u][day] > 0
         /\ stats[u].totalCount > 0 => stats'[u].totalCount > 0
<1>1. CASE Crash \/ UNCHANGED statsVars
  BY <1>1 DEF Crash, statsVars
<1>2. ASSUME NEW r \in Requests,
             \/ StatsProofs!Step(r)
             \/ \E x \in Users, day \in Dates : StatsProofs!Begin(r, x, day)
      PROVE  /\ \A day \in Dates : daily[u][day] > 0 => daily'[u][day] > 0
             /\ stats[u].totalCount > 0 => stats'[u].totalCount > 0
  <2>1. StatsProofs!TypeOK
    BY DEF StatsProofs!StreakInv
  <2>2. rec[r].pc \in StatsProofs!CallStates =>
           rec[r].existing.totalCount \in Nat /\ rec[r].count \in Nat
    BY <2>1, Assumptions, StatsProofs!ActiveCall DEF StatsProofs!Calls, StatsProofs!Statistics
  <2>3. /\ stats' # stats => /\ rec[r].pc = "saveStatistics"
                             /\ \A x \in Users \ {rec[r].user} : stats'[x] = stats[x]
                             /\ stats'[rec[r].user].totalCount = rec[r].existing.totalCount + 1
        /\ daily' # daily =>
              /\ rec[r].pc = "writeActivity"
              /\ \A x \in Users, d \in Dates :
                    x # rec[r].user \/ d # rec[r].today => daily'[x][d] = daily[x][d]
              /\ daily'[rec[r].user][rec[r].today] = rec[r].count + 1
    BY <1>2, <2>1, Assumptions, StatsProofs!StepEffect
  <2>4. ASSUME NEW day \in Dates, daily[u][day] > 0
        PROVE  daily'[u][day] > 0
    BY <2>2, <2>3, <2>4 DEF StatsProofs!CallStates
  <2>5. ASSUME stats[u].totalCount > 0
        PROVE  stats'[u].totalCount > 0
    BY <2>2, <2>3, <2>5 DEF StatsProofs!CallStates
  <2> QED
    BY <2>4, <2>5
<1> QED
  BY <1>1, <1>2, CallStep

\* The calls of recordWriting that were made, the states of one that is under way, and the
\* sessions that passed.
Recorded == {r \in Requests : rec[r].pc # "idle"}
Recording == {"findStatistics", "readActivity", "writeActivity", "saveStatistics"}
Passed == {s \in Sessions : row[s].passed}

PassedIsSettled == \A s \in Passed : row[s].status = "completed" /\ row[s].clientDate \in Dates

JobsRecord == \A r \in Requests : job[r].pc = "recordWriting" <=> rec[r].pc \in Recording

\* A call was made for a passed session, with its date, and counts once it is done.
RecordOf(r) ==
    LET s == SessionOf(r)
    IN  /\ req[r].pc = "accepted" /\ s \in Passed
        /\ rec[r].user = Owner[s] /\ rec[r].today = row[s].clientDate
        /\ rec[r].pc # "failed"
        /\ rec[r].pc = "done" => /\ stats[Owner[s]].totalCount > 0
                                /\ daily[Owner[s]][row[s].clientDate] > 0
RecordsFit == \A r \in Recorded : RecordOf(r)

OneRecordEach == \A r, q \in Recorded : SessionOf(r) = SessionOf(q) => r = q

\* The sessions whose calls are in one of these states, and the passed sessions whose call has
\* written its cell of grass, or has saved the row of statistics, or has died.
SessionsAt(pcs) == {SessionOf(r) : r \in {q \in Requests : rec[q].pc \in pcs}}
BeforeCell == {"findStatistics", "readActivity", "writeActivity"}
Snapshots == {"readActivity", "writeActivity", "saveStatistics"}
CellWritten(u, day) == PassedOn(u, day) \ SessionsAt(BeforeCell)
RowWritten(u) == PassedOf(u) \ SessionsAt(Recording)

(***************************************************************************)
(* No table, and no count a call has read and will write back plus one,    *)
(* exceeds the passed sessions whose calls have written.                   *)
(***************************************************************************)
CountsAreBacked ==
    /\ \A u \in Users : stats[u].totalCount <= Cardinality(RowWritten(u))
    /\ \A u \in Users, day \in Dates : daily[u][day] <= Cardinality(CellWritten(u, day))
    /\ \A r \in Requests :
          /\ rec[r].pc \in Snapshots =>
                rec[r].existing.totalCount <= Cardinality(RowWritten(rec[r].user))
          /\ rec[r].pc = "writeActivity" =>
                rec[r].count <= Cardinality(CellWritten(rec[r].user, rec[r].today))

PassedIsRecorded == crashes = 0 => \A s \in Passed : \E r \in Recorded : SessionOf(r) = s

(***************************************************************************)
(* The inductive invariant behind GrassMatchesPassed: the calls of         *)
(* recordWriting and the passed sessions stand for one another, one to     *)
(* one, but for the calls a crash has cut short; and a session that has    *)
(* not been written to a table leaves room there for its own call.         *)
(***************************************************************************)
GrassInv ==
    /\ IsFiniteSet(Passed)
    /\ PassedIsSettled
    /\ JobsRecord
    /\ RecordsFit
    /\ OneRecordEach
    /\ CountsAreBacked
    /\ PassedIsRecorded

\* But for the crash, a step leaves the call of r as it is, makes it, or moves it on.
MakesCall(r) ==
    /\ MarkCompleted(r) /\ row' = Completed(r) /\ job[r].passed
    /\ job'[r].pc = "recordWriting"
    /\ rec[r].pc = "idle" /\ rec'[r].pc = "findStatistics"
    /\ rec'[r].user = Owner[SessionOf(r)] /\ rec'[r].today = req[r].date

LEMMA RecordStep ==
  ASSUME JobInv, StatsProofs!TypeOK, [Next]_vars, ~Crash, NEW r \in Requests
  PROVE  \/ rec'[r] = rec[r] /\ (job'[r].pc = "recordWriting" <=> job[r].pc = "recordWriting")
         \/ MakesCall(r)
         \/ RecordWriting(r)
<1>1. /\ job \in [Requests -> [pc : JobStates, passed : BOOLEAN]]
      /\ rec \in [Requests -> {StatsProofs!IdleCall} \cup StatsProofs!Calls]
  BY DEF JobInv, ServiceTypes, StatsProofs!TypeOK
<1>2. ASSUME MarkCompleted(r)
      PROVE  MakesCall(r) \/ (rec'[r] = rec[r] /\ job'[r].pc # "recordWriting")
  <2>1. PICK outcome \in Outcomes("markCompleted") :
          /\ row' = IF outcome = "error" THEN row ELSE Completed(r)
          /\ job' = [job EXCEPT ![r].pc = IF outcome # "ok" THEN "markFailed"
                                          ELSE IF job[r].passed THEN "recordWriting"
                                          ELSE "ended"]
          /\ IF outcome = "ok" /\ job[r].passed
             THEN Stats!Begin(r, Owner[SessionOf(r)], req[r].date)
             ELSE UNCHANGED statsVars
    BY <1>2 DEF MarkCompleted
  <2>2. CASE outcome = "ok" /\ job[r].passed
    <3>1. row' = Completed(r) /\ job'[r].pc = "recordWriting"
      BY <1>1, <2>1, <2>2
    <3>2. /\ rec[r].pc = "idle" /\ rec'[r].pc = "findStatistics"
          /\ rec'[r].user = Owner[SessionOf(r)] /\ rec'[r].today = req[r].date
      BY <1>1, <2>1, <2>2 DEF Stats!Begin, Stats!IdleCall
    <3> QED
      BY <1>2, <2>2, <3>1, <3>2 DEF MakesCall
  <2>3. CASE ~(outcome = "ok" /\ job[r].passed)
    BY <1>1, <2>1, <2>3 DEF statsVars
  <2> QED
    BY <2>2, <2>3
<1>3. ASSUME NEW q \in Requests, q # r, MarkCompleted(q) \/ RecordWriting(q)
      PROVE  rec'[r] = rec[r]
  <2>1. MarkCompleted(q) => rec'[r] = rec[r]
    BY <1>1, <1>3 DEF MarkCompleted, Stats!Begin, statsVars
  <2>2. RecordWriting(q) => rec'[r] = rec[r]
    BY <1>1, <1>3 DEF RecordWriting, Stats!Step, Stats!FindStatistics, Stats!ReadActivity,
        Stats!WriteActivity, Stats!SaveStatistics, Stats!Return, Stats!Advance
  <2> QED
    BY <1>3, <2>1, <2>2
<1>4. ASSUME \A q \in Requests : ~MarkCompleted(q) /\ ~RecordWriting(q)
      PROVE  rec' = rec
  <2>1. ASSUME NEW q \in Requests,
               Complete(q) \/ Handle(q) \/ StartJob(q) \/ Inspect(q) \/ MarkFailed(q)
                 \/ ReleaseSlot(q)
        PROVE  rec' = rec
    BY <2>1 DEF Complete, Handle, FindById, ClaimForProcessing, StartJob, Inspect, MarkFailed,
                ReleaseSlot, statsVars
  <2>2. ASSUME NEW s \in Sessions, CreateUploadUrl(s) \/ Upload(s)
        PROVE  rec' = rec
    BY <2>2 DEF CreateUploadUrl, Upload, statsVars
  <2>3. Boot \/ UNCHANGED vars => rec' = rec
    BY DEF Boot, vars, statsVars
  <2> QED
    BY <1>4, <2>1, <2>2, <2>3 DEF Next, JobStep
<1>5. CASE ~MarkCompleted(r) /\ ~RecordWriting(r)
  <2>1. rec'[r] = rec[r]
    BY <1>3, <1>4, <1>5
  <2>2. ClaimForProcessing(r) =>
           job[r].pc # "recordWriting" /\ (job'[r] = job[r] \/ job'[r].pc = "inspect")
    <3>1. ClaimForProcessing(r) => r \notin Live
      BY LiveIsAccepted DEF ClaimForProcessing
    <3> QED
      BY <1>1, <3>1 DEF ClaimForProcessing, Live
  <2>3. Inspect(r) => job[r].pc # "recordWriting" /\ job'[r].pc # "recordWriting"
    BY <1>1 DEF Inspect
  <2>4. MarkFailed(r) => job[r].pc # "recordWriting" /\ job'[r].pc # "recordWriting"
    BY <1>1 DEF MarkFailed
  <2> QED
    BY <1>5, <2>1, <2>2, <2>3, <2>4, JobStepOf
<1>6. MarkCompleted(r) => job[r].pc # "recordWriting"
  BY DEF MarkCompleted
<1> QED
  BY <1>2, <1>5, <1>6

\* A call under way moves on towards its end, where its day and its user count.
LEMMA RecordingMoves ==
  ASSUME VerdictsStand, StatsProofs!StreakInv, JobInv, NEW r \in Requests, RecordWriting(r)
  PROVE  /\ rec[r].pc \in Recording /\ rec'[r].pc \in Recording \cup {"done"}
         /\ rec'[r].user = rec[r].user /\ rec'[r].today = rec[r].today
         /\ job'[r].pc = "recordWriting" <=> rec'[r].pc \in Recording
         /\ rec'[r].pc = "done" => /\ stats'[rec[r].user].totalCount > 0
                                   /\ daily'[rec[r].user][rec[r].today] > 0
<1>1. /\ StatsProofs!TypeOK
      /\ job \in [Requests -> [pc : JobStates, passed : BOOLEAN]]
  BY DEF StatsProofs!StreakInv, JobInv, ServiceTypes
<1>2. /\ Stats!Step(r)
      /\ job' = [job EXCEPT ![r].pc = CASE rec'[r].pc = "done" -> "ended"
                                         [] rec'[r].pc = "failed" -> "markFailed"
                                         [] OTHER -> @]
      /\ job[r].pc = "recordWriting"
  BY DEF RecordWriting
<1>3. StatsProofs!Step(r)
  BY RecordingIsStep
<1>4. rec[r].pc \in Recording
  BY <1>3 DEF StatsProofs!Step, StatsProofs!FindStatistics, StatsProofs!ReadActivity,
              StatsProofs!WriteActivity, StatsProofs!SaveStatistics, Recording
<1>5. StatsProofs!Moves(r)
  BY <1>1, <1>3, Assumptions, StatsProofs!StepMoves
<1>6. rec'[r].pc # "failed"
  BY RecordingReturns
<1>7. /\ rec'[r].pc \in Recording \cup {"done"}
      /\ rec'[r].user = rec[r].user /\ rec'[r].today = rec[r].today
  BY <1>4, <1>5, <1>6 DEF StatsProofs!Moves, StatsProofs!CallStates, Recording
<1>8. job'[r].pc = "recordWriting" <=> rec'[r].pc \in Recording
  BY <1>1, <1>2, <1>7 DEF Recording
<1>9. ASSUME rec'[r].pc = "done"
      PROVE  /\ stats'[rec[r].user].totalCount > 0
             /\ daily'[rec[r].user][rec[r].today] > 0
  <2>1. /\ rec[r].pc = "saveStatistics"
        /\ stats'[rec[r].user] = StatsProofs!NewStatistics(rec[r].existing, rec[r].today)
    BY <1>1, <1>3, <1>9, Assumptions, StatsProofs!SavedOrWritten
  <2>2. rec[r].existing.totalCount \in Nat
    BY <1>1, <2>1, Assumptions, StatsProofs!ActiveCall
       DEF StatsProofs!Calls, StatsProofs!Statistics, StatsProofs!CallStates
  <2>3. stats'[rec[r].user].totalCount = rec[r].existing.totalCount + 1
    BY <2>1 DEF StatsProofs!NewStatistics
  <2>4. daily[rec[r].user][rec[r].today] > 0
    BY <2>1 DEF StatsProofs!StreakInv
  <2>5. daily' = daily
    BY <1>1, <1>3, <2>1, Assumptions, StatsProofs!StepEffect
  <2> QED
    BY <2>2, <2>3, <2>4, <2>5
<1> QED
  BY <1>4, <1>7, <1>8, <1>9

\* A recorded session keeps its row, and the call its request.
LEMMA RecordedStays ==
  ASSUME JobInv, FailedBeforeVerdict, PassedIsSettled, RecordsFit, [Next]_vars, NEW r \in Recorded
  PROVE  /\ r \in Requests /\ SessionOf(r) \in Sessions /\ SessionOf(r) \in Passed
         /\ req'[r] = req[r] /\ SessionOf(r)' = SessionOf(r)
         /\ row'[SessionOf(r)] = row[SessionOf(r)]
         /\ SessionOf(r) \in Passed'
<1>1. r \in Requests /\ RecordOf(r)
  BY DEF Recorded, RecordsFit
<1>2. SessionOf(r) \in Sessions /\ row[SessionOf(r)].passed /\ req[r].pc = "accepted"
  BY <1>1 DEF RecordOf, Passed
<1>3. req'[r] = req[r] /\ SessionOf(r)' = SessionOf(r)
  BY <1>1, <1>2, AcceptedStays DEF SessionOf
<1>4. row'[SessionOf(r)] = row[SessionOf(r)]
  BY <1>1, <1>2, CompletedStays DEF PassedIsSettled, RecordOf
<1> QED
  BY <1>1, <1>2, <1>3, <1>4 DEF RecordOf, Passed

\* Passed sessions are settled, stay, and at most one is added.
LEMMA PassedStep ==
  ASSUME JobInv, FailedBeforeVerdict, PassedIsSettled, [Next]_vars
  PROVE  /\ PassedIsSettled'
         /\ Passed \subseteq Passed' /\ \A s \in Passed : row'[s] = row[s]
         /\ IsFiniteSet(Passed) => IsFiniteSet(Passed')
<1>1. \A s \in Passed : row'[s] = row[s] /\ s \in Sessions
  BY CompletedStays DEF PassedIsSettled, Passed
<1>2. ASSUME NEW s \in Passed'
      PROVE  row'[s].status = "completed" /\ row'[s].clientDate \in Dates
  <2>1. s \in Sessions /\ row'[s].passed
    BY <1>2 DEF Passed
  <2>2. CASE s \in Passed
    BY <1>1, <2>2 DEF PassedIsSettled
  <2>3. CASE s \notin Passed
    <3>1. PICK r \in Requests : MarkCompleted(r) /\ SessionOf(r) = s /\ row' = Completed(r)
      BY <2>1, <2>3, PassesOnce DEF Passed
    <3>2. r \in Live
      BY <3>1 DEF MarkCompleted, Live
    <3>3. /\ row \in [Sessions -> Rows] /\ row[s] \in Rows
          /\ row[s].clientDate = req[r].date /\ req[r].date \in Dates
      BY <2>1, <3>1, <3>2, LiveIsNotClaimable, ReadRequest
         DEF JobInv, ServiceTypes, Owns, ReadRequests
    <3>4. row'[s] = [row[s] EXCEPT !.status = "completed", !.passed = job[r].passed]
      BY <2>1, <3>1, <3>3 DEF Completed
    <3> QED
      BY <3>3, <3>4 DEF Rows
  <2> QED
    BY <2>2, <2>3
<1>3. IsFiniteSet(Passed) => IsFiniteSet(Passed')
  <2> SUFFICES ASSUME IsFiniteSet(Passed) PROVE IsFiniteSet(Passed')
    OBVIOUS
  <2>1. CASE Passed' \subseteq Passed
    BY <2>1, FS_Subset
  <2>2. CASE ~(Passed' \subseteq Passed)
    <3>1. PICK s \in Sessions : row'[s].passed /\ ~row[s].passed
      BY <2>2 DEF Passed
    <3>2. PICK r \in Requests : SessionOf(r) = s /\ row' = Completed(r)
      BY <3>1, PassesOnce
    <3>3. \A x \in Sessions \ {s} : row'[x] = row[x]
      BY <3>2 DEF Completed, JobInv, ServiceTypes
    <3>4. Passed' \subseteq Passed \cup {s}
      BY <3>3 DEF Passed
    <3>5. IsFiniteSet(Passed \cup {s})
      BY FS_AddElement
    <3> QED
      BY <3>4, <3>5, FS_Subset
  <2> QED
    BY <2>1, <2>2
<1> QED
  BY <1>1, <1>2, <1>3 DEF PassedIsSettled, Passed

\* A crash ends the calls under way, and they are as if never made.
LEMMA CrashForgets ==
  ASSUME Crash, NEW r \in Requests
  PROVE  /\ job'[r].pc # "recordWriting"
         /\ rec'[r].pc = "idle" \/ (rec'[r] = rec[r] /\ job[r].pc # "recordWriting")
         /\ UNCHANGED <<row, stats, daily>> /\ crashes' = crashes + 1
<1>1. job'[r] = NoJob
  BY DEF Crash
<1>2. rec'[r] = IF job[r].pc = "recordWriting" THEN Stats!IdleCall ELSE rec[r]
  BY DEF Crash
<1> QED
  BY <1>1, <1>2 DEF Crash, NoJob, Stats!IdleCall

LEMMA JobsRecordStep ==
  ASSUME VerdictsStand, JobInv, StatsProofs!StreakInv, JobsRecord, [Next]_vars
  PROVE  JobsRecord'
<1> SUFFICES ASSUME NEW r \in Requests
             PROVE  job'[r].pc = "recordWriting" <=> rec'[r].pc \in Recording
  BY DEF JobsRecord
<1>1. job[r].pc = "recordWriting" <=> rec[r].pc \in Recording
  BY DEF JobsRecord
<1>2. CASE Crash
  BY <1>1, <1>2, CrashForgets DEF Recording
<1>3. CASE MakesCall(r)
  BY <1>3 DEF MakesCall, Recording
<1>4. CASE RecordWriting(r)
  BY <1>4, RecordingMoves
<1>5. CASE rec'[r] = rec[r] /\ (job'[r].pc = "recordWriting" <=> job[r].pc = "recordWriting")
  BY <1>1, <1>5
<1> QED
  BY <1>2, <1>3, <1>4, <1>5, RecordStep DEF StatsProofs!StreakInv

\* What the making of a call finds: a check in processing, with the date of its request.
LEMMA CallMade ==
  ASSUME JobInv, NEW r \in Requests, MakesCall(r)
  PROVE  LET s == SessionOf(r)
         IN  /\ req'[r] = req[r] /\ req[r].pc = "accepted" /\ SessionOf(r)' = s
             /\ s \in Sessions /\ s \in Passed' /\ row[s].status = "processing"
             /\ row'[s].clientDate = req[r].date
<1>1. r \in Live /\ job[r].pc = "markCompleted" /\ req' = req
  BY DEF MakesCall, MarkCompleted, Live
<1>2. PICK s \in Sessions : s = SessionOf(r)
  BY <1>1, LiveIsNotClaimable
<1>3. /\ row[s].status = "processing" /\ req[r].pc = "accepted" /\ row[s].clientDate = req[r].date
      /\ row \in [Sessions -> Rows] /\ row[s] \in Rows
  BY <1>1, <1>2, LiveIsNotClaimable DEF Owns, JobInv, ServiceTypes
<1>4. row'[s] = [row[s] EXCEPT !.status = "completed", !.passed = job[r].passed]
  BY <1>2, <1>3 DEF MakesCall, Completed
<1>5. row'[s].clientDate = req[r].date /\ row'[s].passed
  BY <1>3, <1>4 DEF Rows, MakesCall
<1> QED
  BY <1>1, <1>2, <1>3, <1>5 DEF Passed, SessionOf

LEMMA RecordsFitStep ==
  ASSUME VerdictsStand, JobInv, StatsProofs!StreakInv, FailedBeforeVerdict, PassedIsSettled,
         JobsRecord, RecordsFit, [Next]_vars
  PROVE  RecordsFit'
<1> SUFFICES ASSUME NEW r \in Requests, rec'[r].pc # "idle"
             PROVE  RecordOf(r)'
  BY DEF RecordsFit, Recorded
<1>1. ASSUME r \in Recorded
      PROVE  LET s == SessionOf(r)
             IN  /\ req'[r] = req[r] /\ req[r].pc = "accepted" /\ SessionOf(r)' = s
                 /\ s \in Sessions /\ s \in Passed' /\ row'[s] = row[s]
                 /\ Owner[s] \in Users /\ row[s].clientDate \in Dates
                 /\ rec[r].user = Owner[s] /\ rec[r].today = row[s].clientDate
                 /\ rec[r].pc # "failed"
  BY <1>1, RecordedStays, OwnerAssumption DEF RecordsFit, RecordOf, PassedIsSettled
<1>2. CASE rec'[r] = rec[r]
  <2>1. r \in Recorded
    BY <1>2 DEF Recorded
  <2>2. ASSUME rec[r].pc = "done"
        PROVE  /\ stats'[Owner[SessionOf(r)]].totalCount > 0
               /\ daily'[Owner[SessionOf(r)]][row[SessionOf(r)].clientDate] > 0
    <3>1. /\ stats[Owner[SessionOf(r)]].totalCount > 0
          /\ daily[Owner[SessionOf(r)]][row[SessionOf(r)].clientDate] > 0
      BY <2>1, <2>2 DEF RecordsFit, RecordOf
    <3> QED
      BY <1>1, <2>1, <3>1, CountsStayPositive
  <2> QED
    BY <1>1, <1>2, <2>1, <2>2 DEF RecordOf
<1>3. CASE MakesCall(r)
  BY <1>3, CallMade DEF MakesCall, RecordOf
<1>4. CASE RecordWriting(r)
  <2>1. r \in Recorded
    BY <1>4, RecordingMoves DEF Recorded, Recording
  <2>2. rec'[r].pc # "failed"
    BY <1>4, RecordingMoves DEF Recording
  <2> QED
    BY <1>1, <1>4, <2>1, <2>2, RecordingMoves DEF RecordOf
<1>5. CASE Crash
  BY <1>2, <1>5, CrashForgets
<1> QED
  BY <1>2, <1>3, <1>4, <1>5, RecordStep DEF StatsProofs!StreakInv

\* A call is recorded after a step that it was before, or that made it.
LEMMA NewRecord ==
  ASSUME VerdictsStand, JobInv, StatsProofs!StreakInv, [Next]_vars, NEW r \in Recorded'
  PROVE  r \in Requests /\ (r \in Recorded \/ MakesCall(r))
<1>1. r \in Requests /\ rec'[r].pc # "idle"
  BY DEF Recorded
<1>2. RecordWriting(r) => rec[r].pc # "idle"
  BY <1>1, RecordingMoves DEF Recording
<1>3. Crash => rec'[r] = rec[r]
  BY <1>1, CrashForgets
<1> QED
  BY <1>1, <1>2, <1>3, RecordStep DEF StatsProofs!StreakInv, Recorded

LEMMA OneRecordStep ==
  ASSUME VerdictsStand, JobInv, StatsProofs!StreakInv, FailedBeforeVerdict, PassedIsSettled,
         RecordsFit, OneRecordEach, [Next]_vars
  PROVE  OneRecordEach'
<1> SUFFICES ASSUME NEW r \in Recorded', NEW q \in Recorded', SessionOf(r)' = SessionOf(q)'
             PROVE  r = q
  BY DEF OneRecordEach
<1>1. ASSUME NEW x \in Recorded'
      PROVE  /\ SessionOf(x)' = SessionOf(x)
             /\ \/ x \in Recorded /\ row[SessionOf(x)].status = "completed"
                \/ MakesCall(x) /\ row[SessionOf(x)].status = "processing"
  <2>1. CASE x \in Recorded
    BY <2>1, RecordedStays DEF PassedIsSettled
  <2>2. CASE MakesCall(x)
    BY <1>1, <2>2, NewRecord, CallMade
  <2> QED
    BY <1>1, <2>1, <2>2, NewRecord
<1>2. CASE MakesCall(r) /\ MakesCall(q)
  <2>1. r \in Requests /\ q \in Requests
    BY NewRecord
  <2>2. r \in Live /\ q \in Live
    BY <1>2, <2>1 DEF MakesCall, MarkCompleted, Live
  <2> QED
    BY <1>1, <2>2 DEF JobInv, OneJobPerSession
<1> QED
  BY <1>1, <1>2 DEF OneRecordEach

\* A call under way was made by the step or was under way before, and never goes back.
LEMMA StillRecording ==
  ASSUME VerdictsStand, JobInv, StatsProofs!StreakInv, [Next]_vars,
         NEW r \in Requests, rec'[r].pc \in Recording
  PROVE  \/ MakesCall(r)
         \/ /\ r \in Recorded /\ rec[r].pc \in Recording
            /\ rec'[r].pc \in BeforeCell => rec[r].pc \in BeforeCell
<1>1. CASE rec'[r] = rec[r]
  BY <1>1 DEF Recorded, Recording
<1>2. CASE RecordWriting(r)
  <2>1. rec[r].pc \in Recording
    BY <1>2, RecordingMoves
  <2>2. StatsProofs!Moves(r)
    BY <1>2, RecordingIsStep, Assumptions, StatsProofs!StepMoves DEF StatsProofs!StreakInv
  <2>3. rec'[r].pc \in BeforeCell => rec[r].pc \in BeforeCell
    BY <2>1, <2>2 DEF StatsProofs!Moves, Recording, BeforeCell
  <2> QED
    BY <2>1, <2>3 DEF Recorded, Recording
<1>3. ~Crash \/ rec'[r] = rec[r]
  BY CrashForgets DEF Recording
<1> QED
  BY <1>1, <1>2, <1>3, RecordStep DEF StatsProofs!StreakInv

\* The sessions written to the tables are finitely many and stay written.
LEMMA WrittenStay ==
  ASSUME VerdictsStand, JobInv, StatsProofs!StreakInv, FailedBeforeVerdict, GrassInv, [Next]_vars,
         IsFiniteSet(Passed'), NEW u, NEW day
  PROVE  /\ RowWritten(u) \subseteq RowWritten(u)'
         /\ CellWritten(u, day) \subseteq CellWritten(u, day)'
         /\ IsFiniteSet(RowWritten(u)) /\ IsFiniteSet(RowWritten(u)')
         /\ IsFiniteSet(CellWritten(u, day)) /\ IsFiniteSet(CellWritten(u, day)')
<1>1. PassedIsSettled /\ RecordsFit /\ IsFiniteSet(Passed)
  BY DEF GrassInv
<1>2. ASSUME NEW s \in Passed
      PROVE  /\ s \in Sessions /\ s \in Passed' /\ row'[s] = row[s]
             /\ s \in SessionsAt(Recording)' => s \in SessionsAt(Recording)
             /\ s \in SessionsAt(BeforeCell)' => s \in SessionsAt(BeforeCell)
  <2>1. s \in Sessions /\ s \in Passed' /\ row'[s] = row[s] /\ row[s].status = "completed"
    BY <1>1, PassedStep DEF PassedIsSettled, Passed
  <2>2. ASSUME NEW r \in Requests, rec'[r].pc \in Recording, SessionOf(r)' = s
        PROVE  /\ SessionOf(r) = s /\ rec[r].pc \in Recording
               /\ rec'[r].pc \in BeforeCell => rec[r].pc \in BeforeCell
    <3>1. ~MakesCall(r)
      <4> SUFFICES ASSUME MakesCall(r) PROVE FALSE
        OBVIOUS
      <4>1. SessionOf(r)' = SessionOf(r) /\ row[SessionOf(r)].status = "processing"
        BY CallMade
      <4> QED
        BY <2>1, <2>2, <4>1
    <3>2. r \in Recorded
      BY <2>2, <3>1, StillRecording
    <3>3. SessionOf(r)' = SessionOf(r)
      BY <1>1, <3>2, RecordedStays
    <3> QED
      BY <2>2, <3>1, <3>3, StillRecording
  <2>3. BeforeCell \subseteq Recording
    BY DEF BeforeCell, Recording
  <2>4. s \in SessionsAt(Recording)' => s \in SessionsAt(Recording)
    BY <2>2 DEF SessionsAt
  <2>5. s \in SessionsAt(BeforeCell)' => s \in SessionsAt(BeforeCell)
    BY <2>2, <2>3 DEF SessionsAt
  <2> QED
    BY <2>1, <2>4, <2>5
<1>3. \A s \in PassedOf(u) : s \in Passed /\ s \in PassedOf(u)'
  BY <1>2 DEF PassedOf, Passed
<1>4. \A s \in PassedOn(u, day) : s \in PassedOf(u) /\ s \in PassedOn(u, day)'
  BY <1>2, <1>3 DEF PassedOn
<1>5. RowWritten(u) \subseteq RowWritten(u)'
  BY <1>2, <1>3 DEF RowWritten
<1>6. CellWritten(u, day) \subseteq CellWritten(u, day)'
  BY <1>2, <1>3, <1>4 DEF CellWritten
<1>7. /\ RowWritten(u) \subseteq Passed /\ RowWritten(u)' \subseteq Passed'
      /\ CellWritten(u, day) \subseteq Passed /\ CellWritten(u, day)' \subseteq Passed'
  BY DEF RowWritten, CellWritten, PassedOn, PassedOf, Passed
<1>8. /\ IsFiniteSet(RowWritten(u)) /\ IsFiniteSet(RowWritten(u)')
      /\ IsFiniteSet(CellWritten(u, day)) /\ IsFiniteSet(CellWritten(u, day)')
  BY <1>1, <1>7, FS_Subset
<1> QED
  BY <1>5, <1>6, <1>8

\* Of finite sets that grow, the sizes grow, by one for a new member.
LEMMA SizesGrow ==
  ASSUME NEW S, NEW T, IsFiniteSet(S), IsFiniteSet(T), S \subseteq T
  PROVE  /\ Cardinality(S) \in Nat /\ Cardinality(T) \in Nat
         /\ Cardinality(S) <= Cardinality(T)
         /\ (\E x \in T : x \notin S) => Cardinality(S) + 1 <= Cardinality(T)
<1>1. Cardinality(S) \in Nat /\ Cardinality(T) \in Nat
  BY FS_CardinalityType
<1>2. Cardinality(S) <= Cardinality(T) /\ (Cardinality(S) = Cardinality(T) => S = T)
  BY FS_Subset
<1> QED
  BY <1>1, <1>2

\* The sizes, after a step: larger by one where a call has just written.
LEMMA WrittenSizes ==
  ASSUME VerdictsStand, JobInv, StatsProofs!StreakInv, FailedBeforeVerdict, GrassInv, [Next]_vars,
         IsFiniteSet(Passed'), OneRecordEach'
  PROVE  /\ \A u : /\ Cardinality(RowWritten(u)) \in Nat /\ Cardinality(RowWritten(u))' \in Nat
                   /\ Cardinality(RowWritten(u)) <= Cardinality(RowWritten(u))'
         /\ \A u, day : /\ Cardinality(CellWritten(u, day)) \in Nat
                        /\ Cardinality(CellWritten(u, day))' \in Nat
                        /\ Cardinality(CellWritten(u, day)) <= Cardinality(CellWritten(u, day))'
         /\ \A r \in Requests : \A u, day : u = rec[r].user /\ day = rec[r].today =>
              /\ rec[r].pc = "saveStatistics" /\ rec'[r].pc \in {"done", "failed"} =>
                    Cardinality(RowWritten(u)) + 1 <= Cardinality(RowWritten(u))'
              /\ rec[r].pc = "writeActivity" /\ rec'[r].pc \in {"saveStatistics", "failed"} =>
                    Cardinality(CellWritten(u, day)) + 1 <= Cardinality(CellWritten(u, day))'
<1>1. ASSUME NEW u, NEW day
      PROVE  /\ Cardinality(RowWritten(u)) \in Nat /\ Cardinality(RowWritten(u))' \in Nat
             /\ Cardinality(RowWritten(u)) <= Cardinality(RowWritten(u))'
             /\ Cardinality(CellWritten(u, day)) \in Nat
             /\ Cardinality(CellWritten(u, day))' \in Nat
             /\ Cardinality(CellWritten(u, day)) <= Cardinality(CellWritten(u, day))'
  BY WrittenStay, SizesGrow
<1>2. ASSUME NEW r \in Requests, rec[r].pc \in Recording, rec'[r].pc # "idle",
             NEW pcs \in SUBSET Recording, rec[r].pc \in pcs, rec'[r].pc \notin pcs
      PROVE  \A u, day : u = rec[r].user /\ day = rec[r].today =>
                \E s \in PassedOn(u, day)' : s \in SessionsAt(pcs) /\ s \notin SessionsAt(pcs)'
  <2> TAKE u, day
  <2> HAVE u = rec[r].user /\ day = rec[r].today
  <2>1. PICK s : s = SessionOf(r)
    OBVIOUS
  <2>2. r \in Recorded /\ r \in Recorded'
    BY <1>2 DEF Recorded, Recording
  <2>3. s \in Sessions /\ SessionOf(r)' = s /\ row'[s] = row[s] /\ s \in Passed'
    BY <2>1, <2>2, RecordedStays DEF GrassInv
  <2>4. u = Owner[s] /\ day = row[s].clientDate
    BY <2>1, <2>2 DEF GrassInv, RecordsFit, RecordOf
  <2>5. s \in SessionsAt(pcs)
    BY <1>2, <2>1 DEF SessionsAt
  <2>6. s \notin SessionsAt(pcs)'
    <3> SUFFICES ASSUME NEW q \in Requests, rec'[q].pc \in pcs, SessionOf(q)' = s PROVE FALSE
      BY DEF SessionsAt
    <3>1. q \in Recorded'
      BY <1>2 DEF Recorded, Recording
    <3>2. q = r
      BY <2>2, <2>3, <3>1 DEF OneRecordEach
    <3> QED
      BY <1>2, <3>2
  <2>7. s \in PassedOn(u, day)'
    BY <2>3, <2>4 DEF PassedOn, PassedOf, Passed
  <2> QED
    BY <2>5, <2>6, <2>7
<1>3. ASSUME NEW r \in Requests, NEW u, NEW day, u = rec[r].user, day = rec[r].today,
             rec[r].pc = "saveStatistics", rec'[r].pc \in {"done", "failed"}
      PROVE  Cardinality(RowWritten(u)) + 1 <= Cardinality(RowWritten(u))'
  <2>1. PICK s \in PassedOn(u, day)' :
          s \in SessionsAt(Recording) /\ s \notin SessionsAt(Recording)'
    BY <1>2, <1>3 DEF Recording
  <2>2. s \in RowWritten(u)' /\ s \notin RowWritten(u)
    BY <2>1 DEF RowWritten, PassedOn
  <2>3. /\ RowWritten(u) \subseteq RowWritten(u)'
        /\ IsFiniteSet(RowWritten(u)) /\ IsFiniteSet(RowWritten(u)')
    BY WrittenStay
  <2> QED
    BY <2>2, <2>3, SizesGrow
<1>4. ASSUME NEW r \in Requests, NEW u, NEW day, u = rec[r].user, day = rec[r].today,
             rec[r].pc = "writeActivity", rec'[r].pc \in {"saveStatistics", "failed"}
      PROVE  Cardinality(CellWritten(u, day)) + 1 <= Cardinality(CellWritten(u, day))'
  <2>1. PICK s \in PassedOn(u, day)' :
          s \in SessionsAt(BeforeCell) /\ s \notin SessionsAt(BeforeCell)'
    BY <1>2, <1>4 DEF Recording, BeforeCell
  <2>2. s \in CellWritten(u, day)' /\ s \notin CellWritten(u, day)
    BY <2>1 DEF CellWritten
  <2>3. /\ CellWritten(u, day) \subseteq CellWritten(u, day)'
        /\ IsFiniteSet(CellWritten(u, day)) /\ IsFiniteSet(CellWritten(u, day)')
    BY WrittenStay
  <2> QED
    BY <2>2, <2>3, SizesGrow
<1>5. \A r \in Requests : \A u, day : u = rec[r].user /\ day = rec[r].today =>
         /\ rec[r].pc = "saveStatistics" /\ rec'[r].pc \in {"done", "failed"} =>
               Cardinality(RowWritten(u)) + 1 <= Cardinality(RowWritten(u))'
         /\ rec[r].pc = "writeActivity" /\ rec'[r].pc \in {"saveStatistics", "failed"} =>
               Cardinality(CellWritten(u, day)) + 1 <= Cardinality(CellWritten(u, day))'
  BY <1>3, <1>4
<1> QED
  BY <1>1, <1>5

\* A table grows by one only when the writer joins the sessions counted against it, and what a
\* call reads is backed when it reads it.
LEMMA CountsBackedStep ==
  ASSUME VerdictsStand, JobInv, StatsProofs!StreakInv, StatsProofs!StreakInv',
         FailedBeforeVerdict, GrassInv, [Next]_vars, IsFiniteSet(Passed'), OneRecordEach'
  PROVE  CountsAreBacked'
<1> DEFINE rows(u) == Cardinality(RowWritten(u))
           cells(u, day) == Cardinality(CellWritten(u, day))
<1>1. /\ \A u : rows(u) \in Nat /\ rows(u)' \in Nat /\ rows(u) <= rows(u)'
      /\ \A u, day : cells(u, day) \in Nat /\ cells(u, day)' \in Nat
                       /\ cells(u, day) <= cells(u, day)'
      /\ \A r \in Requests : \A u, day : u = rec[r].user /\ day = rec[r].today =>
           /\ rec[r].pc = "saveStatistics" /\ rec'[r].pc \in {"done", "failed"} =>
                 rows(u) + 1 <= rows(u)'
           /\ rec[r].pc = "writeActivity" /\ rec'[r].pc \in {"saveStatistics", "failed"} =>
                 cells(u, day) + 1 <= cells(u, day)'
  BY WrittenSizes
<1>2. /\ \A u \in Users : stats[u].totalCount <= rows(u)
      /\ \A u \in Users, day \in Dates : daily[u][day] <= cells(u, day)
      /\ \A r \in Requests :
           /\ rec[r].pc \in Snapshots => rec[r].existing.totalCount <= rows(rec[r].user)
           /\ rec[r].pc = "writeActivity" => rec[r].count <= cells(rec[r].user, rec[r].today)
  BY DEF GrassInv, CountsAreBacked
<1>3. StatsProofs!TypeOK /\ StatsProofs!TypeOK'
  BY DEF StatsProofs!StreakInv
<1>4. /\ \A u \in Users : stats[u].totalCount \in Nat
      /\ \A u \in Users, day \in Dates : daily[u][day] \in Nat
      /\ \A r \in Requests : rec[r].pc \in StatsProofs!CallStates =>
            /\ rec[r].user \in Users /\ rec[r].today \in Dates
            /\ rec[r].existing.totalCount \in Nat /\ rec[r].count \in Nat
  BY <1>3, Assumptions, StatsProofs!ActiveCall
     DEF StatsProofs!TypeOK, StatsProofs!Calls, StatsProofs!Statistics
<1>5. ASSUME NEW r \in Requests,
             \/ StatsProofs!Step(r)
             \/ \E x \in Users, d \in Dates : StatsProofs!Begin(r, x, d)
      PROVE  LET u == rec[r].user
                 day == rec[r].today
             IN  /\ stats' # stats =>
                       /\ rec[r].pc = "saveStatistics" /\ rec'[r].pc \in {"done", "failed"}
                       /\ \A x \in Users \ {u} : stats'[x] = stats[x]
                       /\ stats'[u].totalCount = rec[r].existing.totalCount + 1
                 /\ daily' # daily =>
                       /\ rec[r].pc = "writeActivity"
                       /\ rec'[r].pc \in {"saveStatistics", "failed"}
                       /\ \A x \in Users, d \in Dates :
                             x # u \/ d # day => daily'[x][d] = daily[x][d]
                       /\ daily'[u][day] = rec[r].count + 1
                 /\ rec'[r].pc \in Snapshots =>
                       \/ rec[r].pc = "findStatistics" /\ rec'[r].existing = stats[u]
                       \/ rec[r].pc \in Snapshots /\ rec'[r].existing = rec[r].existing
                 /\ rec'[r].pc = "writeActivity" =>
                       rec[r].pc = "readActivity" /\ rec'[r].count = daily[u][day]
  BY <1>3, <1>5, Assumptions, StatsProofs!StepEffect DEF Snapshots
<1> HIDE DEF rows, cells
<1>6. ASSUME NEW u \in Users PROVE stats'[u].totalCount <= rows(u)'
  <2>1. CASE stats' = stats
    BY <1>1, <1>2, <1>4, <2>1
  <2>2. CASE stats' # stats
    <3>1. ~Crash /\ ~UNCHANGED statsVars
      BY <2>2 DEF Crash, statsVars
    <3>2. PICK r \in Requests : \/ StatsProofs!Step(r)
                               \/ \E x \in Users, d \in Dates : StatsProofs!Begin(r, x, d)
      BY <3>1, CallStep
    <3>3. /\ rec[r].pc = "saveStatistics" /\ rec'[r].pc \in {"done", "failed"}
          /\ \A x \in Users \ {rec[r].user} : stats'[x] = stats[x]
          /\ stats'[rec[r].user].totalCount = rec[r].existing.totalCount + 1
      BY <1>5, <2>2, <3>2
    <3>4. /\ rec[r].existing.totalCount <= rows(rec[r].user)
          /\ rec[r].existing.totalCount \in Nat
      BY <1>2, <1>4, <3>3 DEF Snapshots, StatsProofs!CallStates
    <3>5. CASE u = rec[r].user
      <4>1. rows(u) + 1 <= rows(u)' /\ rows(u) \in Nat /\ rows(u)' \in Nat
        BY <1>1, <3>3, <3>5
      <4>2. stats'[u].totalCount = rec[r].existing.totalCount + 1
        BY <3>3, <3>5
      <4>3. rec[r].existing.totalCount <= rows(u) /\ rec[r].existing.totalCount \in Nat
        BY <3>4, <3>5
      <4> QED
        BY <4>1, <4>2, <4>3
    <3>6. CASE u # rec[r].user
      BY <1>1, <1>2, <1>4, <3>3, <3>6
    <3> QED
      BY <3>5, <3>6
  <2> QED
    BY <2>1, <2>2
<1>7. ASSUME NEW u \in Users, NEW day \in Dates PROVE daily'[u][day] <= cells(u, day)'
  <2>1. CASE daily' = daily
    BY <1>1, <1>2, <1>4, <2>1
  <2>2. CASE daily' # daily
    <3>1. ~Crash /\ ~UNCHANGED statsVars
      BY <2>2 DEF Crash, statsVars
    <3>2. PICK r \in Requests : \/ StatsProofs!Step(r)
                               \/ \E x \in Users, d \in Dates : StatsProofs!Begin(r, x, d)
      BY <3>1, CallStep
    <3>3. /\ rec[r].pc = "writeActivity" /\ rec'[r].pc \in {"saveStatistics", "failed"}
          /\ \A x \in Users, d \in Dates :
                x # rec[r].user \/ d # rec[r].today => daily'[x][d] = daily[x][d]
          /\ daily'[rec[r].user][rec[r].today] = rec[r].count + 1
      BY <1>5, <2>2, <3>2
    <3>4. rec[r].count <= cells(rec[r].user, rec[r].today) /\ rec[r].count \in Nat
      BY <1>2, <1>4, <3>3 DEF StatsProofs!CallStates
    <3>5. CASE u = rec[r].user /\ day = rec[r].today
      <4>1. cells(u, day) + 1 <= cells(u, day)' /\ cells(u, day) \in Nat /\ cells(u, day)' \in Nat
        BY <1>1, <3>3, <3>5
      <4>2. daily'[u][day] = rec[r].count + 1
        BY <3>3, <3>5
      <4>3. rec[r].count <= cells(u, day) /\ rec[r].count \in Nat
        BY <3>4, <3>5
      <4> QED
        BY <4>1, <4>2, <4>3
    <3>6. CASE ~(u = rec[r].user /\ day = rec[r].today)
      BY <1>1, <1>2, <1>4, <3>3, <3>6
    <3> QED
      BY <3>5, <3>6
  <2> QED
    BY <2>1, <2>2
<1>8. ASSUME NEW r \in Requests, NEW u, NEW day, u = rec'[r].user, day = rec'[r].today
      PROVE  /\ rec'[r].pc \in Snapshots => rec'[r].existing.totalCount <= rows(u)'
             /\ rec'[r].pc = "writeActivity" => rec'[r].count <= cells(u, day)'
  <2>1. CASE rec'[r] = rec[r]
    <3>1. CASE rec[r].pc \in Snapshots
      <4>1. rec[r].existing.totalCount \in Nat /\ rec[r].count \in Nat
        BY <1>4, <3>1 DEF Snapshots, StatsProofs!CallStates
      <4>2. rec[r].existing.totalCount <= rows(u)
        BY <1>2, <1>8, <2>1, <3>1
      <4>3. rec[r].pc = "writeActivity" => rec[r].count <= cells(u, day)
        BY <1>2, <1>8, <2>1
      <4> QED
        BY <1>1, <2>1, <4>1, <4>2, <4>3
    <3> QED
      BY <2>1, <3>1 DEF Snapshots
  <2>2. CASE MakesCall(r)
    BY <2>2 DEF MakesCall, Snapshots
  <2>3. CASE RecordWriting(r)
    <3>1. rec[r].pc \in Recording /\ u = rec[r].user /\ day = rec[r].today
      BY <1>8, <2>3, RecordingMoves
    <3>2. u \in Users /\ day \in Dates /\ rec[r].existing.totalCount \in Nat
      BY <1>4, <3>1 DEF Recording, StatsProofs!CallStates
    <3>3. rec'[r].pc = "writeActivity" => rec'[r].count <= cells(u, day)'
      <4>1. rec'[r].pc = "writeActivity" => rec'[r].count = daily[u][day]
        BY <1>5, <2>3, <3>1, RecordingIsStep
      <4> QED
        BY <1>1, <1>2, <1>4, <3>2, <4>1
    <3>4. rec'[r].pc \in Snapshots => rec'[r].existing.totalCount <= rows(u)'
      <4>1. rec'[r].pc \in Snapshots => \/ rec'[r].existing = stats[u]
                                       \/ /\ rec[r].pc \in Snapshots
                                          /\ rec'[r].existing = rec[r].existing
        BY <1>5, <2>3, <3>1, RecordingIsStep
      <4>2. rec[r].pc \in Snapshots => rec[r].existing.totalCount <= rows(u)
        BY <1>2, <3>1
      <4> QED
        BY <1>1, <1>2, <1>4, <3>2, <4>1, <4>2
    <3> QED
      BY <3>3, <3>4
  <2>4. Crash => rec'[r] = rec[r] \/ rec'[r].pc = "idle"
    BY CrashForgets
  <2>5. rec'[r].pc = "idle" => rec'[r].pc \notin Snapshots /\ rec'[r].pc # "writeActivity"
    BY DEF Snapshots
  <2> QED
    BY <1>3, <2>1, <2>2, <2>3, <2>4, <2>5, RecordStep
<1>9. CountsAreBacked' <=>
         /\ \A u \in Users : stats'[u].totalCount <= rows(u)'
         /\ \A u \in Users, day \in Dates : daily'[u][day] <= cells(u, day)'
         /\ \A r \in Requests : \A u, day : u = rec'[r].user /\ day = rec'[r].today =>
              /\ rec'[r].pc \in Snapshots => rec'[r].existing.totalCount <= rows(u)'
              /\ rec'[r].pc = "writeActivity" => rec'[r].count <= cells(u, day)'
  BY DEF CountsAreBacked, rows, cells
<1> QED
  BY <1>6, <1>7, <1>8, <1>9

\* Crashes are counted, and nothing else changes their number.
LEMMA CrashesCounted ==
  ASSUME [Next]_vars, ~Crash
  PROVE  crashes' = crashes
BY DEF Next, vars, CreateUploadUrl, Upload, Complete, Handle, FindById, ClaimForProcessing,
   JobStep, StartJob, Inspect, MarkCompleted, RecordWriting, MarkFailed, ReleaseSlot, Boot

\* A session that passes outside a crash has its call made by that step.
LEMMA NewPassIsCalled ==
  ASSUME VerdictsStand, JobInv, StatsProofs!StreakInv, [Next]_vars, ~Crash,
         NEW s \in Passed', s \notin Passed
  PROVE  \E r \in Requests : MakesCall(r) /\ SessionOf(r) = s
<1>1. s \in Sessions /\ row'[s].passed /\ ~row[s].passed
  BY DEF Passed
<1>2. PICK r \in Requests : MarkCompleted(r) /\ job[r].passed /\ SessionOf(r) = s
  BY <1>1, PassesOnce
<1>3. PICK outcome \in Outcomes("markCompleted") :
        /\ row' = IF outcome = "error" THEN row ELSE Completed(r)
        /\ job' = [job EXCEPT ![r].pc = IF outcome # "ok" THEN "markFailed"
                                        ELSE IF job[r].passed THEN "recordWriting"
                                        ELSE "ended"]
  BY <1>2 DEF MarkCompleted
<1>4. outcome = "ok"
  BY <1>1, <1>3 DEF Outcomes, VerdictsStand
<1>5. job[r].pc = "markCompleted" /\ job'[r].pc = "recordWriting"
  BY <1>2, <1>3, <1>4 DEF MarkCompleted, JobInv, ServiceTypes
<1>6. MakesCall(r)
  BY <1>5, RecordStep DEF StatsProofs!StreakInv, RecordWriting
<1> QED
  BY <1>2, <1>6

\* Without a crash, a session that passes has its call, and keeps it.
LEMMA PassedRecordedStep ==
  ASSUME VerdictsStand, JobInv, StatsProofs!StreakInv, FailedBeforeVerdict, PassedIsSettled,
         RecordsFit, PassedIsRecorded, crashes \in Nat, [Next]_vars
  PROVE  PassedIsRecorded'
<1> SUFFICES ASSUME crashes' = 0, NEW s \in Passed'
             PROVE  \E r \in Recorded' : SessionOf(r)' = s
  BY DEF PassedIsRecorded
<1>1. ~Crash /\ crashes = 0
  <2>1. ~Crash
    BY DEF Crash
  <2> QED
    BY <2>1, CrashesCounted
<1>2. ASSUME NEW r \in Requests, r \in Recorded \/ MakesCall(r)
      PROVE  r \in Recorded' /\ SessionOf(r)' = SessionOf(r)
  <2>1. CASE MakesCall(r)
    BY <2>1, CallMade DEF MakesCall, Recorded
  <2>2. CASE r \in Recorded
    <3>1. SessionOf(r)' = SessionOf(r) /\ rec[r].pc # "idle"
      BY <2>2, RecordedStays DEF Recorded
    <3>2. rec'[r].pc # "idle"
      <4>1. RecordWriting(r) => rec'[r].pc # "idle"
        BY RecordingMoves DEF Recording
      <4>2. MakesCall(r) => rec'[r].pc # "idle"
        BY DEF MakesCall
      <4> QED
        BY <1>1, <3>1, <4>1, <4>2, RecordStep DEF StatsProofs!StreakInv
    <3> QED
      BY <3>1, <3>2 DEF Recorded
  <2> QED
    BY <1>2, <2>1, <2>2
<1>3. CASE s \in Passed
  <2>1. PICK r \in Recorded : SessionOf(r) = s
    BY <1>1, <1>3 DEF PassedIsRecorded
  <2>2. r \in Requests
    BY DEF Recorded
  <2> QED
    BY <1>2, <2>1, <2>2
<1>4. CASE s \notin Passed
  <2>1. PICK r \in Requests : MakesCall(r) /\ SessionOf(r) = s
    BY <1>1, <1>4, NewPassIsCalled
  <2> QED
    BY <1>2, <2>1
<1> QED
  BY <1>3, <1>4

\* Calls and passed sessions stay matched, and the counts backed, in every reachable state.
LEMMA GrassInvariant ==
  ASSUME VerdictsStand
  PROVE  Spec => []GrassInv
<1>1. Init => GrassInv
  <2> SUFFICES ASSUME Init PROVE GrassInv
    OBVIOUS
  <2>1. /\ \A r \in Requests : rec[r].pc = "idle" /\ job[r].pc = "none"
        /\ \A s \in Sessions : ~row[s].passed
        /\ \A u \in Users : stats[u].totalCount = 0
        /\ \A u \in Users, day \in Dates : daily[u][day] = 0
    BY DEF Init, Stats!Init, Stats!IdleCall, Stats!EmptyStatistics, NoJob, NoRow
  <2>2. Recorded = {} /\ Passed = {} /\ IsFiniteSet({})
    BY <2>1, FS_EmptySet DEF Recorded, Passed
  <2>3. CountsAreBacked
    <3>1. \A u : RowWritten(u) = {} /\ \A day : CellWritten(u, day) = {}
      BY <2>1 DEF RowWritten, CellWritten, PassedOn, PassedOf
    <3>2. Cardinality({}) = 0
      BY FS_EmptySet
    <3>3. \A u : Cardinality(RowWritten(u)) = 0 /\ \A day : Cardinality(CellWritten(u, day)) = 0
      BY <3>1, <3>2
    <3>4. \A r \in Requests : rec[r].pc \notin Snapshots /\ rec[r].pc # "writeActivity"
      BY <2>1 DEF Snapshots
    <3> QED
      BY <2>1, <3>3, <3>4 DEF CountsAreBacked
  <2> QED
    BY <2>1, <2>2, <2>3 DEF GrassInv, PassedIsSettled, JobsRecord, RecordsFit, OneRecordEach,
                            PassedIsRecorded, Recording
<1>2. ASSUME JobInv, StatsProofs!StreakInv, StatsProofs!StreakInv',
             FailedBeforeVerdict, GrassInv, [Next]_vars
      PROVE  GrassInv'
  <2>1. /\ IsFiniteSet(Passed) /\ PassedIsSettled /\ JobsRecord /\ RecordsFit
        /\ OneRecordEach /\ PassedIsRecorded
    BY <1>2 DEF GrassInv
  <2>2. crashes \in Nat
    BY <1>2, CrashAssumption DEF JobInv, ServiceTypes
  <2>3. IsFiniteSet(Passed)' /\ PassedIsSettled'
    BY <1>2, <2>1, PassedStep
  <2>4. JobsRecord' /\ RecordsFit'
    BY <1>2, <2>1, JobsRecordStep, RecordsFitStep
  <2>5. OneRecordEach'
    BY <1>2, <2>1, OneRecordStep
  <2>6. PassedIsRecorded'
    BY <1>2, <2>1, <2>2, PassedRecordedStep
  <2>7. CountsAreBacked'
    BY <1>2, <2>3, <2>5, CountsBackedStep
  <2> QED
    BY <2>3, <2>4, <2>5, <2>6, <2>7 DEF GrassInv
<1> QED
  BY <1>1, <1>2, JobInvariant, StreakHolds, FailuresComeFirst, PTL DEF Spec

\* So no table shows more than the passed sessions, and nothing where there are none.
LEMMA CountsShown ==
  ASSUME GrassInv, StatsProofs!StreakInv, NEW u \in Users
  PROVE  /\ stats[u].totalCount <= Cardinality(PassedOf(u))
         /\ \A day \in Dates : /\ daily[u][day] <= Cardinality(PassedOn(u, day))
                               /\ daily[u][day] > 0 => PassedOn(u, day) # {}
<1>1. /\ stats[u].totalCount \in Nat /\ stats[u].totalCount <= Cardinality(RowWritten(u))
      /\ \A day \in Dates : /\ daily[u][day] \in Nat
                            /\ daily[u][day] <= Cardinality(CellWritten(u, day))
  BY DEF GrassInv, CountsAreBacked, StatsProofs!StreakInv, StatsProofs!TypeOK,
         StatsProofs!Statistics
<1>2. ASSUME NEW day
      PROVE  /\ Cardinality(RowWritten(u)) <= Cardinality(PassedOf(u))
             /\ Cardinality(RowWritten(u)) \in Nat /\ Cardinality(PassedOf(u)) \in Nat
             /\ Cardinality(CellWritten(u, day)) <= Cardinality(PassedOn(u, day))
             /\ Cardinality(CellWritten(u, day)) \in Nat
             /\ Cardinality(PassedOn(u, day)) \in Nat
  <2>1. PassedOf(u) \subseteq Passed /\ PassedOn(u, day) \subseteq Passed
    BY DEF PassedOn, PassedOf, Passed
  <2>2. IsFiniteSet(PassedOf(u)) /\ IsFiniteSet(PassedOn(u, day))
    BY <2>1, FS_Subset DEF GrassInv
  <2>3. RowWritten(u) \subseteq PassedOf(u) /\ CellWritten(u, day) \subseteq PassedOn(u, day)
    BY DEF RowWritten, CellWritten
  <2>4. IsFiniteSet(RowWritten(u)) /\ IsFiniteSet(CellWritten(u, day))
    BY <2>2, <2>3, FS_Subset
  <2> QED
    BY <2>2, <2>3, <2>4, SizesGrow
<1>3. ASSUME NEW day \in Dates, daily[u][day] > 0
      PROVE  PassedOn(u, day) # {}
  <2>1. Cardinality({}) = 0
    BY FS_EmptySet
  <2>2. Cardinality(PassedOn(u, day)) # 0
    BY <1>1, <1>2, <1>3
  <2> QED
    BY <2>1, <2>2
<1> QED
  BY <1>1, <1>2, <1>3

(***************************************************************************)
(* No day and no total ever shows more than the passed writings, and until *)
(* a crash none shows nothing where there are some, with no check under    *)
(* way; for any number of users, sessions, concurrent checks and crashes,  *)
(* when no stored verdict is followed by a failure.                        *)
(***************************************************************************)
THEOREM GrassShowsPasses ==
  ASSUME VerdictsStand
  PROVE  Spec => []GrassMatchesPassed
<1>1. ASSUME GrassInv, StatsProofs!StreakInv
      PROVE  GrassMatchesPassed
  <2>1. ASSUME NEW u \in Users
        PROVE  /\ stats[u].totalCount <= Cardinality(PassedOf(u))
               /\ \A day \in Dates : daily[u][day] <= Cardinality(PassedOn(u, day))
    BY <1>1, CountsShown
  <2>2. ASSUME NEW s \in Passed, crashes = 0, Live = {}
        PROVE  /\ stats[Owner[s]].totalCount > 0
               /\ daily[Owner[s]][row[s].clientDate] > 0
    <3>1. PICK r \in Recorded : SessionOf(r) = s
      BY <1>1, <2>2 DEF GrassInv, PassedIsRecorded
    <3>2. r \in Requests /\ job[r].pc # "recordWriting" /\ rec[r].pc # "idle"
      BY <2>2, <3>1 DEF Recorded, Live
    <3>3. RecordOf(r)
      BY <1>1, <3>1 DEF GrassInv, RecordsFit
    <3>4. rec[r].pc = "done"
      BY <1>1, <3>2, <3>3 DEF GrassInv, JobsRecord, Recording, RecordOf,
         StatsProofs!StreakInv, StatsProofs!TypeOK, StatsProofs!Calls, StatsProofs!CallStates,
         StatsProofs!IdleCall
    <3> QED
      BY <3>1, <3>3, <3>4 DEF RecordOf
  <2>3. ASSUME NEW u \in Users, crashes = 0, Live = {}
        PROVE  /\ PassedOf(u) # {} => stats[u].totalCount > 0
               /\ \A day \in Dates : PassedOn(u, day) # {} => daily[u][day] > 0
    <3>1. \A s \in PassedOf(u) : s \in Passed /\ Owner[s] = u
      BY DEF PassedOf, Passed
    <3>2. \A day \in Dates : \A s \in PassedOn(u, day) :
             s \in PassedOf(u) /\ row[s].clientDate = day
      BY DEF PassedOn
    <3> QED
      BY <2>2, <2>3, <3>1, <3>2
  <2> QED
    BY <2>1, <2>3 DEF GrassMatchesPassed
<1> QED
  BY <1>1, GrassInvariant, StreakHolds, PTL

-----------------------------------------------------------------------------
(* Checks that come one at a time are all counted. *)

\* No two calls of recordWriting for one user are under way at once.
OneAtATime ==
    \A r, q \in Requests :
        rec[r].pc \in Recording /\ rec[q].pc \in Recording /\ rec[r].user = rec[q].user => r = q

(***************************************************************************)
(* Nothing the user has passed is missing from the calendar or the total:  *)
(* until a crash, and while no check of the user is under way, every day   *)
(* shows as many writings as have passed on it, and the total all of them. *)
(***************************************************************************)
EveryPassCounts ==
    crashes = 0 =>
        \A u \in Users : (\A r \in Live : Owner[SessionOf(r)] # u) =>
            /\ stats[u].totalCount = Cardinality(PassedOf(u))
            /\ \A day \in Dates : daily[u][day] = Cardinality(PassedOn(u, day))

(***************************************************************************)
(* The inductive invariant behind it: CountsAreBacked with equality, for   *)
(* the tables and for what the calls have read.                            *)
(***************************************************************************)
CountsAreExact ==
    crashes = 0 =>
        /\ \A u \in Users : stats[u].totalCount = Cardinality(RowWritten(u))
        /\ \A u \in Users, day \in Dates : daily[u][day] = Cardinality(CellWritten(u, day))
        /\ \A r \in Requests :
              /\ rec[r].pc \in Snapshots =>
                    rec[r].existing.totalCount = Cardinality(RowWritten(rec[r].user))
              /\ rec[r].pc = "writeActivity" =>
                    rec[r].count = Cardinality(CellWritten(rec[r].user, rec[r].today))

\* A call that saves the row of statistics, and one that writes a cell of grass.
Saves(r) == RecordWriting(r) /\ rec[r].pc = "saveStatistics"
Paints(r) == RecordWriting(r) /\ rec[r].pc = "writeActivity"

\* A step of one call leaves the others where they are.
LEMMA OthersWait ==
  ASSUME StatsProofs!StreakInv, NEW r \in Requests, RecordWriting(r),
         NEW q \in Requests \ {r}
  PROVE  rec'[q] = rec[q]
<1>1. rec \in [Requests -> {StatsProofs!IdleCall} \cup StatsProofs!Calls]
  BY DEF StatsProofs!StreakInv, StatsProofs!TypeOK
<1> QED
  BY <1>1 DEF RecordWriting, Stats!Step, Stats!FindStatistics, Stats!ReadActivity,
      Stats!WriteActivity, Stats!SaveStatistics, Stats!Return, Stats!Advance

\* The four calls of recordWriting in their order, with what they read.
LEMMA WriterMoves ==
  ASSUME VerdictsStand, StatsProofs!StreakInv, NEW r \in Requests, RecordWriting(r)
  PROVE  /\ rec[r].pc = "findStatistics" =>
               rec'[r].pc = "readActivity" /\ rec'[r].existing = stats[rec[r].user]
         /\ rec[r].pc = "readActivity" =>
               /\ rec'[r].pc = "writeActivity" /\ rec'[r].existing = rec[r].existing
               /\ rec'[r].count = daily[rec[r].user][rec[r].today]
         /\ rec[r].pc = "writeActivity" =>
               rec'[r].pc = "saveStatistics" /\ rec'[r].existing = rec[r].existing
         /\ rec[r].pc = "saveStatistics" => rec'[r].pc = "done"
<1>1. /\ Stats!Outcomes("findStatistics") = {"ok"} /\ Stats!Outcomes("readActivity") = {"ok"}
      /\ Stats!Outcomes("writeActivity") = {"ok"} /\ Stats!Outcomes("saveStatistics") = {"ok"}
  BY DEF VerdictsStand, Stats!Outcomes
<1>2. Stats!Step(r)
  BY DEF RecordWriting
<1>3. rec \in [Requests -> {StatsProofs!IdleCall} \cup StatsProofs!Calls]
  BY DEF StatsProofs!StreakInv, StatsProofs!TypeOK
<1>4. rec[r] # StatsProofs!IdleCall
  BY <1>2 DEF Stats!Step, Stats!FindStatistics, Stats!ReadActivity, Stats!WriteActivity,
              Stats!SaveStatistics, StatsProofs!IdleCall
<1>5. rec[r] \in StatsProofs!Calls
  BY <1>3, <1>4
<1>6. CASE Stats!FindStatistics(r)
  <2>1. /\ rec[r].pc = "findStatistics"
        /\ rec'[r] = [rec[r] EXCEPT !.pc = "readActivity", !.existing = stats[rec[r].user]]
    BY <1>1, <1>3, <1>6 DEF Stats!FindStatistics
  <2> QED
    BY <1>5, <2>1 DEF StatsProofs!Calls
<1>7. CASE Stats!ReadActivity(r)
  <2>1. /\ rec[r].pc = "readActivity"
        /\ rec'[r] = [rec[r] EXCEPT !.pc = "writeActivity",
                                    !.count = daily[rec[r].user][rec[r].today]]
    BY <1>1, <1>3, <1>7 DEF Stats!ReadActivity
  <2> QED
    BY <1>5, <2>1 DEF StatsProofs!Calls
<1>8. CASE Stats!WriteActivity(r)
  BY <1>1, <1>3, <1>5, <1>8 DEF Stats!WriteActivity, Stats!Advance, StatsProofs!Calls
<1>9. CASE Stats!SaveStatistics(r)
  BY <1>1, <1>3, <1>5, <1>9 DEF Stats!SaveStatistics, Stats!Return, StatsProofs!Calls
<1> QED
  BY <1>2, <1>6, <1>7, <1>8, <1>9 DEF Stats!Step

\* What a call that writes leaves in its row or cell.
LEMMA WriterAdds ==
  ASSUME VerdictsStand, StatsProofs!StreakInv, NEW r \in Requests, RecordWriting(r)
  PROVE  /\ Saves(r) => stats'[rec[r].user].totalCount = rec[r].existing.totalCount + 1
         /\ Paints(r) => daily'[rec[r].user][rec[r].today] = rec[r].count + 1
<1>1. /\ rec'[r].pc = "done" =>
            stats'[rec[r].user] = StatsProofs!NewStatistics(rec[r].existing, rec[r].today)
      /\ rec'[r].pc = "saveStatistics" =>
            daily'[rec[r].user][rec[r].today] = rec[r].count + 1
  BY RecordingIsStep, Assumptions, StatsProofs!SavedOrWritten DEF StatsProofs!StreakInv
<1> QED
  BY <1>1, WriterMoves DEF Saves, Paints, StatsProofs!NewStatistics

\* A row and a cell change only when a call of their own writes them.
LEMMA TablesChange ==
  ASSUME VerdictsStand, JobInv, StatsProofs!StreakInv, [Next]_vars, ~Crash, NEW u \in Users
  PROVE  /\ stats'[u] # stats[u] => \E r \in Requests : Saves(r) /\ rec[r].user = u
         /\ \A day \in Dates : daily'[u][day] # daily[u][day] =>
               \E r \in Requests : Paints(r) /\ rec[r].user = u /\ rec[r].today = day
<1>1. CASE UNCHANGED statsVars
  BY <1>1 DEF statsVars
<1>2. ASSUME NEW r \in Requests,
             \/ StatsProofs!Step(r)
             \/ \E x \in Users, d \in Dates : StatsProofs!Begin(r, x, d)
      PROVE  /\ stats' # stats => /\ Saves(r)
                                  /\ \A x \in Users \ {rec[r].user} : stats'[x] = stats[x]
             /\ daily' # daily =>
                   /\ Paints(r)
                   /\ \A x \in Users, d \in Dates :
                         x # rec[r].user \/ d # rec[r].today => daily'[x][d] = daily[x][d]
  <2>1. /\ stats' # stats =>
              /\ rec[r].pc = "saveStatistics" /\ rec'[r].pc \in {"done", "failed"}
              /\ \A x \in Users \ {rec[r].user} : stats'[x] = stats[x]
        /\ daily' # daily =>
              /\ rec[r].pc = "writeActivity" /\ rec'[r].pc \in {"saveStatistics", "failed"}
              /\ \A x \in Users, d \in Dates :
                    x # rec[r].user \/ d # rec[r].today => daily'[x][d] = daily[x][d]
    BY <1>2, Assumptions, StatsProofs!StepEffect DEF StatsProofs!StreakInv
  <2>2. rec'[r].pc # rec[r].pc /\ rec[r].pc # "idle" => RecordWriting(r)
    BY RecordStep DEF MakesCall, StatsProofs!StreakInv
  <2> QED
    BY <2>1, <2>2 DEF Saves, Paints
<1> QED
  BY <1>1, <1>2, CallStep

\* A passed session joins those written to a table only by the call that writes it.
LEMMA WhoJoins ==
  ASSUME VerdictsStand, JobInv, StatsProofs!StreakInv, FailedBeforeVerdict, GrassInv,
         [Next]_vars, ~Crash, NEW u, NEW day, NEW s
  PROVE  /\ s \in RowWritten(u)' /\ s \notin RowWritten(u) =>
               \E r \in Requests : Saves(r) /\ rec[r].user = u /\ SessionOf(r) = s
         /\ s \in CellWritten(u, day)' /\ s \notin CellWritten(u, day) =>
               \E r \in Requests : /\ Paints(r) /\ rec[r].user = u /\ rec[r].today = day
                                   /\ SessionOf(r) = s
<1>1. PassedIsSettled /\ RecordsFit
  BY DEF GrassInv
<1>2. ASSUME s \in Passed', s \notin Passed
      PROVE  s \in SessionsAt(BeforeCell)' /\ s \in SessionsAt(Recording)'
  <2>1. PICK r \in Requests : MakesCall(r) /\ SessionOf(r) = s
    BY <1>2, NewPassIsCalled
  <2>2. SessionOf(r)' = s /\ rec'[r].pc = "findStatistics"
    BY <2>1, CallMade DEF MakesCall
  <2> QED
    BY <2>2 DEF SessionsAt, BeforeCell, Recording
<1>3. ASSUME s \in Passed
      PROVE  s \in Sessions /\ row'[s] = row[s]
  BY <1>1, <1>3, PassedStep DEF Passed
<1>4. ASSUME NEW r \in Requests, rec[r].pc \in Recording, SessionOf(r) = s,
             NEW pcs \in SUBSET Recording, rec[r].pc \in pcs, s \notin SessionsAt(pcs)'
      PROVE  /\ RecordWriting(r) /\ rec'[r].pc \notin pcs
             /\ rec[r].user = Owner[s] /\ rec[r].today = row[s].clientDate
  <2>1. r \in Recorded
    BY <1>4 DEF Recorded, Recording
  <2>2. SessionOf(r)' = s
    BY <1>1, <1>4, <2>1, RecordedStays
  <2>3. rec'[r].pc \notin pcs
    BY <1>4, <2>2 DEF SessionsAt
  <2>4. RecordWriting(r)
    BY <1>4, <2>3, RecordStep DEF MakesCall, Recording, StatsProofs!StreakInv
  <2> QED
    BY <1>1, <1>4, <2>1, <2>3, <2>4 DEF RecordsFit, RecordOf
<1>5. ASSUME s \in RowWritten(u)', s \notin RowWritten(u)
      PROVE  \E r \in Requests : Saves(r) /\ rec[r].user = u /\ SessionOf(r) = s
  <2>1. s \in Passed' /\ Owner[s] = u /\ s \notin SessionsAt(Recording)'
    BY <1>5 DEF RowWritten, PassedOf, Passed
  <2>2. s \in Passed
    BY <1>2, <2>1
  <2>3. s \in SessionsAt(Recording)
    BY <1>3, <1>5, <2>1, <2>2 DEF RowWritten, PassedOf, Passed
  <2>4. PICK r \in Requests : rec[r].pc \in Recording /\ SessionOf(r) = s
    BY <2>3 DEF SessionsAt
  <2>5. RecordWriting(r) /\ rec'[r].pc \notin Recording /\ rec[r].user = u
    BY <1>4, <2>1, <2>4
  <2>6. rec[r].pc = "saveStatistics"
    BY <2>4, <2>5, WriterMoves DEF Recording
  <2> QED
    BY <2>4, <2>5, <2>6 DEF Saves
<1>6. ASSUME s \in CellWritten(u, day)', s \notin CellWritten(u, day)
      PROVE  \E r \in Requests : /\ Paints(r) /\ rec[r].user = u /\ rec[r].today = day
                                 /\ SessionOf(r) = s
  <2>1. /\ s \in Passed' /\ Owner[s] = u /\ row'[s].clientDate = day
        /\ s \notin SessionsAt(BeforeCell)'
    BY <1>6 DEF CellWritten, PassedOn, PassedOf, Passed
  <2>2. s \in Passed
    BY <1>2, <2>1
  <2>3. s \in SessionsAt(BeforeCell) /\ row[s].clientDate = day
    BY <1>3, <1>6, <2>1, <2>2 DEF CellWritten, PassedOn, PassedOf, Passed
  <2>4. PICK r \in Requests : rec[r].pc \in BeforeCell /\ SessionOf(r) = s
    BY <2>3 DEF SessionsAt
  <2>5. rec[r].pc \in Recording /\ BeforeCell \in SUBSET Recording
    BY <2>4 DEF BeforeCell, Recording
  <2>6. /\ RecordWriting(r) /\ rec'[r].pc \notin BeforeCell
        /\ rec[r].user = u /\ rec[r].today = day
    BY <1>4, <2>1, <2>3, <2>4, <2>5
  <2>7. rec[r].pc = "writeActivity"
    BY <2>4, <2>6, WriterMoves DEF BeforeCell
  <2> QED
    BY <2>4, <2>6, <2>7 DEF Paints
<1> QED
  BY <1>5, <1>6

\* One call writes at a time.
LEMMA OneWriter ==
  ASSUME VerdictsStand, JobInv, StatsProofs!StreakInv,
         NEW r \in Requests, NEW q \in Requests, RecordWriting(r), RecordWriting(q)
  PROVE  r = q
<1>1. rec'[r].pc # rec[r].pc
  BY RecordingMoves, WriterMoves DEF Recording
<1> QED
  BY <1>1, OthersWait

\* A set that one member at most can join has grown by one, or is as it was.
LEMMA GrowsByOne ==
  ASSUME NEW S, NEW T, IsFiniteSet(S), S \subseteq T, NEW x, x \in T \ S,
         \A y \in T \ S : y = x
  PROVE  Cardinality(T) = Cardinality(S) + 1
<1>1. T = S \cup {x}
  OBVIOUS
<1> QED
  BY <1>1, FS_AddElement

\* The sizes after a step: one more where a call has just written, the same everywhere else.
LEMMA ExactSizes ==
  ASSUME VerdictsStand, JobInv, StatsProofs!StreakInv, FailedBeforeVerdict, GrassInv,
         [Next]_vars, IsFiniteSet(Passed'), OneRecordEach', ~Crash, NEW u, NEW day
  PROVE  /\ (\E r \in Requests : Saves(r) /\ rec[r].user = u)
               => Cardinality(RowWritten(u))' = Cardinality(RowWritten(u)) + 1
         /\ (\A r \in Requests : ~(Saves(r) /\ rec[r].user = u))
               => Cardinality(RowWritten(u))' = Cardinality(RowWritten(u))
         /\ (\E r \in Requests : Paints(r) /\ rec[r].user = u /\ rec[r].today = day)
               => Cardinality(CellWritten(u, day))' = Cardinality(CellWritten(u, day)) + 1
         /\ (\A r \in Requests : ~(Paints(r) /\ rec[r].user = u /\ rec[r].today = day))
               => Cardinality(CellWritten(u, day))' = Cardinality(CellWritten(u, day))
<1>1. /\ RowWritten(u) \subseteq RowWritten(u)' /\ IsFiniteSet(RowWritten(u))
      /\ CellWritten(u, day) \subseteq CellWritten(u, day)'
      /\ IsFiniteSet(CellWritten(u, day))
  BY WrittenStay
<1>2. /\ Cardinality(RowWritten(u)) \in Nat /\ Cardinality(CellWritten(u, day)) \in Nat
      /\ \A r \in Requests :
            rec[r].user = u /\ rec[r].pc = "saveStatistics" /\ rec'[r].pc = "done" =>
               Cardinality(RowWritten(u)) + 1 <= Cardinality(RowWritten(u))'
      /\ \A r \in Requests :
            (/\ rec[r].user = u /\ rec[r].today = day
             /\ rec[r].pc = "writeActivity" /\ rec'[r].pc = "saveStatistics")
              => Cardinality(CellWritten(u, day)) + 1 <= Cardinality(CellWritten(u, day))'
  <2>1. ASSUME NEW r \in Requests, rec[r].user = u, rec[r].pc = "saveStatistics",
               rec'[r].pc = "done"
        PROVE  Cardinality(RowWritten(u)) + 1 <= Cardinality(RowWritten(u))'
    <3>1. PICK d : d = rec[r].today
      OBVIOUS
    <3> QED
      BY <2>1, <3>1, WrittenSizes
  <2>2. ASSUME NEW r \in Requests, rec[r].user = u, rec[r].today = day,
               rec[r].pc = "writeActivity", rec'[r].pc = "saveStatistics"
        PROVE  Cardinality(CellWritten(u, day)) + 1 <= Cardinality(CellWritten(u, day))'
    BY <2>2, WrittenSizes
  <2>3. Cardinality(RowWritten(u)) \in Nat /\ Cardinality(CellWritten(u, day)) \in Nat
    BY WrittenSizes
  <2> QED
    BY <2>1, <2>2, <2>3
<1>3. ASSUME NEW r \in Requests, Saves(r), rec[r].user = u
      PROVE  Cardinality(RowWritten(u))' = Cardinality(RowWritten(u)) + 1
  <2>1. Cardinality(RowWritten(u)) + 1 <= Cardinality(RowWritten(u))'
    BY <1>2, <1>3, WriterMoves DEF Saves
  <2>2. RowWritten(u)' # RowWritten(u)
    BY <1>2, <2>1
  <2>3. PICK x \in RowWritten(u)' : x \notin RowWritten(u)
    BY <1>1, <2>2
  <2>4. \A y \in RowWritten(u)' \ RowWritten(u) : y = SessionOf(r)
    BY <1>3, WhoJoins, OneWriter DEF Saves
  <2>5. \A y \in RowWritten(u)' \ RowWritten(u) : y = x
    BY <2>3, <2>4
  <2> QED
    BY <1>1, <2>3, <2>5, GrowsByOne
<1>4. ASSUME \A r \in Requests : ~(Saves(r) /\ rec[r].user = u)
      PROVE  Cardinality(RowWritten(u))' = Cardinality(RowWritten(u))
  <2>1. RowWritten(u)' = RowWritten(u)
    BY <1>1, <1>4, WhoJoins
  <2> QED
    BY <2>1
<1>5. ASSUME NEW r \in Requests, Paints(r), rec[r].user = u, rec[r].today = day
      PROVE  Cardinality(CellWritten(u, day))' = Cardinality(CellWritten(u, day)) + 1
  <2>1. Cardinality(CellWritten(u, day)) + 1 <= Cardinality(CellWritten(u, day))'
    BY <1>2, <1>5, WriterMoves DEF Paints
  <2>2. CellWritten(u, day)' # CellWritten(u, day)
    BY <1>2, <2>1
  <2>3. PICK x \in CellWritten(u, day)' : x \notin CellWritten(u, day)
    BY <1>1, <2>2
  <2>4. \A y \in CellWritten(u, day)' \ CellWritten(u, day) : y = SessionOf(r)
    BY <1>5, WhoJoins, OneWriter DEF Paints
  <2>5. \A y \in CellWritten(u, day)' \ CellWritten(u, day) : y = x
    BY <2>3, <2>4
  <2> QED
    BY <1>1, <2>3, <2>5, GrowsByOne
<1>6. ASSUME \A r \in Requests : ~(Paints(r) /\ rec[r].user = u /\ rec[r].today = day)
      PROVE  Cardinality(CellWritten(u, day))' = Cardinality(CellWritten(u, day))
  <2>1. CellWritten(u, day)' = CellWritten(u, day)
    BY <1>1, <1>6, WhoJoins
  <2> QED
    BY <2>1
<1> QED
  BY <1>3, <1>4, <1>5, <1>6

\* Equality is kept, as long as no two calls of one user overlap.
LEMMA CountsExactStep ==
  ASSUME VerdictsStand, JobInv, StatsProofs!StreakInv, FailedBeforeVerdict, GrassInv,
         IsFiniteSet(Passed'), OneRecordEach', OneAtATime, CountsAreExact, crashes \in Nat,
         [Next]_vars
  PROVE  CountsAreExact'
<1> SUFFICES ASSUME crashes' = 0 PROVE CountsAreExact'
  BY DEF CountsAreExact
<1>1. ~Crash /\ crashes = 0
  <2>1. ~Crash
    BY DEF Crash
  <2> QED
    BY <2>1, CrashesCounted
<1> DEFINE rows(u) == Cardinality(RowWritten(u))
           cells(u, day) == Cardinality(CellWritten(u, day))
<1>2. /\ \A u : /\ (\E r \in Requests : Saves(r) /\ rec[r].user = u) => rows(u)' = rows(u) + 1
                /\ (\A r \in Requests : ~(Saves(r) /\ rec[r].user = u)) => rows(u)' = rows(u)
      /\ \A u, day :
           /\ (\E r \in Requests : Paints(r) /\ rec[r].user = u /\ rec[r].today = day)
                 => cells(u, day)' = cells(u, day) + 1
           /\ (\A r \in Requests : ~(Paints(r) /\ rec[r].user = u /\ rec[r].today = day))
                 => cells(u, day)' = cells(u, day)
  BY <1>1, ExactSizes
<1>3. /\ \A u \in Users : stats[u].totalCount = rows(u)
      /\ \A u \in Users, day \in Dates : daily[u][day] = cells(u, day)
      /\ \A r \in Requests : \A u, day : u = rec[r].user /\ day = rec[r].today =>
            /\ rec[r].pc \in Snapshots => rec[r].existing.totalCount = rows(u)
            /\ rec[r].pc = "writeActivity" => rec[r].count = cells(u, day)
  BY <1>1 DEF CountsAreExact
<1>4. \A r \in Requests : rec[r].pc \in Recording => rec[r].user \in Users /\ rec[r].today \in Dates
  BY Assumptions, StatsProofs!ActiveCall
     DEF StatsProofs!StreakInv, StatsProofs!Calls, StatsProofs!CallStates, Recording
<1> HIDE DEF rows, cells
<1>5. ASSUME NEW u \in Users PROVE stats'[u].totalCount = rows(u)'
  <2>1. CASE \E r \in Requests : Saves(r) /\ rec[r].user = u
    <3>1. PICK r \in Requests : Saves(r) /\ rec[r].user = u
      BY <2>1
    <3>2. stats'[u].totalCount = rec[r].existing.totalCount + 1
      BY <3>1, WriterAdds DEF Saves
    <3>3. rec[r].existing.totalCount = rows(u)
      <4>1. PICK day : day = rec[r].today
        OBVIOUS
      <4> QED
        BY <1>3, <3>1, <4>1 DEF Saves, Snapshots
    <3>4. rows(u)' = rows(u) + 1
      BY <1>2, <2>1
    <3> QED
      BY <3>2, <3>3, <3>4
  <2>2. CASE ~\E r \in Requests : Saves(r) /\ rec[r].user = u
    <3>1. stats'[u] = stats[u]
      BY <1>1, <2>2, TablesChange
    <3>2. rows(u)' = rows(u)
      BY <1>2, <2>2
    <3> QED
      BY <1>3, <3>1, <3>2
  <2> QED
    BY <2>1, <2>2
<1>6. ASSUME NEW u \in Users, NEW day \in Dates PROVE daily'[u][day] = cells(u, day)'
  <2>1. CASE \E r \in Requests : Paints(r) /\ rec[r].user = u /\ rec[r].today = day
    <3>1. PICK r \in Requests : Paints(r) /\ rec[r].user = u /\ rec[r].today = day
      BY <2>1
    <3>2. daily'[u][day] = rec[r].count + 1
      BY <3>1, WriterAdds DEF Paints
    <3>3. rec[r].count = cells(u, day)
      BY <1>3, <3>1 DEF Paints
    <3>4. cells(u, day)' = cells(u, day) + 1
      BY <1>2, <2>1
    <3> QED
      BY <3>2, <3>3, <3>4
  <2>2. CASE ~\E r \in Requests : Paints(r) /\ rec[r].user = u /\ rec[r].today = day
    <3>1. daily'[u][day] = daily[u][day]
      BY <1>1, <2>2, TablesChange
    <3>2. cells(u, day)' = cells(u, day)
      BY <1>2, <2>2
    <3> QED
      BY <1>3, <3>1, <3>2
  <2> QED
    BY <2>1, <2>2
<1>7. ASSUME NEW q \in Requests, NEW u, NEW day, u = rec'[q].user, day = rec'[q].today
      PROVE  /\ rec'[q].pc \in Snapshots => rec'[q].existing.totalCount = rows(u)'
             /\ rec'[q].pc = "writeActivity" => rec'[q].count = cells(u, day)'
  <2> SUFFICES ASSUME rec'[q].pc \in Snapshots
               PROVE  /\ rec'[q].existing.totalCount = rows(u)'
                      /\ rec'[q].pc = "writeActivity" => rec'[q].count = cells(u, day)'
    BY DEF Snapshots
  <2>1. ~MakesCall(q)
    BY DEF MakesCall, Snapshots
  <2>2. rec[q].pc \in Recording /\ rec[q].user = u /\ rec[q].today = day
    BY <1>1, <1>7, <2>1, RecordStep, RecordingMoves DEF StatsProofs!StreakInv, Snapshots, Recording
  <2>3. u \in Users /\ day \in Dates
    BY <1>4, <2>2
  <2>4. ASSUME NEW r \in Requests, RecordWriting(r), rec[r].user = u PROVE r = q
    BY <2>2, <2>4, RecordingMoves DEF OneAtATime
  <2>5. rows(u)' = rows(u)
    <3>1. \A r \in Requests : ~(Saves(r) /\ rec[r].user = u)
      <4> SUFFICES ASSUME NEW r \in Requests, Saves(r), rec[r].user = u PROVE FALSE
        OBVIOUS
      <4>1. r = q /\ RecordWriting(q) /\ rec[q].pc = "saveStatistics"
        BY <2>4 DEF Saves
      <4> QED
        BY <4>1, WriterMoves DEF Snapshots
    <3> QED
      BY <1>2, <3>1
  <2>6. CASE rec'[q] = rec[q]
    <3>1. rec'[q].existing.totalCount = rows(u)'
      BY <1>3, <2>2, <2>5, <2>6
    <3>2. ASSUME rec'[q].pc = "writeActivity" PROVE rec'[q].count = cells(u, day)'
      <4>1. \A r \in Requests : ~(Paints(r) /\ rec[r].user = u /\ rec[r].today = day)
        <5> SUFFICES ASSUME NEW r \in Requests, Paints(r), rec[r].user = u PROVE FALSE
          OBVIOUS
        <5>1. r = q /\ RecordWriting(q) /\ rec[q].pc = "writeActivity"
          BY <2>4 DEF Paints
        <5> QED
          BY <3>2, <5>1, WriterMoves
      <4>2. cells(u, day)' = cells(u, day)
        BY <1>2, <4>1
      <4> QED
        BY <1>3, <2>2, <2>6, <3>2, <4>2
    <3> QED
      BY <3>1, <3>2
  <2>7. CASE RecordWriting(q)
    <3>1. rec'[q].existing.totalCount = rows(u)'
      <4>1. rec[q].pc = "findStatistics" => rec'[q].existing = stats[u]
        BY <2>2, <2>7, WriterMoves
      <4>2. rec[q].pc \in {"readActivity", "writeActivity"} =>
               rec'[q].existing = rec[q].existing /\ rec[q].existing.totalCount = rows(u)
        BY <1>3, <2>2, <2>7, WriterMoves DEF Snapshots
      <4>3. rec[q].pc # "saveStatistics"
        BY <2>7, WriterMoves DEF Snapshots
      <4> QED
        BY <1>3, <2>2, <2>3, <2>5, <4>1, <4>2, <4>3 DEF Recording
    <3>2. ASSUME rec'[q].pc = "writeActivity" PROVE rec'[q].count = cells(u, day)'
      <4>1. rec[q].pc = "readActivity" /\ rec'[q].count = daily[u][day]
        BY <2>2, <2>7, <3>2, WriterMoves DEF Recording
      <4>2. \A r \in Requests : ~(Paints(r) /\ rec[r].user = u /\ rec[r].today = day)
        BY <2>4, <4>1 DEF Paints
      <4>3. cells(u, day)' = cells(u, day)
        BY <1>2, <4>2
      <4> QED
        BY <1>3, <2>3, <4>1, <4>3
    <3> QED
      BY <3>1, <3>2
  <2> QED
    BY <1>1, <2>1, <2>6, <2>7, RecordStep DEF StatsProofs!StreakInv
<1>8. CountsAreExact' <=>
         (crashes' = 0 =>
           /\ \A u \in Users : stats'[u].totalCount = rows(u)'
           /\ \A u \in Users, day \in Dates : daily'[u][day] = cells(u, day)'
           /\ \A r \in Requests : \A u, day : u = rec'[r].user /\ day = rec'[r].today =>
                /\ rec'[r].pc \in Snapshots => rec'[r].existing.totalCount = rows(u)'
                /\ rec'[r].pc = "writeActivity" => rec'[r].count = cells(u, day)')
  BY DEF CountsAreExact, rows, cells
<1> QED
  BY <1>5, <1>6, <1>7, <1>8

(***************************************************************************)
(* In every execution in which no two checks of one user record their      *)
(* writings at the same time, every writing that passes is counted.        *)
(***************************************************************************)
THEOREM LoneChecksCount ==
  ASSUME VerdictsStand
  PROVE  Spec /\ []OneAtATime => []EveryPassCounts
<1>1. Init => CountsAreExact
  <2> SUFFICES ASSUME Init PROVE CountsAreExact
    OBVIOUS
  <2>1. /\ \A r \in Requests : rec[r].pc = "idle"
        /\ \A s \in Sessions : ~row[s].passed
        /\ \A u \in Users : stats[u].totalCount = 0
        /\ \A u \in Users, day \in Dates : daily[u][day] = 0
    BY DEF Init, Stats!Init, Stats!IdleCall, Stats!EmptyStatistics, NoRow
  <2>2. \A u : RowWritten(u) = {} /\ \A day : CellWritten(u, day) = {}
    BY <2>1 DEF RowWritten, CellWritten, PassedOn, PassedOf
  <2>3. Cardinality({}) = 0
    BY FS_EmptySet
  <2>4. \A u : Cardinality(RowWritten(u)) = 0 /\ \A day : Cardinality(CellWritten(u, day)) = 0
    BY <2>2, <2>3
  <2> QED
    BY <2>1, <2>4 DEF CountsAreExact, Snapshots
<1>2. ASSUME JobInv, StatsProofs!StreakInv, FailedBeforeVerdict, GrassInv, GrassInv',
             OneAtATime, CountsAreExact, [Next]_vars
      PROVE  CountsAreExact'
  <2>1. crashes \in Nat
    BY <1>2, CrashAssumption DEF JobInv, ServiceTypes
  <2>2. IsFiniteSet(Passed') /\ OneRecordEach'
    BY <1>2 DEF GrassInv
  <2> QED
    BY <1>2, <2>1, <2>2, CountsExactStep
<1>3. ASSUME GrassInv, CountsAreExact
      PROVE  EveryPassCounts
  <2> SUFFICES ASSUME crashes = 0, NEW u \in Users, \A r \in Live : Owner[SessionOf(r)] # u
               PROVE  /\ stats[u].totalCount = Cardinality(PassedOf(u))
                      /\ \A day \in Dates : daily[u][day] = Cardinality(PassedOn(u, day))
    BY DEF EveryPassCounts
  <2>1. PassedOf(u) \cap SessionsAt(Recording) = {}
    <3> SUFFICES ASSUME NEW r \in Requests, rec[r].pc \in Recording, Owner[SessionOf(r)] = u
                 PROVE  FALSE
      BY DEF PassedOf, SessionsAt
    <3>1. r \in Live
      BY <1>3 DEF GrassInv, JobsRecord, Live
    <3> QED
      BY <3>1
  <2>2. SessionsAt(BeforeCell) \subseteq SessionsAt(Recording)
    BY DEF SessionsAt, BeforeCell, Recording
  <2>3. RowWritten(u) = PassedOf(u) /\ \A day : CellWritten(u, day) = PassedOn(u, day)
    BY <2>1, <2>2 DEF RowWritten, CellWritten, PassedOn
  <2> QED
    BY <1>3, <2>3 DEF CountsAreExact
<1> QED
  BY <1>1, <1>2, <1>3, GrassInvariant, JobInvariant, StreakHolds, FailuresComeFirst, PTL DEF Spec

-----------------------------------------------------------------------------
(* What the limiter gives the service: as many checks write at once as it has slots. *)

\* Checks that store a verdict, record a writing or report a failure.
Writers == {r \in Requests : job[r].pc \in {"markCompleted", "recordWriting", "markFailed"}}

WritersHoldSlots == \A r \in Writers : task[r] = "running"

\* Only SIMILARITY_MAX_CONCURRENCY checks write to the tables at once.
WritersAreBounded == IsFiniteSet(Writers) /\ Cardinality(Writers) <= Max

\* A slot is given back by the job that has ended, so a writer keeps its own.
LEMMA SlotsStay ==
  ASSUME JobInv, LimiterProofs!LimiterInv, WritersHoldSlots, [Next]_vars
  PROVE  WritersHoldSlots'
<1> SUFFICES ASSUME NEW r \in Writers' PROVE task'[r] = "running"
  BY DEF WritersHoldSlots
<1>1. /\ r \in Requests /\ job'[r].pc \in {"markCompleted", "recordWriting", "markFailed"}
      /\ task \in [Requests -> LimiterProofs!TaskStates]
      /\ job \in [Requests -> [pc : JobStates, passed : BOOLEAN]]
  BY DEF Writers, LimiterProofs!LimiterInv, LimiterProofs!TypeOK, JobInv, ServiceTypes
<1>2. ~Crash /\ ~ClaimForProcessing(r)
  <2>1. ~Crash
    BY <1>1 DEF Crash, NoJob
  <2>2. ~ClaimForProcessing(r)
    <3> SUFFICES ASSUME ClaimForProcessing(r) PROVE FALSE
      OBVIOUS
    <3>1. job'[r] = job[r] \/ job'[r].pc = "inspect"
      BY <1>1 DEF ClaimForProcessing
    <3>2. r \in Live
      BY <1>1, <3>1 DEF Live
    <3> QED
      BY <3>2, LiveIsAccepted DEF ClaimForProcessing
  <2> QED
    BY <2>1, <2>2
<1>3. task[r] = "running" /\ job[r].pc # "ended"
  <2>1. Inspect(r) => task[r] = "running" /\ job[r].pc # "ended"
    BY DEF Inspect
  <2>2. MarkCompleted(r) \/ RecordWriting(r) \/ MarkFailed(r) \/ job'[r] = job[r]
          => r \in Writers /\ job[r].pc # "ended"
    BY <1>1 DEF MarkCompleted, RecordWriting, MarkFailed, Writers
  <2> QED
    BY <1>1, <1>2, <2>1, <2>2, JobStepOf DEF WritersHoldSlots
<1>4. ASSUME NEW q \in Requests, LimiterProofs!Run(q)
      PROVE  task'[r] = "running"
  <2>1. task[q] = "new" /\ \E pc : task' = [task EXCEPT ![q] = pc]
    BY <1>4 DEF LimiterProofs!Run
  <2> QED
    BY <1>1, <1>3, <2>1
<1>5. ASSUME NEW q \in Requests, LimiterProofs!Start(q)
      PROVE  task'[r] = "running"
  BY <1>1, <1>3, <1>5 DEF LimiterProofs!Start
<1>6. ASSUME NEW q \in Requests, LimiterProofs!Finish(q), job[q].pc = "ended"
      PROVE  task'[r] = "running"
  <2>1. q # r
    BY <1>3, <1>6
  <2>2. CASE task' = [task EXCEPT ![q] = "done"]
    BY <1>1, <1>3, <2>1, <2>2
  <2>3. CASE waiters # <<>> /\ task' = [task EXCEPT ![q] = "done", ![Head(waiters)] = "starting"]
    <3>1. waiters \in Seq(Requests)
      BY DEF LimiterProofs!LimiterInv, LimiterProofs!TypeOK
    <3>2. Head(waiters) = waiters[1] /\ 1 \in DOMAIN waiters /\ waiters[1] \in Requests
      BY <2>3, <3>1
    <3>3. task[waiters[1]] = "queued"
      BY <3>2 DEF LimiterProofs!LimiterInv, LimiterProofs!QueueIsExact
    <3> QED
      BY <1>1, <1>3, <2>1, <2>3, <3>2, <3>3
  <2> QED
    BY <1>6, <2>2, <2>3 DEF LimiterProofs!Finish
<1>7. CASE UNCHANGED limiterVars
  BY <1>3, <1>7 DEF limiterVars
<1> QED
  BY <1>2, <1>4, <1>5, <1>6, <1>7, LimiterStep

\* The slots, at every moment.
LEMMA SlotsHeld == Spec => []WritersHoldSlots
<1>1. Init => WritersHoldSlots
  BY DEF Init, NoJob, Writers, WritersHoldSlots
<1>2. ASSUME JobInv, LimiterProofs!LimiterInv, WritersHoldSlots, [Next]_vars
      PROVE  WritersHoldSlots'
  BY <1>2, SlotsStay
<1> QED
  BY <1>1, <1>2, JobInvariant, LimiterHolds, PTL DEF Spec

(***************************************************************************)
(* The limiter of the handwriting check bounds the writing service's own   *)
(* writes too: complete() and retryCheck() may be called by any number of  *)
(* requests, and SIMILARITY_MAX_CONCURRENCY of them at most store a        *)
(* verdict, record a writing or report a failure at any moment.            *)
(***************************************************************************)
THEOREM WritersStayBounded == Spec => []WritersAreBounded
<1>1. ASSUME LimiterProofs!LimiterInv, WritersHoldSlots
      PROVE  WritersAreBounded
  <2> DEFINE Slots == LimiterProofs!Holders
  <2>1. Writers \subseteq Slots
    BY <1>1 DEF WritersHoldSlots, Writers, LimiterProofs!Holders
  <2>2. IsFiniteSet(Slots) /\ active = Cardinality(Slots) /\ active \in 0..Max
    <3>1. IsFiniteSet(LimiterProofs!Holders)
      BY <1>1 DEF LimiterProofs!LimiterInv, LimiterProofs!IsFiniteSet, IsFiniteSet
    <3>2. active = Cardinality(LimiterProofs!Holders)
      BY <1>1 DEF LimiterProofs!LimiterInv, LimiterProofs!SlotsAreCounted,
                  LimiterProofs!Cardinality, Cardinality, LimiterProofs!IsFiniteSet, IsFiniteSet
    <3>3. active \in 0..Max
      BY <1>1 DEF LimiterProofs!LimiterInv, LimiterProofs!TypeOK
    <3> QED
      BY <3>1, <3>2, <3>3
  <2> HIDE DEF Slots
  <2>3. IsFiniteSet(Writers) /\ Cardinality(Writers) <= Cardinality(Slots)
    BY <2>1, <2>2, FS_Subset
  <2>4. Cardinality(Writers) \in Nat
    BY <2>3, FS_CardinalityType
  <2> QED
    BY <2>2, <2>3, <2>4, LimitAssumption DEF WritersAreBounded
<1> QED
  BY <1>1, SlotsHeld, LimiterHolds, PTL

(***************************************************************************)
(* With one slot the limiter alone gives what LoneChecksCount assumes: the *)
(* two calls that would overlap cannot both run, so no writing that passes *)
(* is missing from the total or from the calendar while nothing crashes.   *)
(***************************************************************************)
THEOREM OneSlotCounts ==
  ASSUME VerdictsStand, Max = 1
  PROVE  Spec => []EveryPassCounts
<1>1. ASSUME WritersAreBounded, GrassInv
      PROVE  OneAtATime
  <2> SUFFICES ASSUME NEW r \in Requests, NEW q \in Requests,
                      rec[r].pc \in Recording, rec[q].pc \in Recording, r # q
               PROVE  FALSE
    BY DEF OneAtATime
  <2>1. {r, q} \subseteq Writers
    BY <1>1 DEF GrassInv, JobsRecord, Writers
  <2>2. IsFiniteSet({r}) /\ Cardinality({r}) = 1
    BY FS_Singleton
  <2>3. {r, q} = {r} \cup {q} /\ q \notin {r}
    OBVIOUS
  <2>4. Cardinality({r, q}) = 2
    <3>1. Cardinality({r} \cup {q}) = Cardinality({r}) + 1
      BY <2>2, <2>3, FS_AddElement
    <3> QED
      BY <2>2, <2>3, <3>1
  <2>5. IsFiniteSet(Writers) /\ Cardinality(Writers) <= 1
    BY <1>1 DEF WritersAreBounded
  <2>6. Cardinality({r, q}) <= Cardinality(Writers) /\ Cardinality(Writers) \in Nat
    BY <2>1, <2>5, FS_Subset, FS_CardinalityType
  <2> QED
    BY <2>4, <2>5, <2>6
<1>2. Spec /\ []OneAtATime => []EveryPassCounts
  BY LoneChecksCount
<1> QED
  BY <1>1, <1>2, WritersStayBounded, GrassInvariant, PTL
=============================================================================
