----------------------- MODULE UserProvisioning_proofs -----------------------
(***************************************************************************)
(* No handler runs for a user without a profile, for every set of users,   *)
(* requests and patches, any failures and any number of restarts.          *)
(***************************************************************************)
EXTENDS UserProvisioning, FiniteSetTheorems, SequenceTheorems, TLAPS

Rows == [present : BOOLEAN, displayName : Names, avatarUrl : Columns("avatarUrl") \cup {Null}]
Asked == [pc : RequestStates, user : Users, patch : Patches, bucket : Buckets,
          seed : Names \cup {Keep}]

\* The states of a request for whose user a profile must be there.
Backed == {"provisioned", "getProfile", "updateProfile"}

\* What the invariant says without types.
ProfilesBehind ==
    /\ \A u \in provisioned : row[u].present
    /\ \A r \in Requests : req[r].pc \in Backed => row[req[r].user].present

LEMMA InvIsTypesAndProfiles == ProvisionInv <=> TypeOK /\ ProfilesBehind
BY DEF ProvisionInv, HandlersHaveProfile, ProfilesBehind, Backed

LEMMA AskedRequest ==
  ASSUME TypeOK, NEW r \in Requests, req[r].pc \in RequestStates
  PROVE  req[r] \in Asked /\ req[r].user \in Users /\ row[req[r].user] \in Rows
<1>1. req[r] \in {Idle, Refused} \cup Asked
  BY DEF TypeOK, Asked
<1>2. req[r] # Idle /\ req[r] # Refused
  BY DEF Idle, Refused, RequestStates
<1> QED
  BY <1>1, <1>2 DEF Asked, TypeOK, Rows

\* The same of the next state.
LEMMA InvFromTypesAndProfiles == TypeOK' /\ ProfilesBehind' => ProvisionInv'
BY DEF ProvisionInv, HandlersHaveProfile, ProfilesBehind, Backed

LEMMA InitEstablishes == Init => ProvisionInv
BY RestartAssumption, InvIsTypesAndProfiles
   DEF Init, TypeOK, ProfilesBehind, Idle, NoRow, Names, Backed

(***************************************************************************)
(* Profiles never disappear, so a step of one request preserves the        *)
(* invariant when it leaves the request, and the cache, with a profile     *)
(* behind them.                                                            *)
(***************************************************************************)
LEMMA RequestStepPreserves ==
  ASSUME ProvisionInv, NEW r \in Requests,
         NEW n \in Asked, req' = [req EXCEPT ![r] = n],
         row' \in [Users -> Rows], \A u \in Users : row[u].present => row'[u].present,
         n.pc \in Backed => row'[n.user].present,
         provisioned' \in {provisioned, provisioned \cup {n.user}},
         provisioned' # provisioned => row'[n.user].present,
         restarts' = restarts
  PROVE  ProvisionInv'
<1>1. n.user \in Users
  BY DEF Asked
<1>2. TypeOK'
  BY <1>1, InvIsTypesAndProfiles DEF TypeOK, Rows, Asked
<1>3. \A u \in provisioned' : row'[u].present
  BY <1>1, InvIsTypesAndProfiles DEF TypeOK, ProfilesBehind
<1>4. ASSUME NEW q \in Requests, req'[q].pc \in Backed
      PROVE  row'[req'[q].user].present
  <2>1. CASE q = r
    BY <1>4, <2>1, InvIsTypesAndProfiles DEF TypeOK
  <2>2. CASE q # r
    <3>1. req'[q] = req[q] /\ row[req[q].user].present
      BY <1>4, <2>2, InvIsTypesAndProfiles DEF TypeOK, ProfilesBehind
    <3>2. req[q].user \in Users
      BY <1>4, <3>1, AskedRequest, InvIsTypesAndProfiles DEF Backed, RequestStates
    <3> QED
      BY <3>1, <3>2
  <2> QED
    BY <2>1, <2>2
<1> QED
  BY <1>2, <1>3, <1>4, InvFromTypesAndProfiles DEF ProfilesBehind

\* A request that moves on, or ends, without touching row or cache.
LEMMA QuietStepPreserves ==
  ASSUME ProvisionInv, NEW r \in Requests, req[r].pc \in RequestStates,
         NEW pc \in RequestStates, NEW seed \in Names \cup {Keep},
         req' = [req EXCEPT ![r] = [@ EXCEPT !.pc = pc, !.seed = seed]],
         pc \in Backed => req[r].pc \in Backed,
         UNCHANGED <<row, provisioned, restarts>>
  PROVE  ProvisionInv'
<1> DEFINE n == [req[r] EXCEPT !.pc = pc, !.seed = seed]
<1>1. n \in Asked /\ n.pc = pc /\ n.user = req[r].user
  BY AskedRequest, InvIsTypesAndProfiles DEF Asked
<1>2. row' \in [Users -> Rows] /\ req' = [req EXCEPT ![r] = n]
  BY InvIsTypesAndProfiles DEF TypeOK, Rows
<1>3. n.pc \in Backed => row'[n.user].present
  BY <1>1, InvIsTypesAndProfiles DEF ProfilesBehind
<1> HIDE DEF n
<1> QED
  BY <1>1, <1>2, <1>3, RequestStepPreserves

\* A request that is let in names a user and waits behind its cache entry, or provisions.
LEMMA LetInIsAsked ==
  ASSUME ProvisionInv, NEW h \in Headers, NEW ip \in Addresses, NEW patch \in Patches,
         Subject(h) # Null
  PROVE  /\ LetIn(h, ip, patch) \in Asked
         /\ LetIn(h, ip, patch).user \in Users
         /\ LetIn(h, ip, patch).pc \in Backed => LetIn(h, ip, patch).user \in provisioned
<1>1. Subject(h) \in Subjects /\ Subject(h).userId \in Users
  BY SubjectAssumption DEF Subjects
<1>2. Subject(h).fullName \in Names \cup {Keep}
  BY <1>1 DEF Names
<1>3. GetTracker(h, ip) \in Buckets
  BY DEF Buckets
<1> QED
  BY <1>1, <1>2, <1>3 DEF LetIn, Asked, RequestStates, Backed

\* A request that is answered 401 is over before anything is looked up.
LEMMA RefusalPreserves ==
  ASSUME ProvisionInv, NEW r \in Requests, req' = [req EXCEPT ![r] = Refused],
         UNCHANGED <<row, provisioned, restarts>>
  PROVE  ProvisionInv'
<1>1. TypeOK'
  BY InvIsTypesAndProfiles DEF TypeOK
<1>2. Refused.pc \notin Backed
  BY DEF Refused, Backed
<1>3. ProfilesBehind'
  BY <1>2, InvIsTypesAndProfiles DEF TypeOK, ProfilesBehind
<1> QED
  BY <1>1, <1>3, InvFromTypesAndProfiles

LEMMA CanActivatePreserves ==
  ASSUME ProvisionInv, NEW r \in Requests, CanActivate(r)
  PROVE  ProvisionInv'
<1>1. PICK h \in Headers, ip \in Addresses, patch \in Patches :
        req' = [req EXCEPT ![r] = IF Subject(h) = Null THEN Refused ELSE LetIn(h, ip, patch)]
  BY DEF CanActivate
<1>2. UNCHANGED <<row, provisioned, restarts>> /\ row' \in [Users -> Rows]
  BY InvIsTypesAndProfiles DEF CanActivate, TypeOK, Rows
<1>3. CASE Subject(h) = Null
  BY <1>1, <1>2, <1>3, RefusalPreserves
<1>4. CASE Subject(h) # Null
  <2> DEFINE n == LetIn(h, ip, patch)
  <2>1. n \in Asked /\ n.user \in Users /\ (n.pc \in Backed => n.user \in provisioned)
    BY <1>4, LetInIsAsked
  <2>2. req' = [req EXCEPT ![r] = n]
    BY <1>1, <1>4
  <2> HIDE DEF n
  <2>3. n.pc \in Backed => row'[n.user].present
    BY <1>2, <2>1, InvIsTypesAndProfiles DEF ProfilesBehind
  <2> QED
    BY <1>2, <2>1, <2>2, <2>3, RequestStepPreserves
<1> QED
  BY <1>3, <1>4

LEMMA FindByIdPreserves ==
  ASSUME ProvisionInv, NEW r \in Requests, FindById(r)
  PROVE  ProvisionInv'
<1>1. req[r].pc = "findById" /\ UNCHANGED <<row, provisioned, restarts>>
  BY DEF FindById
<1>2. req[r].user \in Users
  BY <1>1, AskedRequest, InvIsTypesAndProfiles DEF RequestStates
<1>3. PICK pc \in {"upsert", "failed"}, seed \in {Keep, req[r].seed} :
        req' = [req EXCEPT ![r] = [@ EXCEPT !.pc = pc, !.seed = seed]]
  BY DEF FindById, End
<1>4. seed \in Names \cup {Keep}
  BY <1>1, <1>3, AskedRequest, InvIsTypesAndProfiles DEF Asked, RequestStates
<1>5. pc \in RequestStates /\ pc \notin Backed /\ req[r].pc \in RequestStates
  BY <1>1, <1>3 DEF RequestStates, Backed
<1> QED
  BY <1>1, <1>3, <1>4, <1>5, QuietStepPreserves

LEMMA UpsertPreserves ==
  ASSUME ProvisionInv, NEW r \in Requests, Upsert(r)
  PROVE  ProvisionInv'
<1> DEFINE u == req[r].user
           w == [row[u] EXCEPT !.present = TRUE,
                               !.displayName = Written(req[r].seed, row[u].displayName)]
           n(pc) == [req[r] EXCEPT !.pc = pc, !.seed = Keep]
<1>1. req[r] \in Asked /\ u \in Users /\ row[u] \in Rows /\ row \in [Users -> Rows]
  BY AskedRequest, InvIsTypesAndProfiles DEF Upsert, RequestStates, TypeOK, Rows
<1>2. w \in Rows /\ w.present
  <2> HIDE DEF u
  <2>1. Written(req[r].seed, row[u].displayName) \in Names
    BY <1>1 DEF Written, Asked, Rows
  <2> QED
    BY <1>1, <2>1 DEF Rows
<1>3. \A pc \in RequestStates : n(pc) \in Asked /\ n(pc).pc = pc /\ n(pc).user = u
  BY <1>1 DEF Asked
<1>4. PICK outcome \in Outcomes("upsert") :
        /\ row' = IF outcome = "error" THEN row ELSE [row EXCEPT ![u] = w]
        /\ req' = [req EXCEPT ![r] = n(IF outcome = "ok" THEN "provisioned" ELSE "failed")]
  BY DEF Upsert, End
<1>5. UNCHANGED <<provisioned, restarts>>
  BY DEF Upsert
<1> HIDE DEF u, w, n
<1>6. row' \in [Users -> Rows] /\ \A x \in Users : row[x].present => row'[x].present
  BY <1>1, <1>2, <1>4
<1>7. CASE outcome = "ok"
  <2>1. row'[u].present /\ "provisioned" \in RequestStates
    BY <1>1, <1>2, <1>4, <1>7 DEF RequestStates
  <2> QED
    BY <1>3, <1>4, <1>5, <1>6, <1>7, <2>1, RequestStepPreserves
<1>8. CASE outcome # "ok"
  <2>1. "failed" \in RequestStates /\ "failed" \notin Backed
    BY DEF RequestStates, Backed
  <2> QED
    BY <1>3, <1>4, <1>5, <1>6, <1>8, <2>1, RequestStepPreserves
<1> QED
  BY <1>7, <1>8

LEMMA ProvisionedPreserves ==
  ASSUME ProvisionInv, NEW r \in Requests, Provisioned(r)
  PROVE  ProvisionInv'
<1> DEFINE n == [req[r] EXCEPT !.pc = "getProfile"]
<1>1. req[r].pc = "provisioned" /\ req[r] \in Asked /\ row' = row /\ restarts' = restarts
  BY AskedRequest, InvIsTypesAndProfiles DEF Provisioned, RequestStates
<1>2. n \in Asked /\ n.user = req[r].user
  BY <1>1 DEF Asked, RequestStates
<1>3. /\ req' = [req EXCEPT ![r] = n]
      /\ provisioned' = provisioned \cup {req[r].user}
  BY DEF Provisioned
<1>4. row \in [Users -> Rows] /\ row[req[r].user].present
  BY <1>1, InvIsTypesAndProfiles DEF TypeOK, ProfilesBehind, Backed, Rows
<1> HIDE DEF n
<1> QED
  BY <1>1, <1>2, <1>3, <1>4, RequestStepPreserves

LEMMA GetProfilePreserves ==
  ASSUME ProvisionInv, NEW r \in Requests, GetProfile(r)
  PROVE  ProvisionInv'
<1>1. req[r].pc = "getProfile" /\ UNCHANGED <<row, provisioned, restarts>>
  BY DEF GetProfile
<1>2. req[r] \in Asked
  BY <1>1, AskedRequest, InvIsTypesAndProfiles DEF RequestStates
<1>3. \/ \E pc \in {"failed", "done"} : End(r, pc)
      \/ req' = [req EXCEPT ![r].pc = "updateProfile"]
  BY DEF GetProfile
<1>4. CASE \E pc \in {"failed", "done"} : End(r, pc)
  <2>1. PICK pc \in {"failed", "done"} :
          req' = [req EXCEPT ![r] = [@ EXCEPT !.pc = pc, !.seed = Keep]]
    BY <1>4 DEF End
  <2>2. pc \in RequestStates /\ req[r].pc \in RequestStates /\ pc \notin Backed
    BY <1>1 DEF RequestStates, Backed
  <2> QED
    BY <1>1, <2>1, <2>2, QuietStepPreserves
<1>5. CASE req' = [req EXCEPT ![r].pc = "updateProfile"]
  <2> DEFINE n == [req[r] EXCEPT !.pc = "updateProfile"]
  <2>1. n \in Asked /\ n.user = req[r].user /\ req' = [req EXCEPT ![r] = n]
    BY <1>2, <1>5 DEF Asked, RequestStates
  <2>2. row \in [Users -> Rows] /\ row[req[r].user].present
    BY <1>1, InvIsTypesAndProfiles DEF TypeOK, ProfilesBehind, Backed, Rows
  <2> HIDE DEF n
  <2> QED
    BY <1>1, <2>1, <2>2, RequestStepPreserves
<1> QED
  BY <1>3, <1>4, <1>5

LEMMA UpdateProfilePreserves ==
  ASSUME ProvisionInv, NEW r \in Requests, UpdateProfile(r)
  PROVE  ProvisionInv'
<1> DEFINE u == req[r].user
           patch == req[r].patch
           w == [row[u] EXCEPT !.displayName = Written(patch.displayName, row[u].displayName),
                               !.avatarUrl = Written(patch.avatarUrl, row[u].avatarUrl)]
           n(pc) == [req[r] EXCEPT !.pc = pc, !.seed = Keep]
<1>1. req[r] \in Asked /\ u \in Users /\ row[u] \in Rows /\ row \in [Users -> Rows]
  BY AskedRequest, InvIsTypesAndProfiles DEF UpdateProfile, RequestStates, TypeOK, Rows
<1>2. w \in Rows /\ w.present = row[u].present
  <2>1. patch \in Patches
    BY <1>1 DEF Asked
  <2>2. Written(patch.displayName, row[u].displayName) \in Names
    BY <1>1, <2>1 DEF Written, Rows, Names, Columns
  <2>3. Written(patch.avatarUrl, row[u].avatarUrl) \in Columns("avatarUrl") \cup {Null}
    BY <1>1, <2>1 DEF Written, Rows, Columns
  <2> HIDE DEF u, patch
  <2> QED
    BY <1>1, <2>2, <2>3 DEF Rows
<1>3. \A pc \in {"done", "failed"} : n(pc) \in Asked /\ n(pc).pc = pc
  BY <1>1 DEF Asked, RequestStates
<1>4. /\ row' = row \/ row' = [row EXCEPT ![u] = w]
      /\ \E pc \in {"done", "failed"} : req' = [req EXCEPT ![r] = n(pc)]
      /\ UNCHANGED <<provisioned, restarts>>
  BY DEF UpdateProfile, End
<1> HIDE DEF u, w, n
<1>5. row' \in [Users -> Rows] /\ \A x \in Users : row[x].present => row'[x].present
  BY <1>1, <1>2, <1>4
<1> QED
  BY <1>3, <1>4, <1>5, RequestStepPreserves DEF Backed

\* A restart forgets the cache and drops the requests under way.
LEMMA RestartPreserves ==
  ASSUME ProvisionInv, Restart
  PROVE  ProvisionInv'
<1>1. \A r \in Requests :
        /\ req'[r] \in {Idle, Refused} \cup Asked
        /\ req'[r].pc \notin Backed
  <2> SUFFICES ASSUME NEW r \in Requests
               PROVE  req'[r] \in {Idle, Refused} \cup Asked /\ req'[r].pc \notin Backed
    OBVIOUS
  <2>1. req[r] \in {Idle, Refused} \cup Asked
    BY InvIsTypesAndProfiles DEF TypeOK, Asked
  <2>2. CASE r \in Underway
    <3>1. req[r] \in Asked
      BY <2>1, <2>2 DEF Underway, Idle, Refused
    <3>2. [req[r] EXCEPT !.pc = "failed", !.seed = Keep] \in Asked
      BY <3>1 DEF Asked, RequestStates
    <3>3. [req[r] EXCEPT !.pc = "failed", !.seed = Keep].pc = "failed"
      BY <3>1 DEF Asked
    <3> QED
      BY <2>2, <3>2, <3>3 DEF Restart, Backed
  <2>3. CASE r \notin Underway
    <3>1. req[r].pc \in {"idle", "refused", "done", "failed"} /\ req'[r] = req[r]
      BY <2>3 DEF Underway, Restart
    <3> QED
      BY <2>1, <3>1 DEF Backed
  <2> QED
    BY <2>2, <2>3
<1>2. restarts' \in 0..MaxRestarts
  <2>1. restarts \in 0..MaxRestarts
    BY InvIsTypesAndProfiles DEF TypeOK
  <2>2. restarts < MaxRestarts /\ restarts' = restarts + 1
    BY DEF Restart
  <2> QED
    BY <2>1, <2>2, RestartAssumption
<1>3. req' \in [Requests -> {Idle, Refused} \cup Asked]
  BY <1>1 DEF Restart
<1>4. TypeOK'
  BY <1>2, <1>3, InvIsTypesAndProfiles DEF Restart, TypeOK, Asked
<1>5. provisioned' = {}
  BY DEF Restart
<1>6. ProfilesBehind'
  BY <1>1, <1>5 DEF ProfilesBehind
<1> QED
  BY <1>4, <1>6, InvFromTypesAndProfiles

LEMMA StepPreserves == ProvisionInv /\ [Next]_vars => ProvisionInv'
<1> SUFFICES ASSUME ProvisionInv, [Next]_vars PROVE ProvisionInv'
  OBVIOUS
<1>1. CASE UNCHANGED vars
  BY <1>1, InvIsTypesAndProfiles, InvFromTypesAndProfiles DEF vars, TypeOK, ProfilesBehind
<1>2. CASE Restart
  BY <1>2, RestartPreserves
<1>3. ASSUME NEW r \in Requests,
             \/ CanActivate(r) \/ FindById(r) \/ Upsert(r) \/ Provisioned(r)
             \/ GetProfile(r) \/ UpdateProfile(r)
      PROVE  ProvisionInv'
  BY <1>3, CanActivatePreserves, FindByIdPreserves, UpsertPreserves, ProvisionedPreserves,
     GetProfilePreserves, UpdateProfilePreserves
<1> QED
  BY <1>1, <1>2, <1>3 DEF Next

\* The cache and the requests it lets in have profiles behind them, always.
THEOREM ProvisionInvariant == Spec => []ProvisionInv
BY InitEstablishes, StepPreserves, PTL DEF Spec

(***************************************************************************)
(* No handler runs for a user without a profile, whatever upserts fail or  *)
(* lose their answer and whenever the process is restarted.                *)
(***************************************************************************)
THEOREM ProfileBehindHandler == Spec => []HandlersHaveProfile
<1>1. ProvisionInv => HandlersHaveProfile
  BY DEF ProvisionInv
<1> QED
  BY <1>1, ProvisionInvariant, PTL

-----------------------------------------------------------------------------
(* The buckets of the rate limit. *)

Admitted == {r \in Requests : req[r].pc \notin {"idle", "refused"}}

\* Every request that was let in is counted in the bucket of its user.
BucketInv == \A r \in Admitted : req[r].bucket = <<"u", req[r].user>>

\* Of any numbers one is the least.
LEMMA Least ==
  ASSUME NEW T \in SUBSET Nat, T # {}
  PROVE  \E m \in T : \A n \in T : m <= n
<1>1. PICK b \in T : TRUE
  OBVIOUS
<1> DEFINE Upto == {0..n : n \in T \cap (0..b)}
<1>2. IsWellFoundedOn(StrictSubsetOrdering(0..b), FiniteSubsetsOf(0..b))
  BY FS_Interval, FS_StrictSubsetOrderingWellFounded
<1>3. Upto \subseteq FiniteSubsetsOf(0..b) /\ Upto # {}
  <2>1. \A n \in T \cap (0..b) : 0..n \in SUBSET (0..b)
    OBVIOUS
  <2>2. \A n \in T \cap (0..b) : 0..n \in FiniteSubsetsOf(0..b)
    BY <2>1, FS_Interval, FS_FiniteSubsetsOfFinite
  <2>3. b \in T \cap (0..b)
    OBVIOUS
  <2> QED
    BY <2>2, <2>3
<1> HIDE DEF Upto
<1>4. PICK A \in Upto : \A B \in Upto : <<B, A>> \notin StrictSubsetOrdering(0..b)
  BY <1>2, <1>3, WFMin
<1>5. PICK m \in T \cap (0..b) : A = 0..m
  BY DEF Upto
<1>6. ASSUME NEW n \in T PROVE m <= n
  <2> SUFFICES ASSUME n < m PROVE FALSE
    OBVIOUS
  <2>1. 0..n \in Upto
    BY DEF Upto
  <2>2. 0..n \subseteq 0..m /\ m \in 0..m /\ m \notin 0..n
    OBVIOUS
  <2>3. 0..n \in SUBSET (0..b) /\ 0..m \in SUBSET (0..b)
    OBVIOUS
  <2> QED
    BY <1>4, <1>5, <2>1, <2>2, <2>3 DEF StrictSubsetOrdering
<1> QED
  BY <1>6

\* The first cut of a text, when a separator is known to be the first.
LEMMA FirstCutIs ==
  ASSUME NEW sep, NEW text \in Seq(STRING), NEW i \in 1..Len(text), text[i] = sep,
         \A k \in 1..Len(text) : k < i => text[k] # sep
  PROVE  FirstCut(text, sep) = i
<1>1. i \in Cuts(text, sep) /\ \A k \in Cuts(text, sep) : k \in 1..Len(text) /\ i <= k
  BY DEF Cuts
<1> DEFINE IsFirst(c) == c \in Cuts(text, sep) /\ \A k \in Cuts(text, sep) : c <= k
<1>2. \E c : IsFirst(c)
  BY <1>1
<1>3. FirstCut(text, sep) = CHOOSE c : IsFirst(c)
  BY <1>1 DEF FirstCut
<1>4. IsFirst(FirstCut(text, sep))
  <2> HIDE DEF IsFirst
  <2> QED
    BY <1>2, <1>3
<1> HIDE DEF IsFirst
<1>5. ASSUME NEW c, IsFirst(c) PROVE c = i
  BY <1>1, <1>5 DEF IsFirst
<1> QED
  BY <1>4, <1>5

\* A cut is a place in the text or just behind it, and nothing before it is a separator.
LEMMA FirstCutType ==
  ASSUME NEW sep, NEW text \in Seq(STRING)
  PROVE  \/ /\ FirstCut(text, sep) = Len(text) + 1
            /\ \A k \in 1..Len(text) : text[k] # sep
         \/ /\ FirstCut(text, sep) \in 1..Len(text)
            /\ text[FirstCut(text, sep)] = sep
            /\ \A k \in 1..(FirstCut(text, sep) - 1) : text[k] # sep
<1>1. Cuts(text, sep) \in SUBSET Nat
  BY DEF Cuts
<1>2. CASE Cuts(text, sep) = {}
  BY <1>2 DEF FirstCut, Cuts
<1>3. CASE Cuts(text, sep) # {}
  <2>1. PICK i \in Cuts(text, sep) : \A j \in Cuts(text, sep) : i <= j
    BY <1>1, <1>3, Least
  <2>2. i \in 1..Len(text) /\ text[i] = sep /\ \A k \in 1..Len(text) : k < i => text[k] # sep
    BY <2>1 DEF Cuts
  <2>3. FirstCut(text, sep) = i
    BY <2>2, FirstCutIs
  <2> QED
    BY <2>2, <2>3
<1> QED
  BY <1>2, <1>3

\* The part between the first two separators.
LEMMA BetweenCuts ==
  ASSUME NEW sep, NEW text \in Seq(STRING), NEW i \in 1..Len(text), NEW j \in 1..Len(text), i < j,
         text[i] = sep, text[j] = sep, \A k \in 1..(j - 1) : k # i => text[k] # sep
  PROVE  /\ SecondPart(text, sep) \in Seq(STRING)
         /\ Len(SecondPart(text, sep)) = j - 1 - i
         /\ \A k \in 1..(j - 1 - i) : SecondPart(text, sep)[k] = text[i + k]
<1>1. FirstCut(text, sep) = i
  BY FirstCutIs
<1> DEFINE rest == After(text, sep)
<1>2. /\ rest \in Seq(STRING) /\ Len(rest) = Len(text) - i
      /\ \A k \in 1..(Len(text) - i) : rest[k] = text[i + k]
  BY <1>1 DEF After
<1> HIDE DEF rest
<1>3. FirstCut(rest, sep) = j - i
  <2>1. j - i \in 1..Len(rest) /\ rest[j - i] = sep
    BY <1>2
  <2>2. ASSUME NEW k \in 1..Len(rest), k < j - i PROVE rest[k] # sep
    <3>1. i + k \in 1..(j - 1) /\ i + k # i /\ rest[k] = text[i + k]
      BY <1>2, <2>2
    <3> QED
      BY <3>1
  <2> QED
    BY <1>2, <2>1, <2>2, FirstCutIs
<1>4. SecondPart(text, sep) = SubSeq(rest, 1, j - i - 1)
  BY <1>3 DEF SecondPart, Before, rest
<1> QED
  BY <1>2, <1>4

(***************************************************************************)
(* What the guard takes for the token is the beginning of what the         *)
(* throttler decodes, up to a space or the end.                            *)
(***************************************************************************)
LEMMA TokenBeginsRest ==
  ASSUME NEW h \in Seq(STRING), h # Null, ExtractBearerToken(h) # Null
  PROVE  LET token == ExtractBearerToken(h)
             rest == SubSeq(h, 3, Len(h))
         IN  /\ StartsWithBearer(h)
             /\ token \in Seq(STRING) /\ rest \in Seq(STRING) /\ Len(token) <= Len(rest)
             /\ \A k \in 1..Len(token) : token[k] = rest[k]
<1> DEFINE c == FirstCut(h, "space")
           rest == SubSeq(h, 3, Len(h))
           d == FirstCut(rest, "space")
<1>1. Before(h, "space") = <<"Bearer">> /\ SecondPart(h, "space") # <<>>
  BY DEF ExtractBearerToken
<1>2. c = 2 /\ h[1] = "Bearer"
  <2>1. c \in 1..(Len(h) + 1)
    BY FirstCutType
  <2> HIDE DEF c
  <2>2. /\ Len(SubSeq(h, 1, c - 1)) = c - 1
        /\ \A k \in 1..(c - 1) : SubSeq(h, 1, c - 1)[k] = h[k]
    BY <2>1
  <2>3. SubSeq(h, 1, c - 1) = <<"Bearer">>
    BY <1>1 DEF Before, c
  <2>4. Len(<<"Bearer">>) = 1 /\ <<"Bearer">>[1] = "Bearer"
    OBVIOUS
  <2>5. c - 1 = 1 /\ SubSeq(h, 1, c - 1)[1] = "Bearer"
    BY <2>2, <2>3, <2>4
  <2> QED
    BY <2>1, <2>2, <2>5
<1>3. After(h, "space") = rest /\ rest \in Seq(STRING)
  BY <1>2 DEF After
<1>4. Len(h) >= 2 /\ h[2] = "space"
  <2>1. (c \in 1..Len(h) /\ h[c] = "space") \/ c = Len(h) + 1
    BY FirstCutType
  <2>2. c # Len(h) + 1
    <3>1. ASSUME c = Len(h) + 1 PROVE FALSE
      <4>1. Len(h) = 1
        <5> HIDE DEF c, rest, d
        <5> QED
          BY <1>2, <3>1, LenProperties
      <4>2. rest = <<>>
        BY <4>1
      <4>3. SecondPart(h, "space") = SubSeq(<<>>, 1, FirstCut(<<>>, "space") - 1)
        BY <1>3, <4>2 DEF SecondPart, Before
      <4>4. FirstCut(<<>>, "space") = 1
        BY DEF FirstCut, Cuts
      <4> QED
        BY <1>1, <4>3, <4>4
    <3> QED
      BY <3>1
  <2> QED
    BY <1>2, <2>1, <2>2
<1>5. StartsWithBearer(h)
  BY <1>2, <1>4 DEF StartsWithBearer
<1>6. ExtractBearerToken(h) = SubSeq(rest, 1, d - 1)
  BY <1>1, <1>3 DEF ExtractBearerToken, SecondPart, Before
<1>7. d \in 1..(Len(rest) + 1)
  <2> HIDE DEF rest
  <2> QED
    BY <1>3, FirstCutType
<1> HIDE DEF rest, d
<1>8. /\ SubSeq(rest, 1, d - 1) \in Seq(STRING) /\ Len(SubSeq(rest, 1, d - 1)) = d - 1
      /\ \A k \in 1..(d - 1) : SubSeq(rest, 1, d - 1)[k] = rest[k]
  BY <1>3, <1>7
<1>9. Len(ExtractBearerToken(h)) <= Len(rest)
  BY <1>3, <1>6, <1>7, <1>8
<1> QED
  BY <1>3, <1>5, <1>6, <1>8, <1>9 DEF rest

\* A token of three segments has the same payload in any text that it begins.
LEMMA SamePayload ==
  ASSUME NEW token \in Seq(STRING), NEW rest \in Seq(STRING), Len(token) <= Len(rest),
         \A k \in 1..Len(token) : token[k] = rest[k],
         \E i, j \in DOMAIN token : i < j /\ Cuts(token, "dot") = {i, j}
  PROVE  SecondPart(rest, "dot") = SecondPart(token, "dot")
<1>1. PICK i \in 1..Len(token), j \in 1..Len(token) : i < j /\ Cuts(token, "dot") = {i, j}
  OBVIOUS
<1>2. /\ token[i] = "dot" /\ token[j] = "dot"
      /\ \A k \in 1..(j - 1) : k # i => token[k] # "dot"
  BY <1>1 DEF Cuts
<1>3. /\ i \in 1..Len(rest) /\ j \in 1..Len(rest)
      /\ rest[i] = "dot" /\ rest[j] = "dot"
      /\ \A k \in 1..(j - 1) : k # i => rest[k] # "dot"
  BY <1>2
<1>4. /\ SecondPart(token, "dot") \in Seq(STRING) /\ SecondPart(rest, "dot") \in Seq(STRING)
      /\ Len(SecondPart(token, "dot")) = j - 1 - i
      /\ Len(SecondPart(rest, "dot")) = j - 1 - i
      /\ \A k \in 1..(j - 1 - i) : SecondPart(token, "dot")[k] = token[i + k]
      /\ \A k \in 1..(j - 1 - i) : SecondPart(rest, "dot")[k] = rest[i + k]
  <2>1. /\ SecondPart(token, "dot") \in Seq(STRING)
        /\ Len(SecondPart(token, "dot")) = j - 1 - i
        /\ \A k \in 1..(j - 1 - i) : SecondPart(token, "dot")[k] = token[i + k]
    BY <1>1, <1>2, BetweenCuts
  <2>2. /\ SecondPart(rest, "dot") \in Seq(STRING)
        /\ Len(SecondPart(rest, "dot")) = j - 1 - i
        /\ \A k \in 1..(j - 1 - i) : SecondPart(rest, "dot")[k] = rest[i + k]
    <3>1. i < j
      BY <1>1
    <3> QED
      BY <1>3, <3>1, BetweenCuts
  <2> QED
    BY <2>1, <2>2
<1>5. \A k \in 1..(j - 1 - i) : SecondPart(token, "dot")[k] = SecondPart(rest, "dot")[k]
  <2>1. \A k \in 1..(j - 1 - i) : i + k \in 1..Len(token)
    OBVIOUS
  <2> QED
    BY <1>4, <2>1
<1> QED
  BY <1>4, <1>5

\* A payload that jose decodes is decoded to the same leniently.
LEMMA LenientReadsTheSame ==
  ASSUME NEW payload \in Seq(STRING), Len(payload) = 1, payload[1] \in DOMAIN Claims,
         payload[1] \notin Skipped
  PROVE  Decoded(payload) = Claims[payload[1]]
<1>1. {i \in DOMAIN payload : payload[i] \notin Skipped} = {1}
  OBVIOUS
<1> QED
  BY <1>1 DEF Decoded

\* A header that convinces the guard names its user to the throttler too.
LEMMA BothReadTheUser ==
  ASSUME NEW h \in Headers, NEW ip \in Addresses, Subject(h) # Null
  PROVE  GetTracker(h, ip) = <<"u", Subject(h).userId>>
<1> DEFINE token == ExtractBearerToken(h)
           rest == SubSeq(h, 3, Len(h))
           payload == SecondPart(token, "dot")
<1>1. h # Null /\ h \in Seq(STRING) /\ token # Null /\ Subject(h) = VerifyToken(token)
  BY HeadersAssumption DEF Subject, ExtractBearerToken
<1>2. /\ StartsWithBearer(h)
      /\ token \in Seq(STRING) /\ rest \in Seq(STRING) /\ Len(token) <= Len(rest)
      /\ \A k \in 1..Len(token) : token[k] = rest[k]
  BY <1>1, TokenBeginsRest
<1>3. JwtVerify(token) # Null /\ Subject(h).userId = JwtVerify(token).sub
  BY <1>1 DEF VerifyToken
<1> HIDE DEF token, rest
<1>4. /\ \E i, j \in DOMAIN token : i < j /\ Cuts(token, "dot") = {i, j}
      /\ Len(payload) = 1 /\ payload[1] \in DOMAIN Claims
      /\ JwtVerify(token) = Claims[payload[1]]
  BY <1>3 DEF JwtVerify
<1>5. SecondPart(rest, "dot") = payload /\ payload \in Seq(STRING)
  <2>1. PICK i \in 1..Len(token), j \in 1..Len(token) : i < j /\ Cuts(token, "dot") = {i, j}
    BY <1>2, <1>4
  <2>2. /\ token[i] = "dot" /\ token[j] = "dot"
        /\ \A k \in 1..(j - 1) : k # i => token[k] # "dot"
    BY <1>2, <2>1 DEF Cuts
  <2>3. payload \in Seq(STRING)
    BY <1>2, <2>1, <2>2, BetweenCuts
  <2> QED
    BY <1>2, <1>4, <2>3, SamePayload
<1> HIDE DEF payload
<1>6. Decoded(payload) = Claims[payload[1]]
  BY <1>4, <1>5, ClaimsAssumption, LenientReadsTheSame
<1>7. Decoded(payload) # Null /\ Subject(h).userId = Decoded(payload).sub
  BY <1>3, <1>4, <1>6
<1>8. Subject(h).userId \in Users /\ Subject(h).userId \notin {Null, NotString}
  BY SubjectAssumption, UsersAssumption
<1>9. DecodeSub(rest) = Subject(h).userId
  BY <1>5, <1>7, <1>8 DEF DecodeSub
<1> QED
  BY <1>1, <1>2, <1>8, <1>9 DEF GetTracker, rest

\* Steps that leave the bucket and the user of a request alone, and let none in.
LEMMA SameBucketPreserves ==
  ASSUME TypeOK, TypeOK', BucketInv,
         \A r \in Requests : \/ req'[r].pc \in {"idle", "refused"}
                             \/ /\ req[r].pc \notin {"idle", "refused"}
                                /\ req'[r].bucket = req[r].bucket
                                /\ req'[r].user = req[r].user
  PROVE  BucketInv'
BY DEF BucketInv, Admitted

LEMMA BucketStep == TypeOK /\ TypeOK' /\ BucketInv /\ [Next]_vars => BucketInv'
<1> SUFFICES ASSUME TypeOK, TypeOK', BucketInv, [Next]_vars
             PROVE  BucketInv'
  OBVIOUS
<1>1. CASE UNCHANGED vars
  BY <1>1, SameBucketPreserves DEF vars
<1>2. ASSUME NEW r \in Requests, CanActivate(r)
      PROVE  BucketInv'
  <2>1. PICK h \in Headers, ip \in Addresses, patch \in Patches :
          req' = [req EXCEPT ![r] = IF Subject(h) = Null THEN Refused ELSE LetIn(h, ip, patch)]
    BY <1>2 DEF CanActivate
  <2>2. req'[r].pc \in {"idle", "refused"} \/ req'[r].bucket = <<"u", req'[r].user>>
    <3>1. CASE Subject(h) = Null
      BY <2>1, <3>1 DEF TypeOK, Refused
    <3>2. CASE Subject(h) # Null
      <4>1. req'[r] = LetIn(h, ip, patch)
        BY <2>1, <3>2 DEF TypeOK
      <4> QED
        BY <3>2, <4>1, BothReadTheUser DEF LetIn
    <3> QED
      BY <3>1, <3>2
  <2>3. \A q \in Requests \ {r} : req'[q] = req[q]
    BY <2>1 DEF TypeOK
  <2> QED
    BY <2>2, <2>3 DEF BucketInv, Admitted
<1>3. ASSUME NEW r \in Requests,
             \/ FindById(r) \/ Upsert(r) \/ Provisioned(r) \/ GetProfile(r) \/ UpdateProfile(r)
      PROVE  BucketInv'
  <2>1. req[r].pc \in {"findById", "upsert", "provisioned", "getProfile", "updateProfile"}
    BY <1>3 DEF FindById, Upsert, Provisioned, GetProfile, UpdateProfile
  <2>2. req[r] \in Asked
    BY <2>1, AskedRequest DEF RequestStates
  <2>3. \E pc \in RequestStates, seed \in Names \cup {Keep} :
          req' = [req EXCEPT ![r] = [req[r] EXCEPT !.pc = pc, !.seed = seed]]
    <3>1. ASSUME NEW pc, End(r, pc)
          PROVE  req' = [req EXCEPT ![r] = [req[r] EXCEPT !.pc = pc, !.seed = Keep]]
      BY <3>1 DEF End
    <3>2. CASE FindById(r)
      <4>1. \/ End(r, "failed")
            \/ \E seed \in {Keep, req[r].seed} :
                 req' = [req EXCEPT ![r] = [req[r] EXCEPT !.pc = "upsert", !.seed = seed]]
        BY <3>2 DEF FindById
      <4> QED
        BY <2>2, <3>1, <4>1 DEF RequestStates, Asked
    <3>3. CASE Upsert(r)
      <4>1. \/ End(r, "failed")
            \/ req' = [req EXCEPT ![r] = [req[r] EXCEPT !.pc = "provisioned", !.seed = Keep]]
        BY <3>3 DEF Upsert
      <4> QED
        BY <3>1, <4>1 DEF RequestStates
    <3>4. CASE Provisioned(r) \/ req' = [req EXCEPT ![r].pc = "updateProfile"]
      <4>1. PICK pc \in {"getProfile", "updateProfile"} : req' = [req EXCEPT ![r].pc = pc]
        BY <3>4 DEF Provisioned
      <4>2. [req[r] EXCEPT !.pc = pc] = [req[r] EXCEPT !.pc = pc, !.seed = req[r].seed]
        BY <2>2 DEF Asked
      <4> QED
        BY <2>2, <4>1, <4>2 DEF RequestStates, Asked
    <3>5. CASE GetProfile(r)
      <4>1. \/ End(r, "failed") \/ End(r, "done")
            \/ req' = [req EXCEPT ![r].pc = "updateProfile"]
        BY <3>5 DEF GetProfile
      <4> QED
        BY <3>1, <3>4, <4>1 DEF RequestStates
    <3>6. CASE UpdateProfile(r)
      <4>1. End(r, "failed") \/ End(r, "done")
        BY <3>6 DEF UpdateProfile
      <4> QED
        BY <3>1, <4>1 DEF RequestStates
    <3> QED
      BY <1>3, <3>2, <3>3, <3>4, <3>5, <3>6
  <2>4. PICK pc \in RequestStates, seed \in Names \cup {Keep} :
          req' = [req EXCEPT ![r] = [req[r] EXCEPT !.pc = pc, !.seed = seed]]
    BY <2>3
  <2> DEFINE n == [req[r] EXCEPT !.pc = pc, !.seed = seed]
  <2>5. n.bucket = req[r].bucket /\ n.user = req[r].user
    BY <2>2 DEF Asked
  <2>6. req'[r] = n /\ \A q \in Requests \ {r} : req'[q] = req[q]
    BY <2>4 DEF TypeOK
  <2> HIDE DEF n
  <2> QED
    BY <2>1, <2>5, <2>6, SameBucketPreserves
<1>4. CASE Restart
  <2>1. ASSUME NEW r \in Requests, req'[r].pc \notin {"idle", "refused"}
        PROVE  /\ req[r].pc \notin {"idle", "refused"}
               /\ req'[r].bucket = req[r].bucket /\ req'[r].user = req[r].user
    <3>1. CASE r \in Underway
      <4>1. req[r] \in Asked
        BY <3>1 DEF TypeOK, Asked, Underway, Idle, Refused
      <4>2. req'[r] = [req[r] EXCEPT !.pc = "failed", !.seed = Keep]
        BY <1>4, <3>1 DEF Restart
      <4> QED
        BY <3>1, <4>1, <4>2 DEF Asked, Underway
    <3>2. CASE r \notin Underway
      BY <1>4, <2>1, <3>2 DEF Restart
    <3> QED
      BY <3>1, <3>2
  <2> QED
    BY <2>1, SameBucketPreserves
<1> QED
  BY <1>1, <1>2, <1>3, <1>4 DEF Next

(***************************************************************************)
(* Requests that are let in share a bucket of the rate limit exactly when  *)
(* they are of one user, for every set of headers, valid or not: what the  *)
(* guard verifies, the throttler has read.                                 *)
(***************************************************************************)
THEOREM OneBucketPerUser == Spec => []BucketsMatchUsers
<1>1. Init => BucketInv
  BY DEF Init, BucketInv, Admitted, Idle
<1>2. ProvisionInv => TypeOK
  BY DEF ProvisionInv
<1>3. BucketInv => BucketsMatchUsers
  BY DEF BucketInv, Admitted, BucketsMatchUsers
<1> QED
  BY <1>1, <1>2, <1>3, BucketStep, ProvisionInvariant, PTL DEF Spec
-----------------------------------------------------------------------------
(* The patches of a profile: AvatarsMerge, for one user, is inductive as it stands. *)

MergeHolds(u) ==
    AvatarsOf(u, {"done"}) # {} => row[u].avatarUrl \in AvatarsOf(u, {"done", "failed"})

\* The step of LastAvatarWins, for one user.
Wins(u) ==
    /\ \A r \in Requests : PatchesAvatar(r, u) /\ req'[r].pc = "done"
                             => row'[u].avatarUrl = req[r].patch.avatarUrl
    /\ row'[u].avatarUrl # row[u].avatarUrl =>
          \E r \in Requests : /\ PatchesAvatar(r, u)
                              /\ row'[u].avatarUrl = req[r].patch.avatarUrl

Settled == {"done", "failed"}

\* A step keeps this when the column stays, no request comes back, and none that set it is done.
LEMMA ColumnStays ==
  ASSUME NEW u \in Users, MergeHolds(u), row'[u].avatarUrl = row[u].avatarUrl,
         \A q \in Requests : req[q].pc \in Settled => req'[q] = req[q],
         \A q \in Requests : req'[q].pc = "done" /\ req[q].pc # "done" /\ req'[q].user = u
                                => req'[q].patch.avatarUrl = Keep
  PROVE  MergeHolds(u)'
<1>1. AvatarsOf(u, {"done"})' \subseteq AvatarsOf(u, {"done"})
  BY DEF AvatarsOf, Settled
<1>2. AvatarsOf(u, Settled) \subseteq AvatarsOf(u, Settled)'
  BY DEF AvatarsOf, Settled
<1> QED
  BY <1>1, <1>2 DEF MergeHolds, Settled

\* What the steps of one request but UpdateProfile do: the column stays, and who is done sent none.
LEMMA OtherStepsKeepAvatars ==
  ASSUME TypeOK, NEW r \in Requests, NEW u \in Users, MergeHolds(u),
         \/ CanActivate(r) \/ FindById(r) \/ Upsert(r) \/ Provisioned(r) \/ GetProfile(r)
  PROVE  MergeHolds(u)' /\ Wins(u)
<1>1. req[r].pc \notin Settled
  BY DEF CanActivate, FindById, Upsert, Provisioned, GetProfile, Settled, Idle
<1>2. \A q \in Requests \ {r} : req'[q] = req[q]
  BY DEF TypeOK, CanActivate, FindById, Upsert, Provisioned, GetProfile, End
<1>3. row'[u].avatarUrl = row[u].avatarUrl
  <2>1. CASE Upsert(r)
    <3>1. req[r].user \in Users /\ row \in [Users -> Rows]
      BY <2>1, AskedRequest DEF Upsert, RequestStates, TypeOK, Rows
    <3>2. PICK name :
            \/ row' = row
            \/ row' = [row EXCEPT ![req[r].user] =
                          [@ EXCEPT !.present = TRUE, !.displayName = name]]
      BY <2>1 DEF Upsert
    <3>3. \A w \in Rows : [w EXCEPT !.present = TRUE, !.displayName = name].avatarUrl = w.avatarUrl
      BY DEF Rows
    <3> QED
      BY <3>1, <3>2, <3>3
  <2>2. CASE ~Upsert(r)
    BY <2>2 DEF CanActivate, FindById, Provisioned, GetProfile
  <2> QED
    BY <2>1, <2>2
<1>4. req'[r].pc = "done" => req'[r].patch.avatarUrl = Keep
  <2>1. CASE CanActivate(r)
    BY <2>1 DEF TypeOK, CanActivate, LetIn, Refused
  <2>2. CASE FindById(r) \/ Upsert(r) \/ Provisioned(r) \/ GetProfile(r)
    <3>1. req[r] \in Asked
      BY <2>2, AskedRequest DEF FindById, Upsert, Provisioned, GetProfile, RequestStates
    <3>2. ASSUME NEW pc, NEW seed,
                 req' = [req EXCEPT ![r] = [req[r] EXCEPT !.pc = pc, !.seed = seed]]
          PROVE  req'[r].pc = pc /\ req'[r].patch = req[r].patch
      BY <3>1, <3>2 DEF TypeOK, Asked
    <3>3. CASE FindById(r) \/ Upsert(r)
      <4>1. \E pc \in {"upsert", "provisioned", "failed"} : \E seed :
              req' = [req EXCEPT ![r] = [req[r] EXCEPT !.pc = pc, !.seed = seed]]
        BY <3>3 DEF FindById, Upsert, End
      <4> QED
        BY <3>2, <4>1
    <3>4. CASE Provisioned(r)
      BY <3>1, <3>4 DEF TypeOK, Provisioned, Asked
    <3>5. CASE GetProfile(r)
      <4>1. \/ End(r, "failed") \/ req' = [req EXCEPT ![r].pc = "updateProfile"]
            \/ End(r, "done") /\ req[r].patch = NoChange
        BY <3>5 DEF GetProfile
      <4>2. CASE End(r, "failed")
        BY <3>2, <4>2 DEF End
      <4>3. CASE req' = [req EXCEPT ![r].pc = "updateProfile"]
        BY <3>1, <4>3 DEF TypeOK, Asked
      <4>4. CASE End(r, "done") /\ req[r].patch = NoChange
        <5>1. req'[r].patch = NoChange
          BY <3>2, <4>4 DEF End
        <5> QED
          BY <5>1 DEF NoChange
      <4> QED
        BY <4>1, <4>2, <4>3, <4>4
    <3> QED
      BY <2>2, <3>3, <3>4, <3>5
  <2> QED
    BY <2>1, <2>2
<1>5. MergeHolds(u)'
  BY <1>1, <1>2, <1>3, <1>4, ColumnStays
<1>6. req[r].pc # "updateProfile"
  BY DEF CanActivate, FindById, Upsert, Provisioned, GetProfile, Idle
<1> QED
  BY <1>2, <1>3, <1>5, <1>6 DEF Wins, PatchesAvatar

\* A PATCH writes what it sent, or nothing.
LEMMA PatchKeepsAvatars ==
  ASSUME TypeOK, NEW r \in Requests, NEW u \in Users, MergeHolds(u), UpdateProfile(r)
  PROVE  MergeHolds(u)' /\ Wins(u)
<1> DEFINE owner == req[r].user
           sent == req[r].patch.avatarUrl
<1>1. req[r] \in Asked /\ req[r].pc = "updateProfile" /\ owner \in Users
  BY AskedRequest DEF UpdateProfile, RequestStates
<1>2. \A q \in Requests \ {r} : req'[q] = req[q]
  BY DEF TypeOK, UpdateProfile, End
<1>3. \/ req'[r].pc = "failed" /\ row' = row
      \/ row' = [row EXCEPT ![owner] = [@ EXCEPT
                    !.displayName = Written(req[r].patch.displayName, row[owner].displayName),
                    !.avatarUrl = Written(sent, row[owner].avatarUrl)]]
  BY <1>1 DEF TypeOK, UpdateProfile, End, Asked
<1>4. req'[r].pc \in Settled /\ req'[r].user = owner /\ req'[r].patch = req[r].patch
  BY <1>1 DEF TypeOK, UpdateProfile, End, Asked, Settled
<1> HIDE DEF owner
<1>5. CASE /\ row'[u].avatarUrl = row[u].avatarUrl
           /\ sent = Keep \/ owner # u \/ req'[r].pc = "failed"
  <2>1. MergeHolds(u)'
    BY <1>1, <1>2, <1>4, <1>5, ColumnStays DEF Settled
  <2> QED
    BY <1>2, <1>5, <2>1 DEF Wins, PatchesAvatar, owner
<1>6. CASE owner = u /\ sent # Keep /\ row'[u].avatarUrl = sent
  <2>1. MergeHolds(u)'
    BY <1>4, <1>6 DEF MergeHolds, AvatarsOf, Settled
  <2> QED
    BY <1>1, <1>2, <1>6, <2>1 DEF Wins, PatchesAvatar, owner
<1>7. \/ row'[u].avatarUrl = row[u].avatarUrl /\ (sent = Keep \/ owner # u \/ req'[r].pc = "failed")
      \/ owner = u /\ sent # Keep /\ row'[u].avatarUrl = sent
  <2>1. CASE row' = row /\ req'[r].pc = "failed"
    BY <2>1
  <2>2. CASE ~(row' = row /\ req'[r].pc = "failed")
    <3>1. PICK name :
            row' = [row EXCEPT ![owner] = [@ EXCEPT !.displayName = name,
                                             !.avatarUrl = Written(sent, row[owner].avatarUrl)]]
      BY <1>3, <2>2
    <3>2. row \in [Users -> Rows] /\ row[owner] \in Rows
      BY <1>1 DEF TypeOK, Rows
    <3>3. ASSUME NEW w \in Rows, NEW a
          PROVE  [w EXCEPT !.displayName = name, !.avatarUrl = a].avatarUrl = a
      BY DEF Rows
    <3>4. row'[owner].avatarUrl = Written(sent, row[owner].avatarUrl)
      BY <1>1, <3>1, <3>2, <3>3
    <3>5. u # owner => row'[u] = row[u]
      BY <3>1, <3>2
    <3> QED
      BY <3>4, <3>5 DEF Written
  <2> QED
    BY <2>1, <2>2
<1> QED
  BY <1>5, <1>6, <1>7

LEMMA AvatarStep ==
  TypeOK /\ (\A u \in Users : MergeHolds(u)) /\ [Next]_vars
    => (\A u \in Users : MergeHolds(u))' /\ \A u \in Users : Wins(u)
<1> SUFFICES ASSUME TypeOK, \A u \in Users : MergeHolds(u), [Next]_vars, NEW u \in Users
             PROVE  MergeHolds(u)' /\ Wins(u)
  OBVIOUS
<1>1. CASE UNCHANGED vars
  BY <1>1 DEF vars, MergeHolds, AvatarsOf, Wins, PatchesAvatar
<1>2. CASE Restart
  <2>1. \A q \in Requests : /\ req[q].pc \in Settled => req'[q] = req[q]
                            /\ req'[q].pc = "done" => req[q].pc = "done"
    <3> SUFFICES ASSUME NEW q \in Requests
                 PROVE  /\ req[q].pc \in Settled => req'[q] = req[q]
                        /\ req'[q].pc = "done" => req[q].pc = "done"
      OBVIOUS
    <3>1. CASE q \in Underway
      <4>1. req[q] \in Asked
        BY <3>1 DEF TypeOK, Asked, Underway, Idle, Refused
      <4> QED
        BY <1>2, <3>1, <4>1 DEF Restart, Underway, Settled, Asked
    <3>2. CASE q \notin Underway
      BY <1>2, <3>2 DEF Restart
    <3> QED
      BY <3>1, <3>2
  <2>2. MergeHolds(u)'
    BY <1>2, <2>1, ColumnStays DEF Restart
  <2> QED
    BY <1>2, <2>1, <2>2 DEF Restart, Wins, PatchesAvatar
<1> QED
  BY <1>1, <1>2, OtherStepsKeepAvatars, PatchKeepsAvatars DEF Next

(***************************************************************************)
(* PATCHes of different fields do not undo each other: once a PATCH of the *)
(* avatar was answered, the column holds a value that a PATCH of that user *)
(* sent; the one answered leaves its own, which stays until a further      *)
(* PATCH of the avatar, answered or not, is applied: no login, no PATCH of *)
(* the name, no failure and no restart changes it.                         *)
(***************************************************************************)
THEOREM AvatarsAreKept == Spec => []AvatarsMerge /\ LastAvatarWins
<1>1. Init => \A u \in Users : MergeHolds(u)
  BY DEF Init, Idle, MergeHolds, AvatarsOf
<1>2. ProvisionInv => TypeOK
  BY DEF ProvisionInv
<1>3. (\A u \in Users : MergeHolds(u)) => AvatarsMerge
  BY DEF MergeHolds, AvatarsMerge
<1>4. Spec => [](\A u \in Users : MergeHolds(u))
  BY <1>1, <1>2, AvatarStep, ProvisionInvariant, PTL DEF Spec
<1>5. TypeOK /\ (\A u \in Users : MergeHolds(u)) /\ [Next]_vars => [\A u \in Users : Wins(u)]_vars
  BY AvatarStep
<1>6. Spec => LastAvatarWins
  <2> SUFFICES Spec => [][\A u \in Users : Wins(u)]_vars
    BY DEF LastAvatarWins, Wins
  <2> QED
    BY <1>2, <1>4, <1>5, ProvisionInvariant, PTL DEF Spec
<1> QED
  BY <1>3, <1>4, <1>6, PTL
=============================================================================
