-------------------------- MODULE UserProvisioning --------------------------
(***************************************************************************)
(* Just-in-time profiles (src/modules/auth, src/modules/user): AuthGuard   *)
(* gives the users it has not seen in this process a row in the table      *)
(* users before it lets a request through, and the handlers behind it read *)
(* and patch that row.                                                     *)
(*                                                                         *)
(* Requests of one user interleave at every call of the database, and the  *)
(* guard's cache of users is per process: a restart forgets it and every   *)
(* request under way.  An action is the instant at which the database      *)
(* applies a call; Faults is as in StatsService.  Of a row this keeps the  *)
(* display name, which is seeded from the token, and the avatar, which     *)
(* only a patch writes (the language behaves like it); email and provider  *)
(* repeat the token of the last upsert.                                    *)
(***************************************************************************)
EXTENDS FiniteSets, AccessToken

CONSTANTS Users,
          Headers,          \* the Authorization headers of requests
          Addresses,        \* the addresses they come from
          Patches,          \* the changes clients send in PATCH /users/me
          Requests,         \* requests of routes that are not public, each made at most once
          MaxConcurrency,   \* bound on the requests under way at once
          MaxRestarts,      \* bound on the restarts of the process
          Faults

\* A header is none or a text, and the ids of users are strings that are not empty.
ASSUME HeadersAssumption == \A h \in Headers : h = Null \/ h \in Seq(STRING)
ASSUME UsersAssumption == Users \cap {Null, NotString} = {}

\* GoTrue signs tokens for its users only.
ASSUME SubjectAssumption == \A h \in Headers : Subject(h) = Null \/ Subject(h).userId \in Users
ASSUME RestartAssumption == MaxRestarts \in Nat

VARIABLES row,           \* table users
          provisioned,   \* AuthGuard.provisioned
          req,           \* requests
          restarts       \* how often the process was restarted

vars == <<row, provisioned, req, restarts>>

NoRow == [present |-> FALSE, displayName |-> Null, avatarUrl |-> Null]
Idle == [pc |-> "idle"]
Refused == [pc |-> "refused"]       \* answered 401

\* A request is over and keeps only what was asked, or it is dropped.
End(r, outcome) == req' = [req EXCEPT ![r] = [@ EXCEPT !.pc = outcome, !.seed = Keep]]

Underway == {r \in Requests : req[r].pc \notin {"idle", "refused", "done", "failed"}}

Outcomes(op) == {"ok"} \cup {o \in {"error", "lost"} : <<op, o>> \in Faults}

Init ==
    /\ row = [u \in Users |-> NoRow]
    /\ provisioned = {}
    /\ req = [r \in Requests |-> Idle]
    /\ restarts = 0

\* The value a column takes when a write carries v, which may be undefined.
Written(v, old) == IF v = Keep THEN old ELSE v

\* A request that is let in, to provision its user first or at once to the handler.
LetIn(header, ip, patch) ==
    LET user == Subject(header)
        known == user.userId \in provisioned
    IN  [pc |-> IF known THEN "getProfile" ELSE "findById",
         user |-> user.userId, patch |-> patch, bucket |-> GetTracker(header, ip),
         seed |-> IF known THEN Keep ELSE user.fullName]

\* Mutant of CanActivate: the user is put in the cache before the upsert is answered.
CanActivateCachingEarly(r) ==
    /\ req[r] = Idle
    /\ Cardinality(Underway) < MaxConcurrency
    /\ \E header \in Headers, ip \in Addresses, patch \in Patches :
          /\ Subject(header) # Null
          /\ req' = [req EXCEPT ![r] = LetIn(header, ip, patch)]
          /\ provisioned' = provisioned \cup {Subject(header).userId}
    /\ UNCHANGED <<row, restarts>>

(***************************************************************************)
(* canActivate, from the moment the token is verified, or refused: the     *)
(* cache decides whether the profile is provisioned first.  A request      *)
(* without changes is a GET.                                               *)
(***************************************************************************)
CanActivate(r) ==
    /\ req[r] = Idle
    /\ Cardinality(Underway) < MaxConcurrency
    /\ \E header \in Headers, ip \in Addresses, patch \in Patches :
          req' = [req EXCEPT ![r] = IF Subject(header) = Null THEN Refused
                                    ELSE LetIn(header, ip, patch)]
    /\ UNCHANGED <<row, provisioned, restarts>>

\* upsertFromAuth, the look: the name of the token is for new users only.
FindById(r) ==
    /\ req[r].pc = "findById"
    /\ \E outcome \in Outcomes("findById") :
          IF outcome = "ok"
          THEN req' = [req EXCEPT ![r] = [@ EXCEPT !.pc = "upsert",
                         !.seed = IF row[req[r].user].present THEN Keep ELSE req[r].seed]]
          ELSE End(r, "failed")
    /\ UNCHANGED <<row, provisioned, restarts>>

\* upsertFromAuth, the upsert: a row that is there meanwhile is updated.
Upsert(r) ==
    /\ req[r].pc = "upsert"
    /\ LET u == req[r].user
       IN  \E outcome \in Outcomes("upsert") :
              /\ row' = IF outcome = "error" THEN row
                        ELSE [row EXCEPT ![u] = [@ EXCEPT !.present = TRUE,
                                !.displayName = Written(req[r].seed, row[u].displayName)]]
              /\ IF outcome = "ok"
                 THEN req' = [req EXCEPT ![r] = [@ EXCEPT !.pc = "provisioned", !.seed = Keep]]
                 ELSE End(r, "failed")
    /\ UNCHANGED <<provisioned, restarts>>

\* The answer of the upsert arrives: the guard remembers the user and lets the request in.
Provisioned(r) ==
    /\ req[r].pc = "provisioned"
    /\ provisioned' = provisioned \cup {req[r].user}
    /\ req' = [req EXCEPT ![r].pc = "getProfile"]
    /\ UNCHANGED <<row, restarts>>

NoChange == [displayName |-> Keep, avatarUrl |-> Keep]

\* getProfile: 404 without a row; a PATCH goes on to its update.
GetProfile(r) ==
    /\ req[r].pc = "getProfile"
    /\ \E outcome \in Outcomes("getProfile") :
          IF outcome # "ok" \/ ~row[req[r].user].present THEN End(r, "failed")
          ELSE IF req[r].patch = NoChange THEN End(r, "done")
          ELSE req' = [req EXCEPT ![r].pc = "updateProfile"]
    /\ UNCHANGED <<row, provisioned, restarts>>

\* Mutant of UpdateProfile: fields that were not sent are written as null.
UpdateProfileWhole(r) ==
    /\ req[r].pc = "updateProfile"
    /\ LET u == req[r].user
       IN  row' = [row EXCEPT ![u] = [@ EXCEPT
                     !.displayName = Written(req[r].patch.displayName, Null),
                     !.avatarUrl = Written(req[r].patch.avatarUrl, Null)]]
    /\ End(r, "done")
    /\ UNCHANGED <<provisioned, restarts>>

\* updateProfile: the columns that were sent, and no others.
UpdateProfile(r) ==
    /\ req[r].pc = "updateProfile"
    /\ LET u == req[r].user
           patch == req[r].patch
       IN  \E outcome \in Outcomes("updateProfile") :
              /\ row' = IF outcome = "error" \/ ~row[u].present THEN row
                        ELSE [row EXCEPT ![u] = [@ EXCEPT
                                !.displayName = Written(patch.displayName, row[u].displayName),
                                !.avatarUrl = Written(patch.avatarUrl, row[u].avatarUrl)]]
              /\ End(r, IF outcome = "ok" /\ row[u].present THEN "done" ELSE "failed")
    /\ UNCHANGED <<provisioned, restarts>>

\* The process is restarted: cache and requests under way are gone, the table stays.
Restart ==
    /\ restarts < MaxRestarts
    /\ restarts' = restarts + 1
    /\ provisioned' = {}
    /\ req' = [r \in Requests |->
                 IF r \in Underway THEN [req[r] EXCEPT !.pc = "failed", !.seed = Keep] ELSE req[r]]
    /\ UNCHANGED row

Next ==
    \/ \E r \in Requests : \/ CanActivate(r) \/ FindById(r) \/ Upsert(r) \/ Provisioned(r)
                           \/ GetProfile(r) \/ UpdateProfile(r)
    \/ Restart

Spec == Init /\ [][Next]_vars

-----------------------------------------------------------------------------
RequestStates == {"findById", "upsert", "provisioned", "getProfile", "updateProfile",
                  "done", "failed"}

Columns(f) == {patch[f] : patch \in Patches} \ {Keep}
Buckets == {GetTracker(h, ip) : h \in Headers, ip \in Addresses}
Subjects == {Subject(h) : h \in Headers} \ {Null}
Names == Columns("displayName") \cup ({user.fullName : user \in Subjects} \ {Keep}) \cup {Null}

\* Type invariant.
TypeOK ==
    /\ row \in [Users -> [present : BOOLEAN, displayName : Names,
                          avatarUrl : Columns("avatarUrl") \cup {Null}]]
    /\ provisioned \in SUBSET Users
    /\ req \in [Requests -> {Idle, Refused}
                            \cup [pc : RequestStates, user : Users, patch : Patches,
                                  bucket : Buckets, seed : Names \cup {Keep}]]
    /\ restarts \in 0..MaxRestarts

(***************************************************************************)
(* No handler runs for a user without a profile: the rows of the other     *)
(* tables refer to it, and getProfile answers 404.  A request the cache    *)
(* let in relies on the upsert of another one, which may fail, lose its    *)
(* answer or die with the process.                                         *)
(***************************************************************************)
HandlersHaveProfile ==
    \A r \in Requests : req[r].pc \in {"getProfile", "updateProfile"} => row[req[r].user].present

\* What it rests on: the cache holds only users with a row, also between call and answer.
ProvisionInv ==
    /\ TypeOK
    /\ HandlersHaveProfile
    /\ \A u \in provisioned : row[u].present
    /\ \A r \in Requests : req[r].pc = "provisioned" => row[req[r].user].present

(***************************************************************************)
(* A login never overwrites the display name of an existing profile ("only *)
(* the initial name, seeded at creation; later logins must not overwrite   *)
(* it", user.repository.ts): it changes by a PATCH of its user and no      *)
(* other way.                                                              *)
(***************************************************************************)
LoginKeepsName ==
    [][\A u \in Users : row[u].present /\ row'[u].displayName # row[u].displayName =>
          \E r \in Requests : req[r].pc = "updateProfile" /\ req[r].user = u]_vars

(***************************************************************************)
(* PATCHes of different fields do not undo each other: from the first      *)
(* PATCH of the avatar that was answered on, the avatar is one that a      *)
(* PATCH sent, and never the blank of a profile created, or patched in     *)
(* another field, at the same time.                                        *)
(***************************************************************************)
AvatarsOf(u, pcs) ==
    {req[r].patch.avatarUrl : r \in {q \in Requests : req[q].pc \in pcs /\ req[q].user = u}}
        \ {Keep}

AvatarsMerge ==
    \A u \in Users :
        AvatarsOf(u, {"done"}) # {} => row[u].avatarUrl \in AvatarsOf(u, {"done", "failed"})

\* r is about to apply a PATCH of the avatar of u.
PatchesAvatar(r, u) ==
    req[r].pc = "updateProfile" /\ req[r].user = u /\ req[r].patch.avatarUrl # Keep

(***************************************************************************)
(* The last PATCH of the avatar wins: one that is answered leaves its own  *)
(* value, and from then on nothing but a further PATCH of the avatar of    *)
(* that user changes it, to the value this one sent.                       *)
(***************************************************************************)
LastAvatarWins ==
    [][\A u \in Users :
          /\ \A r \in Requests : PatchesAvatar(r, u) /\ req'[r].pc = "done"
                                   => row'[u].avatarUrl = req[r].patch.avatarUrl
          /\ row'[u].avatarUrl # row[u].avatarUrl =>
                \E r \in Requests : /\ PatchesAvatar(r, u)
                                    /\ row'[u].avatarUrl = req[r].patch.avatarUrl]_vars

(***************************************************************************)
(* Two requests that are let in are counted in one bucket exactly when     *)
(* they are of one user, though the throttler reads the header by itself   *)
(* and verifies nothing: otherwise one user would use up the limit of all  *)
(* behind the proxy (user-throttler.guard.ts), or have the limit of the    *)
(* paid checks once for every token they hold.                             *)
(***************************************************************************)
BucketsMatchUsers ==
    LET admitted == {r \in Requests : req[r].pc \notin {"idle", "refused"}}
    IN  \A r, q \in admitted : (req[r].bucket = req[q].bucket) <=> (req[r].user = req[q].user)
=============================================================================
