# Re-Verse backend: TLA+ models and proofs

The repository is the NestJS backend of a handwriting app for Bible verses: a
user uploads a photograph of a copied passage, the server checks it with
Gemini in the background, and a passed writing paints a day of the user's
"grass" calendar and extends a streak.  The code keeps all durable state in
Supabase (Postgres and object storage) and has no transactions: every handler
is a sequence of single database calls, each behind an `await`.  The models
take that seriously.  An action is the instant at which the database (or
storage, or Gemini) applies one call, together with the synchronous code up to
the next one, and the calls of all requests, background jobs and scripts
interleave.

Paths below are relative to the repository; `modules/` is `src/modules/`.

## 1. Inventory

| Part | State it keeps | Operations | What is hard about it |
|---|---|---|---|
| Concurrency limiter (`src/common/concurrency-limiter.ts`) | `active`, `waiters` | `run`, `acquire`, `release` | slots handed over between microtasks, error paths, starvation |
| Streak calculator (`modules/stats/streak-calculator.ts`) | none | `calculateStreak`, `streakStartDate` | dates that repeat or go back |
| Statistics (`modules/stats`) | tables `user_statistics`, `user_daily_activity` | `recordWriting`, `getMyStatistics`, `getActivityCalendar` | read-modify-write from several jobs, failure between two writes, a banner put together from two reads |
| Writing sessions (`modules/writing`) | table `writing_sessions`, storage, in-memory jobs | `createUploadUrl`, `complete`, `processSimilarity`, boot sweep, `getById`, `listMyWritings` | check-then-claim, retries, crashes, background work nobody awaits, pages over a list that grows |
| Handwriting check (`modules/handwriting-check`) | none | `checkAndLog`, `debugCheck` | timeout in the middle of an answer, malformed answers |
| Progress calculator (`modules/writing/progress-calculator.ts`) | none | `calculateProgress` | overlapping ranges, ranges past the end of a chapter |
| Verse of the day (`modules/verse`) | table `daily_verses` | `getToday` | first requests of a date race, before and while verses are loaded |
| Recommendations (`modules/verse`) | tables `verses`, `emotion_verses` (read) | `getRecommendations` | a shuffle with no bias |
| Seeding of verses and emotions (`scripts/seed-verses.mjs`, `scripts/seed-emotion-verses.mjs`) | tables `verses`, `emotion_verses` | both scripts, run by hand | a script that dies half-way and is run again, both at once |
| Token verification and rate limit (`modules/auth/auth.service.ts`, `src/common/throttler`) | counters in the throttler library | `verifyToken`, `getTracker` | the same header is read twice, once verified and once not |
| Auth guard and profiles (`modules/auth`, `modules/user`) | table `users`, cache `provisioned` | `canActivate`, `upsertFromAuth`, `getProfile`, `updateProfile` | cache against table, provisioning races, patches |
| Books, health, configuration, DTOs, exception filter, dev tokens, other scripts | none of their own | reads, wiring, formatting | |

How they interact.  Every request passes the throttler's guard, which picks a
bucket, and `AuthGuard`, which verifies the token and provisions the profile.
`complete()` claims a session by a conditional update and gives
`processSimilarity` to the limiter without awaiting it.  The job downloads the
photograph, calls the handwriting check, stores the verdict (`markCompleted`)
and, on a pass, awaits `StatsService.recordWriting`; any error sends it to
`markFailed`.  The client polls the row.  A crash loses requests, queue and
jobs; the boot sweep marks what was left in `processing` as failed before the
server listens.  Progress is computed on read from the passed sessions.  The
scripts write the tables `getToday`, `getRecommendations` and the progress read.

What makes each part correct is stated with its module in section 3; the list
of hazards, each with its line and the properties aimed at it, is in
`PROJECT.json`.

## 2. Modules

| Module | Models | Relation |
|---|---|---|
| `ConcurrencyLimiter` | the limiter | instantiated by `WritingService` and `CheckQueue` |
| `FifoAdmission` | abstract: first come, first served | |
| `LimiterRefinement` | the limiter with a history of arrivals | implements `FifoAdmission` |
| `StreakCalculator` | the streak rules, as operators on day numbers | extended by `StatsService` |
| `StatsService` | `recordWriting` and its four database calls | instantiated by `WritingService` |
| `StatsHistory` | which calls overlapped, which days are active, and what is promised of calls that do not overlap | extends `StatsService` with a history variable |
| `HandwritingVerdict` | normalisation of Gemini's text and the pass criterion, as operators | extended by `HandwritingCheck` and `WritingService` |
| `HandwritingCheck` | `checkAndLog`: headers, body, breakdowns, timeout | extended by `CheckQueue` |
| `CheckQueue` | checks behind the limiter and a developer's `debugCheck` past it, with an unreliable Gemini | composes `HandwritingCheck` with `ConcurrencyLimiter` |
| `WritingService` | sessions, requests, jobs, crashes and boots | composes `ConcurrencyLimiter` and `StatsService` |
| `WritingReads` | a client that reads statistics, calendar, verdicts and pages of its list | extends `WritingService` with `completed_at` and a screen |
| `SessionLifecycle` | abstract: what a polling client may rely on | implemented by `WritingService` |
| `DailyVerse`, `OneVersePerDate` | `getToday`, and its abstract promise | the first implements the second |
| `ReferenceData` | the two seeding scripts, and the candidates of an emotion | extends `DailyVerse` with the tables the scripts load |
| `Recommendations` | `getRecommendations` and its shuffle | |
| `AccessToken` | what a header says to the guard and to the throttler | extended by `UserProvisioning` |
| `UserProvisioning` | guard, cache, provisioning, profile, buckets | |
| `Progress` | `calculateProgress` over passed ranges | |
| `Calculations` | the two calculations side by side, and the definition the progress is compared to | extends `Progress` and `Recommendations`, which share no state |
| `MC*` | instances for TLC | |
| `*_proofs` | theorems and their proofs | extend the module they are about |

State and actions follow the code by name: tables are functions from keys to
rows (`row`, `stats`, `daily`, `assigned`) or sets (`verses`,
`emotionVerses`), a call's local variables are a record with a program counter
named after the call it is about to make (`req`, `job`, `rec`, `call`,
`verseSeed`), and each action is named after the method whose database call it
applies.

**Failures.**  In the modules that talk to the database, the constant `Faults`
is a set of pairs `<<operation, outcome>>`: with `"error"` the call throws and
changes nothing, with `"lost"` the database has applied it and the answer does
not arrive, so the code sees the same exception.  Each instance says which of
these may happen.  A lost write is applied at once or never: a write that the
database applies after its caller has given up and gone on is not modelled.  A
script exits on the first call that fails, and may be interrupted at any time.

**Reads.**  `WritingReads` adds one client that reads at a time.  Its screen
holds what earlier queries returned, and the properties judge that against the
tables of every later moment.  `markCompleted` takes its time when it builds the
update and before it awaits it, so `completed_at` is two steps here: `TakeTime`
notes a time in `stamp` when a job comes to the update, and `StampCompletion`
puts it into the row when the database applies it.  Of two checks the one that
took its time first may be applied second, and any time of `Times` may be
taken: two jobs may share a millisecond, and a clock may be set back.

**Headers.**  In `AccessToken` an `Authorization` header is a sequence of pieces
that both readers cut for themselves.  The guard takes the second of the words
that spaces separate, and verifies it; the throttler takes everything after
`"Bearer "`, more words included, cuts that at its dots and decodes what is
between the first two, skipping characters outside the alphabet.  `jwtVerify` is
the library's: a token has three segments and is one of `Signed`.

**Abstractions.**  A date is its day number (the ISO strings compare the same
way; a date that does not exist is a value outside `Dates`).  A missing row of
statistics is the row of zeros, because both readers of the code treat it so.
A verse is its address, which is unique in the table.  A piece of a token is
told apart by the claims it decodes to, if any (`Claims`).  Text fields that
decide nothing (QT texts, recognised text, notes) are left out, as is image scaling, which
falls back to the original and so always yields an image.  Scores are
integers; the database's `numeric(5,2)` would not change a comparison with 60
made before the score is stored.  One server process is assumed, as the
comment at `writing.repository.ts:220` states.

## 3. Runs

Passing runs (`MC*.cfg`), with what they show:

| Run | Bounds | Properties |
|---|---|---|
| `MCLimiter` | 5 tasks, 2 slots | `TypeOK`, `SlotsAreCounted`, `QueueIsExact`, `NoIdleSlot`, `ImplementsFifo` (refinement), `EveryTaskRuns` (liveness) |
| `MCStats` | up to 3 calls at once and one after them, numbered as they are made, 4 days in any order, all faults | `TypeOK`, `StreakWindow`, `NeverOvercounts`, and, of calls that do not overlap, `CountsEveryPass`, `StreakIsExact` (against the definition of a run of days), `NothingTakenBack` |
| `MCCheck` | 3 checks, 2 slots, 13 kinds of text, with and without an API key | `TypeOK`, `PassesOnGeminisWord`, `BreakdownsThrow`, `RequestsBounded`, `QueueDrains` (liveness) |
| `MCWritingFaults` | 2 sessions, 3 requests of 2 users, bad dates and verses, 2 slots, 1 crash, all faults of the session calls, `recordWriting` failing before or after the grass | `TypeOK`, `OneJobPerSession`, `JobOwnsSession`, `PassedHasEvidence`, `SettledIsFinal` |
| `MCReads` | 2 sessions, 3 requests, 2 slots, 2 days, 1 crash, every fault before the verdict, completion times 1 and 2 in any order, pages of one | `GrassMatchesPassed`, `ShownStreakIsBacked`, `PolledVerdictStands`, `PagesSkipNothing`, `ImplementsLifecycle` (refinement) |
| `MCWritingLive` | 2 sessions, 2 requests, 1 slot, 2 crashes, recoverable faults | `ProcessingHasJob`, `ProcessingEnds` (liveness) |
| `MCDailyVerse` | 3 requests, 2 dates; 3 verses in chunks of 2, 2 emotions with one address that is not stored, each script run twice, all faults and interrupts | `SameVerseForAll`, `AssignmentIsFinal`, `ImplementsOneVersePerDate` (refinement), `SeedIsComplete`, `ReportIsAccurate` |
| `MCProvisioning` | 3 concurrent requests, 2 users, 20 kinds of header from 2 addresses, 2 avatars, 1 restart, all faults | `HandlersHaveProfile`, `AvatarsMerge`, `BucketsMatchUsers` |
| `MCCalculations` | 4 writings over 2 books; up to 4 candidates, 3 shown | `ProgressIsExact`, `CompletedIsCovered`, `ShuffleIsUniform` |

What the less obvious of them say.

* `ShownStreakIsBacked`: when the banner of a streak is looked up, after the
  statistics row that asks for it was read, its first day has a passed writing
  and the calendar shows every day of it, whatever was written in between.
* `PagesSkipNothing`: every writing listed when the first page was asked for
  has been shown by the last page, although writings enter the list before,
  between and behind those already shown and shift the offsets.  Exempt is a
  writing with the same day and the same `completed_at` as another one.
* `StreakIsExact`: the row of a user whose writings are recorded one by one, in
  the order of their dates, agrees at every moment with the definition of a
  streak over the active days, although it is only ever computed from the
  row before.
* `GrassMatchesPassed`: no day and no total ever shows more than the passed
  writings, while checks write beside each other from counts they read before,
  and after a crash that cut them short; as long as none has, and with no check
  under way, every day with a passed writing has grass.
* `ReportIsAccurate`: after a run of `seed-emotion-verses.mjs` that ended well,
  each curated address is a candidate or was reported missing.
* `BucketsMatchUsers`: the throttler cuts and decodes headers in its own way and
  verifies nothing, yet two requests the guard lets in share a bucket exactly
  when they share a user, also with further words, or a second token, behind
  the token.
* `ShuffleIsUniform`: over all draws, every selection of verses comes up
  equally often.

Why the bounds suffice.  Every race in this code is between two calls on the
same row; a third call adds a bystander, and three is also the default of
`SIMILARITY_MAX_CONCURRENCY`.  A queue needs more tasks than slots by at least
two for its order to matter.  Three days tell "same day", "next day" and "gap"
apart, also backwards; four let a run of two days follow a gap.  One crash
between any two steps reaches every half-done state, the second one crashes
the recovery.  A file of two chunks has a first, a last and a shorter one, and
a second run of a script meets what a first one left behind.  Pages of one are
the smallest, so that the most queries fall between two writes; a client that
has its banner or its last page is not followed further (`StillReading`), as
neither is judged against later tables.  Two completion times are in order, out
of order or equal.  The headers of `MCProvisioning` have separators missing, too
many and in places where they do not belong.  The safety results proved in section 4 need no bound at all.

Fairness.  `MCLimiter`, `MCCheck` and `MCWritingLive` use weak fairness of
steps the process takes on its own.  Continuations are run by the event loop.
A call of Gemini ends by `AbortSignal.timeout`
(`handwriting-check.service.ts:87`); in `CheckQueue` Gemini itself gets no
fairness, only the timer does.  Calls of Supabase end by the limits of the
HTTP client.  A dead process is started again by `restart: unless-stopped`
(`deploy/docker-compose.prod.yml`).  Clients, uploads and crashes get none.
Instances checked for liveness use no symmetry.

`CHECK_DEADLOCK FALSE` is set because every instance has finitely many
requests, after which nothing is left to do.

### Where properties stop holding

Some properties hold only under a condition, which is part of the property or
of the run.  The code does not ensure it; this is what happens without it.

| Property | Condition | Without it | To see it |
|---|---|---|---|
| `CountsEveryPass` | the call overlaps no other one of its user (stated in the property) | two concurrent passes of one day leave a count of one (the comment at `stats.repository.ts:91` accepts this) | drop `\ overlapped` |
| `NothingTakenBack`, `StreakIsExact` | the user's calls never overlapped (stated in the property) | a slower check overwrites a later `lastWrittenDate`, which `stats.service.ts:103` means to prevent | drop `OneByOne(u)` |
| `GrassMatchesPassed` | its second part: no crash so far (stated in the property) | a crash between `markCompleted` and the grass loses the grass for good: the sweep looks at `processing` only | drop `crashes = 0` |
| `ImplementsLifecycle`, `PolledVerdictStands`, `PagesSkipNothing` | no failure after the verdict, and no lost answer to it | an error of the statistics, or the answer of `markCompleted` lost after it was applied, turns a passed session that a client may have seen into `failed` | `MCReads` with `Faults <- FaultsAfterVerdict` |
| `PagesSkipNothing` | the writing ties with no other of its day (stated in the property) | equal keys come in any order, so a writing may fall between two pages | ask for `screen.missed = {}` instead |
| `CompletedIsCovered` | clients ask for stored verses | a range past the end of a chapter completes a book with a gap, or leaves out one with every verse written | `MCRangePastEnd` |
| `ProcessingEnds`, `ProcessingHasJob` | recoverable faults | an unanswered claim, a failed `markFailed` or a failed sweep leaves a session in `processing` until the next boot, which the code logs and accepts | `MCWritingLive` with `Faults <- AllFaults` |

Three disagreements with the documentation have runs of their own, which end in
a counterexample; `PROJECT.json` quotes the lines.

| Run | Property | What happens |
|---|---|---|
| `MCWritingCountedTwice` | `OneGrassPerWriting` | the statistics row cannot be saved after the grass was painted; the passed session ends in `failed`, and its retry paints the grass again |
| `MCProvisioningNameLost` | `LoginKeepsName` | the slower of two first requests overwrites a name the user has chosen |
| `MCRangePastEnd` | `CompletedIsCovered` | a range may run past the end of its chapter; the addresses past the end count like verses, and a book is completed with a verse unwritten |

Two more things worth knowing, neither of which changes a state.  An answer of
Gemini without text, or with text cut off by the token limit, is a verdict
(`Illegible`) and not a breakdown, so it ends the session for good; this is
documented.  And the comment at `verse.service.ts:63` says that the DTO filters
out a range whose `from` is behind its `to`; `GetVerseRangeQueryDto` does not
compare the two, and such a request is answered with an empty list.

## 4. Proofs

Every theorem is checked by TLAPS for all values of the constants that satisfy
the named assumptions of its module.

* **`ConcurrencyLimiter_proofs`** (assumes `Max >= 1`, which the constructor
  enforces).  `LimiterInv` joins the bound, the exact counter, the exact queue
  and "a queue only at the limit".  They need each other: `active - 1` stays
  above zero because a finishing task is counted, and the task woken held no
  slot because the queue is exact.  Hence `TypeCorrect`, `SlotsCounted`,
  `QueueExact`, `WorkConserving`.  `HistoryInv` says that the queue is the end
  of the arrivals, and that who arrived and is not in it holds a slot or is
  done; so the task woken is the next of the arrivals.  Hence
  `FirstComeFirstServed`, the refinement of `FifoAdmission`.
* **`StatsService_proofs`** (assumes dates are integers and null is none).
  `StreakWindow` is not inductive: a call saves a row computed from a snapshot
  that may be stale.  `StreakInv` adds that every snapshot held satisfies the
  window against the *current* calendar, which holds because cells never fall
  back to zero, and that a call about to save has painted its day.  Hence
  `StreakIsBacked`, under any interleaving and failure.  `CountInv` bounds the
  tables and every count a call has read by the calls that may have written,
  so that adding one stays within the bound when the writer joins them; for
  finitely many started calls, which each step keeps.  Hence `CountsStayBelow`.
  The results on calls that do not overlap are about the specification with
  its history (`StatsHistory`).  `AloneInv`: whatever snapshot a call holds
  counts every lone call that is done, because a lone call cannot have ended
  while that snapshot was held; and a call that has met no other holds the row
  as it is now.  Hence `LoneCallsCount` and `LoneCallsTakeNothingBack`.
  `ExactInv` says that the row of a user whose calls came one by one, in order
  and unfailing, is exact for the active days: the run that ends on the last
  day has the current length and is maximal, every other day has a maximal run
  of some length, and the longest of these lengths is attained.  It needs that
  the days recorded so far are those of earlier calls, for which a call that
  begins beside an earlier one marks that one.  `ExactExtends` is the step of
  the streak rules: a later day than all before touches no run but its own.
  Hence `StreaksAreExact`, for calls that are numbered by integers in the order
  in which they are made; the numbers only let the state show that order.
* **`WritingService_proofs`** (assumes owners and dates are well-typed, and at
  least one slot).
  `JobInv` joins types, checked requests, `JobOwnsSession` and
  `OneJobPerSession`: a live job's session is in a status that cannot be
  claimed, so no second job comes to it, so nobody else writes its row.  Hence
  `OneJob`, `JobOwns`, and the action property `SettledFinal`.  `EvidenceInv`
  adds that a job about to store its verdict has found the photograph, and
  that a row that does not exist has not passed.  Hence `EvidenceBehindPass`.
  Of the composition it is shown that each step is one of the limiter, leaves
  it alone, or is the crash, and likewise for the statistics service (which is
  called with users and dates only, by `JobInv`); so `LimiterInv` and
  `StreakInv` carry over.  Hence `TypeCorrect` and `StreakIsBacked`.
  `ProcessingIsHandedOver` shows `ProcessingHasJob` under `NothingLeftBehind`,
  which rules out exactly the three faults the code does not mend (a lost
  answer to a claim, a failed `markFailed`, a failed sweep).
  `PollsShowTheLifecycle` shows the refinement of `SessionLifecycle` under
  `VerdictsStand` (no lost answer to `markCompleted`, no failing
  `recordWriting`): then a job that fails has left its session in processing
  (`FailedBeforeVerdict`).  Without it a decided session is reopened, as
  `MCWritingCountedTwice` shows.
  `GrassShowsPasses` shows `GrassMatchesPassed`, also under `VerdictsStand`.
  `GrassInv` matches the calls of `recordWriting` with the passed sessions: a
  call was made for a passed session, with its owner and date, and two calls
  for different ones (a session passes once, because a completed one cannot be
  claimed); without a crash each passed session has its call.  The upper bounds
  need `CountsAreBacked`: a table, and also a count that a call has read and
  will write back plus one, is at most the number of passed sessions whose call
  has *written*.  A passed session is counted there unless a call for it is
  still before its write, so the writer joins the set with the very step that
  adds one, and a session whose call a crash has cut short stays in the set or
  enters it: this is what makes the bound survive crashes, where one that
  counts calls would not, because a crash forgets them.
  The other bound, that nothing passed is missing (`EveryPassCounts`), does not
  hold of every execution: two checks of one user that record at once may leave
  one writing out (section 3).  `CountsAreExact` is `CountsAreBacked` with
  equality; it needs that only the writing call's own session joins the set
  (`WhoJoins`), and that nobody else writes the user's row between a call's read
  and its write (`OneAtATime`).  Hence `LoneChecksCount`, of the executions in
  which calls of one user do not overlap and until a crash, which may cut a call
  short between its two writes.  That such executions are what the code produces
  with one slot is proved from the limiter: a check about to write holds its
  slot (`WritersHoldSlots`), so there are at most
  `SIMILARITY_MAX_CONCURRENCY` of them (`WritersStayBounded`), and with one slot
  two calls of one user cannot overlap (`OneSlotCounts`).
* **`WritingReads_proofs`** (assumes `VerdictsStand` in each theorem, as
  `MCReads` does).  Reading changes nothing the service keeps, so its
  invariants hold here.  `VerdictsAreFinal` rests on `FailedBeforeVerdict`: a
  completed row stays as it is.  For `StreaksStayBacked` the screen keeps the
  window of the row it was read from, whose cells stay above zero
  (`StreakShown`), grass means a passed writing (`GrassInv`), and a day with
  passed writings has a first one (`FirstIsKnown`, as some stamp is the least).
  `PagesShowEverything` assumes nothing of the order of stamps: a row that has
  one keeps it (`StampStep`), so a new writing enters the list anywhere, but
  none leaves the places before another one (`BeforeGrows`), and a writing not
  shown yet that ties with none has at least as many before it as the next page
  skips (`PagesInv`).
* **`HandwritingCheck_proofs`** (assumes texts parse or do not, and at least
  one slot).  `ClampKeepsThreshold` and `ResultIsFaithful` are lemmas about the
  operators; `ResultInv` says where a result comes from.  Hence
  `TypeCorrect`, `PassesAsGeminiSays` and `BreakdownsAlwaysThrow`.  Of the queue it is shown
  that each of its steps is a step of the limiter and a step of the checks, so
  that `LimiterInv` and the two results carry over
  (`QueuePassesAsGeminiSays`); with `SlotInv`, which says that only a task
  holding a slot awaits Gemini, follows `ChecksStayBounded`.
* **`ReferenceData_proofs`** (assumes null is no verse, non-empty files and a
  positive chunk size).  Of `getToday`, `VerseInv`: what was answered stands in
  the table, and a call that looks again finds a row.  Hence `SameVerse`,
  `AssignmentFinal` and `Refinement`: every step is one choice, one answer or a
  stutter of `OneVersePerDate`.  Of the scripts, `SeedInv`: the chunks before
  the loop's index are stored, which stays true because nothing removes a
  verse.  `EmotionInv`: of the emotions before the current one every address is
  among the rows or the missing, of the current one also among those waiting;
  and all rows, held or stored, are curated.  Hence `SeedCompletes` and
  `ReportAccounts`.  Every step of the scripts loads verses or leaves `getToday`
  alone, so its results carry over (`SameVerseWhileLoading`).
* **`UserProvisioning_proofs`** (assumes that headers are texts, that signed
  tokens name users, whose ids are non-empty strings, and that a piece with
  claims has no character outside the base64url alphabet).
  `ProvisionInv`: cached users and requests past the upsert have a row.  Hence
  `ProfileBehindHandler`.  `BucketInv`: a header that convinces the guard names
  its user to the throttler too (`BothReadTheUser`).  The guard's token begins
  the text the throttler decodes (`TokenBeginsRest`); a token has three
  segments, so the first two dots of that text are the token's, whatever
  follows, and both find the same payload (`SamePayload`), which the lenient
  decoding does not change (`LenientReadsTheSame`).  Hence `OneBucketPerUser`.
  `AvatarsMerge` is inductive as it stands, one user at a time, because no step
  but a PATCH that names the avatar touches the column, and one that is answered
  leaves its own value (`LastAvatarWins`).  Hence `AvatarsAreKept`, which states
  both.
* **`Calculations_proofs`** (assumes a Bible of finitely many books, each with
  finitely many verses and at least one, because `count_verses_per_book` has a
  row for the books of stored verses only; and a number of verses to show).
  If clients ask for stored ranges only
  (`RangesAreStored`), the written addresses of a book are stored verses, so
  equal numbers do mean that every verse is written (`CompletedBooksAreCovered`)
  and a book all of whose verses are written is counted
  (`WrittenBooksAreCompleted`, under the same hypothesis: an address past the end
  would raise the one number above the other).  The hypothesis is what the code does not
  enforce; without it `MCRangePastEnd` finds its counterexample.
  `ProgressShownIsExact` shows `ProgressIsExact`: the two sums over books are
  sizes of disjoint unions (`CoveredSum`, `TotalsSum`).  A sum is a fold, so this
  is an induction over finite sets; it is done by a least counterexample, since
  a set on which two functions with the equations of a sum differ has a subset
  on which they differ and no smaller one (`MinimalSubset`, `SumIsUnique`).
  `RecommendationsAreUniform` shows `ShuffleIsUniform`.  The loop of the shuffle
  is undone from its end: after each number of stages the draws and the
  arrangements they lead to correspond one to one (`StagesArrange`,
  `ResultsDiffer`, `ResultsReachAll`, by the least stage that fails), so an
  answer comes up as often as there are arrangements that begin with it; and a
  renaming of the candidates takes one answer to any other (`Renaming`,
  `NoAnswerIsFavoured`).

Two hypotheses come back in several theorems and are worth a word.
`VerdictsStand` leaves out a lost answer to `markCompleted` and a failing
`recordWriting`: the code reopens a decided session after these, so what is
proved under it is what the service promises as long as the statistics can be
written, and the runs of the table above show what happens otherwise.
`NothingLeftBehind` leaves out the faults after which the code itself waits for
the next boot.

Only model-checked.  Liveness (`EveryTaskRuns`, `QueueDrains`, `ProcessingEnds`)
is beyond the prover, as is `ENABLED`.  Every other property of a passing run is
stated by a theorem; `EveryPassCounts` and `WritersAreBounded`, which are stated
in `WritingService_proofs`, and `LastAvatarWins` are proved without a run of
their own.  The library's induction theorems take an operator as
parameter, which the provers cannot instantiate; the two inductions over data
are therefore spelt out, as arguments about a least counterexample.

## 5. Not modelled

* Books, `seed-books.mjs`: one read and one upsert of a table nothing else
  writes; no second step that could come in between.
* `seed-mock-user.mjs` and the load generator: tools for development.
* Development tokens, health, bootstrap wiring, configuration, exception
  filter: library calls and formatting.  The bounds on configuration values
  appear as assumptions of the modules, and the order of the boot (sweep, then
  listen) is in `WritingService`.
* Validation in DTOs: what it lets through is what the models enumerate as
  inputs.  Swagger documentation and response shapes are left out.
* Signature, issuer and audience of tokens (the `jose` library) and the
  counting and expiry of the rate limit (the throttler library): their verdicts
  are inputs of `AccessToken`; only the choice of the bucket is the code's.
* `getLinkedProviders`: one read of Supabase Auth.
* The API's limit of 1000 rows (`supabase/config.toml:18`), which cuts off
  `findPassedRangesByUser` for a user with more passed writings: the bound is
  the deployment's and far above what can be enumerated.
* The SQL beyond the tables, their keys and the functions the code calls; row
  policies and grants.
* Several server instances, deleted accounts, and writes applied after their
  caller gave up.

## 6. What could come next

1. `WritingService` with `HandwritingCheck` in place of its single `Inspect`
   step, as a refinement: a job that inspects implements one inspection.
2. Proofs: `StreakIsExact` in the composition, and what a crash between the two
   writes of a call leaves of it.
3. The patches of a profile against the upsert of a login, per column, as a
   refinement of one register per column.
