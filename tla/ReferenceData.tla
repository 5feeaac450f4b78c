---------------------------- MODULE ReferenceData ----------------------------
(***************************************************************************)
(* The verses and the curation of verses for emotions: the scripts that    *)
(* load them (scripts/seed-verses.mjs, seed-emotion-verses.mjs) beside the *)
(* service that reads them (src/modules/verse).                            *)
(*                                                                         *)
(* The scripts are started by hand, in any order and together, are killed  *)
(* or exit on the first call that fails, and are run again: each is meant  *)
(* to be repeatable, for it upserts by natural keys.  A verse stands for   *)
(* its address (translation, book, chapter, number), which is unique in    *)
(* the table; its text is left out.                                        *)
(***************************************************************************)
EXTENDS DailyVerse, Integers, Sequences, FiniteSets

CONSTANTS VerseFile,     \* data/bible.json: the verses in the order of the file
          EmotionFile,   \* data/emotion-verses.json: the addresses of each emotion, in order
          CHUNK_SIZE,
          MaxRuns        \* bound on the starts of each script

\* The files are not empty and name verses by their address.
ASSUME FileAssumption ==
    /\ VerseFile \in Seq(Verses) \ {<<>>}
    /\ EmotionFile \in Seq(SUBSET Verses) \ {<<>>}
    /\ CHUNK_SIZE \in Nat \ {0}

VARIABLES emotionVerses,   \* table emotion_verses: pairs of an emotion and a verse
          verseSeed,       \* the run of seed-verses.mjs: next is the index i of its loop
          emotionSeed,     \* the run of seed-emotion-verses.mjs, with its rows and missing
          runs             \* how often each script was started

scriptVars == <<emotionVerses, verseSeed, emotionSeed, runs>>

NoRun == [pc |-> "none"]

DataInit ==
    /\ Init
    /\ emotionVerses = {}
    /\ verseSeed = NoRun /\ emotionSeed = NoRun
    /\ runs = [script \in {"verses", "emotions"} |-> 0]

Under(run) == run.pc \in {"upsert", "resolve", "save"}

Start(script) ==
    /\ runs[script] < MaxRuns
    /\ runs' = [runs EXCEPT ![script] = @ + 1]

-----------------------------------------------------------------------------
(* seed-verses.mjs *)

SeedVerses ==
    /\ ~Under(verseSeed)
    /\ Start("verses")
    /\ verseSeed' = [pc |-> "upsert", next |-> 0]
    /\ UNCHANGED <<vars, emotionVerses, emotionSeed>>

\* rows.slice(i, i + CHUNK_SIZE), which stops at the end of the rows.
Chunk(i) == {VerseFile[n] : n \in {k \in DOMAIN VerseFile : i < k /\ k <= i + CHUNK_SIZE}}

\* Mutant of UpsertChunk: a chunk that failed is logged and the loop goes on.
UpsertChunkGoingOn ==
    /\ verseSeed.pc = "upsert"
    /\ \E outcome \in Outcomes("upsertChunk"), next \in {verseSeed.next + CHUNK_SIZE} :
          /\ Load(IF outcome = "error" THEN {} ELSE Chunk(verseSeed.next))
          /\ verseSeed' = IF next < Len(VerseFile) THEN [verseSeed EXCEPT !.next = next]
                          ELSE [pc |-> "done"]
    /\ UNCHANGED <<emotionVerses, emotionSeed, runs>>

\* upsertChunk and the step of the loop; the script exits on an error.
UpsertChunk ==
    /\ verseSeed.pc = "upsert"
    /\ \E outcome \in Outcomes("upsertChunk"), next \in {verseSeed.next + CHUNK_SIZE} :
          /\ Load(IF outcome = "error" THEN {} ELSE Chunk(verseSeed.next))
          /\ verseSeed' = IF outcome # "ok" THEN Failed
                          ELSE IF next < Len(VerseFile) THEN [verseSeed EXCEPT !.next = next]
                          ELSE [pc |-> "done"]
    /\ UNCHANGED <<emotionVerses, emotionSeed, runs>>

-----------------------------------------------------------------------------
(* seed-emotion-verses.mjs *)

\* The addresses of one emotion are looked up at once; waiting are those not yet answered.
SeedEmotions ==
    /\ ~Under(emotionSeed)
    /\ Start("emotions")
    /\ emotionSeed' = [pc |-> "resolve", at |-> 1, waiting |-> EmotionFile[1],
                       rows |-> {}, missing |-> {}]
    /\ UNCHANGED <<vars, emotionVerses, verseSeed>>

\* resolveVerseId of one address; a lookup that fails ends the script.
ResolveVerseId ==
    /\ emotionSeed.pc = "resolve"
    /\ \E v \in emotionSeed.waiting, outcome \in Outcomes("resolveVerseId") :
          LET pair == <<emotionSeed.at, v>>
          IN  emotionSeed' =
                IF outcome # "ok" THEN Failed
                ELSE IF v \in verses
                THEN [emotionSeed EXCEPT !.waiting = @ \ {v}, !.rows = @ \cup {pair}]
                ELSE [emotionSeed EXCEPT !.waiting = @ \ {v}, !.missing = @ \cup {pair}]
    /\ UNCHANGED <<vars, emotionVerses, verseSeed, runs>>

\* Mutant of NextEmotion: rows declared inside the loop.
NextEmotionForgetting ==
    /\ emotionSeed.pc = "resolve" /\ emotionSeed.waiting = {}
    /\ emotionSeed' =
          IF emotionSeed.at < Len(EmotionFile)
          THEN [emotionSeed EXCEPT !.at = @ + 1, !.waiting = EmotionFile[emotionSeed.at + 1],
                                   !.rows = {}]
          ELSE [emotionSeed EXCEPT !.pc = "save"]
    /\ UNCHANGED <<vars, emotionVerses, verseSeed, runs>>

\* Promise.all is fulfilled: the next emotion, or on to the upsert.
NextEmotion ==
    /\ emotionSeed.pc = "resolve" /\ emotionSeed.waiting = {}
    /\ emotionSeed' =
          IF emotionSeed.at < Len(EmotionFile)
          THEN [emotionSeed EXCEPT !.at = @ + 1, !.waiting = EmotionFile[emotionSeed.at + 1]]
          ELSE [emotionSeed EXCEPT !.pc = "save"]
    /\ UNCHANGED <<vars, emotionVerses, verseSeed, runs>>

\* One upsert of all rows, and the report; without rows there is nothing to upsert.
UpsertEmotions ==
    /\ emotionSeed.pc = "save"
    /\ \E outcome \in IF emotionSeed.rows = {} THEN {"ok"} ELSE Outcomes("upsertEmotions") :
          /\ emotionVerses' = IF outcome = "error" THEN emotionVerses
                              ELSE emotionVerses \cup emotionSeed.rows
          /\ emotionSeed' = IF outcome # "ok" THEN Failed
                            ELSE [pc |-> "done", missing |-> emotionSeed.missing]
    /\ UNCHANGED <<vars, verseSeed, runs>>

\* The operator interrupts a script.
Kill ==
    /\ \/ Under(verseSeed) /\ verseSeed' = Failed /\ UNCHANGED emotionSeed
       \/ Under(emotionSeed) /\ emotionSeed' = Failed /\ UNCHANGED verseSeed
    /\ UNCHANGED <<vars, emotionVerses, runs>>

-----------------------------------------------------------------------------
\* findEmotionVerseCandidates: the stored verses of an emotion.
FindEmotionVerseCandidates(emotion) == {v \in verses : <<emotion, v>> \in emotionVerses}

DataNext ==
    \/ SeedVerses \/ UpsertChunk
    \/ SeedEmotions \/ ResolveVerseId \/ NextEmotion \/ UpsertEmotions
    \/ Kill
    \/ \E r \in Requests : Get(r) /\ UNCHANGED scriptVars

DataSpec == DataInit /\ [][DataNext]_<<vars, scriptVars>>

-----------------------------------------------------------------------------
(***************************************************************************)
(* A run of seed-verses.mjs that says it is done has stored every verse of *)
(* the file, the last, shorter chunk included, whatever earlier runs were  *)
(* cut short ("no duplicates when run again", comment in the script).      *)
(***************************************************************************)
SeedIsComplete == verseSeed.pc = "done" => \A i \in DOMAIN VerseFile : VerseFile[i] \in verses

(***************************************************************************)
(* The report of seed-emotion-verses.mjs accounts for all of the curation  *)
(* ("the list of misses is the coverage report", comment in the script):   *)
(* after a run that is done, a curated address is among the candidates the *)
(* service recommends from or was reported missing, although verses are    *)
(* loaded while it looks them up and earlier runs died before their one    *)
(* upsert; and no verse is recommended for an emotion it is not curated for. *)
(***************************************************************************)
ReportIsAccurate ==
    \A i \in DOMAIN EmotionFile :
        LET candidates == FindEmotionVerseCandidates(i)
        IN  /\ candidates \subseteq EmotionFile[i]
            /\ emotionSeed.pc = "done" =>
                  \A v \in EmotionFile[i] : v \in candidates \/ <<i, v>> \in emotionSeed.missing
=============================================================================
