-------------------------- MODULE HandwritingCheck --------------------------
(***************************************************************************)
(* checkAndLog (src/modules/handwriting-check): one request to Gemini, in  *)
(* two parts, the headers and the body, under one AbortSignal.timeout.     *)
(* Gemini is external and owes nothing: it may answer well, answer an      *)
(* error, drop the connection at any point or never answer.                *)
(*                                                                         *)
(* A call "returned" gives a result, one that "threw" sends its caller to  *)
(* the catch clause.  The photograph is not modelled: downscaleImage falls *)
(* back to the original when it fails, so it always yields one to send.    *)
(***************************************************************************)
EXTENDS HandwritingVerdict

CONSTANTS Calls,     \* calls of checkAndLog, each made at most once
          Texts,     \* texts in the answers of Gemini, Null among them
          ApiKeys    \* values of "GEMINI_API_KEY is set" to consider

ASSUME TextsAssumption ==
    /\ Null \notin Int
    /\ \A t \in Texts \ {Null} : t.json \in BOOLEAN

VARIABLES hasKey,   \* whether GEMINI_API_KEY is set
          call      \* the local state of each call

vars == <<hasKey, call>>

Idle == [pc |-> "idle"]
Threw == [pc |-> "threw"]
At(pc) == [pc |-> pc]

Init ==
    /\ hasKey \in ApiKeys
    /\ call = [c \in Calls |-> Idle]

\* Awaiting: the headers, the body of an error, or the body of an answer.
Awaiting == {"headers", "errorBody", "body"}

\* The call begins; without a key it throws before anything is sent.
CheckAndLog(c) ==
    /\ call[c] = Idle
    /\ call' = [call EXCEPT ![c] = IF hasKey THEN At("headers") ELSE Threw]
    /\ UNCHANGED hasKey

\* fetch resolves: with a success, or with a status that is not ok.
Headers(c) ==
    /\ call[c].pc = "headers"
    /\ \E ok \in BOOLEAN : call' = [call EXCEPT ![c] = At(IF ok THEN "body" ELSE "errorBody")]
    /\ UNCHANGED hasKey

\* The body of an error is only logged: 503 follows.
ErrorBody(c) ==
    /\ call[c].pc = "errorBody"
    /\ call' = [call EXCEPT ![c] = Threw]
    /\ UNCHANGED hasKey

\* The whole body arrives: its text decides the result.
Body(c) ==
    /\ call[c].pc = "body"
    /\ \E text \in Texts :
          call' = [call EXCEPT ![c] = [pc |-> "returned", text |-> text,
                                       result |-> ResultOf(text)]]
    /\ UNCHANGED hasKey

\* Mutant of Breakdown: an unreachable Gemini is taken for an illegible photograph.
BreakdownAsResult(c) ==
    /\ call[c].pc \in Awaiting
    /\ call' = [call EXCEPT ![c] = [pc |-> "returned", text |-> "none", result |-> Illegible]]
    /\ UNCHANGED hasKey

(***************************************************************************)
(* The connection breaks, or the body is no JSON: fetch, text() or json()  *)
(* rejects and checkAndLog throws, through its catch clause or past it.    *)
(***************************************************************************)
Breakdown(c) ==
    /\ call[c].pc \in Awaiting
    /\ call' = [call EXCEPT ![c] = Threw]
    /\ UNCHANGED hasKey

\* Mutant of Timeout: a timer stopped once the headers are there.
TimeoutOfHeadersOnly(c) ==
    /\ call[c].pc = "headers"
    /\ call' = [call EXCEPT ![c] = Threw]
    /\ UNCHANGED hasKey

\* The signal aborts whatever is awaited, headers or body.
Timeout(c) ==
    /\ call[c].pc \in Awaiting
    /\ call' = [call EXCEPT ![c] = Threw]
    /\ UNCHANGED hasKey

Gemini(c) == Headers(c) \/ ErrorBody(c) \/ Body(c) \/ Breakdown(c)

Next == \E c \in Calls : CheckAndLog(c) \/ Gemini(c) \/ Timeout(c)

Spec == Init /\ [][Next]_vars

-----------------------------------------------------------------------------
Results == [isPenHandwriting : BOOLEAN, similarityScore : 0..100 \cup {Null}]

\* Type invariant; a score is null or within 0..100 ("clamps", HANDWRITING_CHECK_POLICY.md).
TypeOK ==
    /\ hasKey \in ApiKeys
    /\ call \in [Calls -> [pc : {"idle", "threw"} \cup Awaiting]
                             \cup [pc : {"returned"}, text : Texts, result : Results]]

(***************************************************************************)
(* A writing passes exactly when Gemini itself wrote true for the pen and  *)
(* a number of at least 60, whatever else it may send: no coercion, no     *)
(* clamping and no fallback turns another answer into a pass or a pass     *)
(* into something else.                                                    *)
(***************************************************************************)
PassesOnGeminisWord ==
    \A c \in Calls : call[c].pc = "returned" =>
        LET text == call[c].text
        IN  Passes(call[c].result) <=>
              /\ text # Null
              /\ text.json
              /\ text.isPenHandwriting = TRUE
              /\ text.similarityScore \in Int
              /\ text.similarityScore >= PASS_MIN_SIMILARITY_SCORE

(***************************************************************************)
(* A call that returns went through a successful response whose body came  *)
(* whole: a missing key, an error status, a broken connection and a        *)
(* timeout all throw, so that the session ends in 'failed' and may be      *)
(* tried again instead of failing its writer for good.                     *)
(***************************************************************************)
BreakdownsThrow ==
    [][\A c \in Calls :
          call'[c].pc = "returned" /\ call[c].pc # "returned"
             => call[c].pc = "body" /\ call'[c].text \in Texts]_vars
=============================================================================
