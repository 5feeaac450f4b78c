---------------------------- MODULE AccessToken ----------------------------
(***************************************************************************)
(* What the Authorization header of a request says, read twice over:       *)
(* AuthGuard and AuthService (src/modules/auth) cut the token out of it,   *)
(* verify it and take the user from it; UserThrottlerGuard                 *)
(* (src/common/throttler) cuts and decodes the same header in its own way, *)
(* without verifying, to choose the bucket the request is counted in.      *)
(*                                                                         *)
(* A header is Null or a sequence of pieces: "space" and "dot" are the     *)
(* separators; any other piece is a run of further characters, of which    *)
(* all that matters is what it decodes to, if anything, when it is the     *)
(* payload of a token.                                                     *)
(***************************************************************************)
EXTENDS Integers, Sequences

CONSTANTS Null,
          Keep,        \* undefined
          NotString,   \* a value of the claim sub that is no string
          Claims,      \* the claims in the pieces that are JSON in base64url, a function
          Signed       \* the tokens whose signature, issuer, audience and expiry are good

AUTH_PROVIDERS == {"google", "kakao"}

\* Pieces that are not of the base64url alphabet, which Buffer.from skips.
Skipped == {"space", "stray"}

ASSUME ClaimsAssumption == Skipped \cap DOMAIN Claims = {}

-----------------------------------------------------------------------------
\* Where separators are in a text, the first of them (or the end), and what is on its sides.
Cuts(text, sep) == {i \in DOMAIN text : text[i] = sep}

FirstCut(text, sep) ==
    IF Cuts(text, sep) = {} THEN Len(text) + 1
    ELSE CHOOSE i \in Cuts(text, sep) : \A j \in Cuts(text, sep) : i <= j

Before(text, sep) == SubSeq(text, 1, FirstCut(text, sep) - 1)
After(text, sep) == SubSeq(text, FirstCut(text, sep) + 1, Len(text))

\* split(sep)[1]; undefined and '' are not told apart by any caller.
SecondPart(text, sep) == Before(After(text, sep), sep)

-----------------------------------------------------------------------------
\* extractBearerToken: the second of the words, after "Bearer".
ExtractBearerToken(header) ==
    IF /\ header # Null
       /\ Before(header, "space") = <<"Bearer">>
       /\ SecondPart(header, "space") # <<>>
    THEN SecondPart(header, "space")
    ELSE Null

ExtractProvider(payload) ==
    IF payload.provider \in AUTH_PROVIDERS THEN payload.provider ELSE Null

\* extractFullName: a blank name is none.
ExtractFullName(payload) ==
    IF payload.fullName \in {Null, "blank"} THEN Keep ELSE payload.fullName

\* jwtVerify of jose: a token has exactly three segments, and its payload is decoded as it stands.
JwtVerify(token) ==
    LET payload == SecondPart(token, "dot")
    IN  IF /\ \E i, j \in DOMAIN token : i < j /\ Cuts(token, "dot") = {i, j}
           /\ token \in Signed
           /\ Len(payload) = 1 /\ payload[1] \in DOMAIN Claims
        THEN Claims[payload[1]]
        ELSE Null

\* verifyToken; Null stands for the 401 it throws, and in a claim for one absent or empty.
VerifyToken(token) ==
    LET payload == JwtVerify(token)
    IN  IF payload = Null THEN Null
        ELSE IF Null \in {payload.sub, payload.email, ExtractProvider(payload)} THEN Null
        ELSE [userId |-> payload.sub, fullName |-> ExtractFullName(payload)]

\* The user canActivate finds behind a header, Null if it answers 401.
Subject(header) ==
    LET token == ExtractBearerToken(header)
    IN  IF token = Null THEN Null ELSE VerifyToken(token)

-----------------------------------------------------------------------------
\* What JSON.parse makes of the text decoded leniently; Null if anything throws.
Decoded(text) ==
    LET letters == {i \in DOMAIN text : text[i] \notin Skipped}
    IN  IF \E i \in letters : letters = {i} /\ text[i] \in DOMAIN Claims
        THEN Claims[text[CHOOSE i \in letters : TRUE]]
        ELSE Null

\* Mutant of DecodeSub: what is not in three segments is not decoded.
DecodeSubOfThree(token) ==
    LET payload == Decoded(SecondPart(token, "dot"))
    IN  IF \/ ~\E i, j \in DOMAIN token : i < j /\ Cuts(token, "dot") = {i, j}
           \/ payload = Null
        THEN Null
        ELSE IF payload.sub = NotString THEN Null ELSE payload.sub

(***************************************************************************)
(* decodeSub: no verification, the key of a bucket is not a trust          *)
(* boundary.  Its text may be more than the token, to the header's end.    *)
(***************************************************************************)
DecodeSub(token) ==
    LET payload == Decoded(SecondPart(token, "dot"))
    IN  IF payload = Null THEN Null
        ELSE IF payload.sub = NotString THEN Null ELSE payload.sub

\* startsWith('Bearer ').
StartsWithBearer(header) == Len(header) >= 2 /\ header[1] = "Bearer" /\ header[2] = "space"

(***************************************************************************)
(* getTracker: the bucket is the user's when the header starts with        *)
(* "Bearer " and the rest, slice(7), names one; otherwise the address'.    *)
(***************************************************************************)
GetTracker(header, ip) ==
    IF /\ header # Null
       /\ StartsWithBearer(header)
       /\ DecodeSub(SubSeq(header, 3, Len(header))) # Null
    THEN <<"u", DecodeSub(SubSeq(header, 3, Len(header)))>>
    ELSE <<"ip", ip>>
=============================================================================
