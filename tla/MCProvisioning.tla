--------------------------- MODULE MCProvisioning ---------------------------
(* Model of just-in-time profiles for TLC. *)
EXTENDS UserProvisioning, TLC

CONSTANTS u1, u2, fullName, chosen, picture, another

\* The payloads of tokens, by a name for what is in them.
ClaimsOf(sub, email, provider, name) ==
    [sub |-> sub, email |-> email, provider |-> provider, fullName |-> name]

Payloads ==
    "ofFirst"     :> ClaimsOf(u1, "email", "kakao", fullName) @@
    "blankName"   :> ClaimsOf(u1, "email", "google", "blank") @@
    "ofSecond"    :> ClaimsOf(u2, "email", "kakao", Null) @@
    "noSub"       :> ClaimsOf(Null, "email", "kakao", Null) @@
    "numberSub"   :> ClaimsOf(NotString, "email", "kakao", Null) @@
    "noEmail"     :> ClaimsOf(u1, Null, "kakao", Null) @@
    "byEmail"     :> ClaimsOf(u1, "email", "email", Null)

Token(payload) == <<"head", "dot", payload, "dot", "signature">>
Bearer(token) == <<"Bearer", "space">> \o token

\* A number for a user is in no token that GoTrue signs.
SignedTokens == {Token(p) : p \in DOMAIN Payloads \ {"numberSub"}}

\* Tokens of the first user with a name and with a blank one, of the second without a
\* name, and the same with more words behind them, which may look like tokens.
TwoUsers ==
    {Bearer(Token("ofFirst")), Bearer(Token("blankName")), Bearer(Token("ofSecond")),
     Bearer(Token("ofFirst")) \o <<"space">> \o Token("ofSecond"),
     Bearer(Token("ofSecond")) \o <<"space", "word", "dot", "ofFirst">>}

\* Headers that are answered 401: none, another scheme, no token, one behind two spaces, one
\* that is no JWT, whose payload is no JSON, with a segment too few or too many, with a space
\* or another character in it, not signed, and without a user, an email or one of the providers.
Unauthenticated ==
    {Null, <<"Basic", "space">> \o Token("ofFirst"), <<"Bearer">>,
     Bearer(<<"space">> \o Token("ofFirst")), Bearer(<<"word">>), Bearer(Token("word")),
     Bearer(<<"head", "dot", "ofFirst">>), Bearer(Token("ofFirst") \o <<"dot", "word">>),
     Bearer(<<"head", "dot", "space", "ofFirst", "dot", "signature">>),
     Bearer(<<"head", "dot", "stray", "ofFirst", "dot", "signature">>),
     Bearer(<<"head", "dot", "ofFirst", "dot", "forged">>),
     Bearer(Token("noSub")), Bearer(Token("numberSub")), Bearer(Token("noEmail")),
     Bearer(Token("byEmail"))}

AnyHeader == TwoUsers \cup Unauthenticated

FirstLogin == {Bearer(Token("ofFirst"))}

\* A GET, and PATCHes of either field.
Changes == {NoChange, [NoChange EXCEPT !.displayName = chosen],
            [NoChange EXCEPT !.avatarUrl = picture], [NoChange EXCEPT !.avatarUrl = another]}

NoFaults == {}

AnyFault == {"findById", "upsert", "getProfile", "updateProfile"} \X {"error", "lost"}

RequestSymmetry == Permutations(Requests)
=============================================================================
