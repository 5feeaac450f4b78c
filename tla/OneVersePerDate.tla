-------------------------- MODULE OneVersePerDate --------------------------
(***************************************************************************)
(* What GET /verses/today promises, without calls or tables: a date gets   *)
(* one verse, once and for all, and everyone who asks is answered with it. *)
(***************************************************************************)
CONSTANTS Dates, Verses, Requests,
          Null   \* no verse chosen, no answer given

VARIABLES chosen,   \* the verse of each date
          answer    \* the answer to each request, a date and its verse

Init ==
    /\ chosen = [d \in Dates |-> Null]
    /\ answer = [r \in Requests |-> Null]

Choose(d, v) ==
    /\ chosen[d] = Null
    /\ chosen' = [chosen EXCEPT ![d] = v]
    /\ UNCHANGED answer

Answer(r, d) ==
    /\ answer[r] = Null
    /\ chosen[d] # Null
    /\ answer' = [answer EXCEPT ![r] = <<d, chosen[d]>>]
    /\ UNCHANGED chosen

Next ==
    \/ \E d \in Dates, v \in Verses : Choose(d, v)
    \/ \E r \in Requests, d \in Dates : Answer(r, d)

Spec == Init /\ [][Next]_<<chosen, answer>>
=============================================================================
