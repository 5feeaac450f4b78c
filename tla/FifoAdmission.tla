--------------------------- MODULE FifoAdmission ---------------------------
(***************************************************************************)
(* What the limiter promises its callers, without slots or queue: calls    *)
(* arrive one after the other, and the calls admitted so far are the first *)
(* calls to have arrived, as many of them as the limit allows.             *)
(***************************************************************************)
EXTENDS Integers, Sequences, FiniteSets

CONSTANTS Tasks, Max

VARIABLES arrivals,   \* the calls in the order in which they were made
          finished    \* the calls whose task has ended

\* A slot is lent to each of the first Max calls and to one more per finished call.
AdmittedCount ==
    IF Len(arrivals) < Cardinality(finished) + Max
    THEN Len(arrivals)
    ELSE Cardinality(finished) + Max

Admitted == {arrivals[i] : i \in 1..AdmittedCount}

Init ==
    /\ arrivals = <<>>
    /\ finished = {}

Arrive(t) ==
    /\ \A i \in DOMAIN arrivals : arrivals[i] # t
    /\ arrivals' = Append(arrivals, t)
    /\ UNCHANGED finished

Complete(t) ==
    /\ t \in Admitted \ finished
    /\ finished' = finished \cup {t}
    /\ UNCHANGED arrivals

Next == \E t \in Tasks : Arrive(t) \/ Complete(t)

Spec == Init /\ [][Next]_<<arrivals, finished>>
=============================================================================
