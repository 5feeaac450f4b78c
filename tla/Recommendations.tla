-------------------------- MODULE Recommendations --------------------------
(***************************************************************************)
(* getRecommendations (src/modules/verse/verse.service.ts): a Fisher-Yates *)
(* shuffle of the candidates, of which the first few are shown.  The       *)
(* candidates found for an emotion are the numbers 1..n, in an array with  *)
(* the indexes 0..n - 1, as in the code.                                   *)
(***************************************************************************)
EXTENDS Integers, FiniteSets

CONSTANTS RECOMMENDATION_COUNT,
          MaxCandidates   \* bound on the candidates of an emotion

ASSUME CandidatesAssumption == RECOMMENDATION_COUNT \in Nat /\ MaxCandidates \in Nat

VARIABLE candidates   \* how many candidates the last request found

Min2(a, b) == IF a < b THEN a ELSE b

Swap(array, i, j) == [array EXCEPT ![i] = array[j], ![j] = array[i]]

\* Mutant of Draws: Math.random() * n at every step, the naive shuffle.
DrawsNaive(n) == [1..(n - 1) -> 0..(n - 1)]

\* What Math.floor(Math.random() * (i + 1)) may come to at each step i of the loop.
Draws(n) == {draw \in [1..(n - 1) -> 0..(n - 1)] : \A i \in 1..(n - 1) : draw[i] \in 0..i}

\* The loop from i = n - 1 down to 1, for one sequence of draws.
Shuffled(array, n, draw) ==
    LET From[i \in 0..(n - 1)] ==   \* the array before step i
            IF i = n - 1 THEN array ELSE Swap(From[i + 1], i + 1, draw[i + 1])
    IN  From[0]

\* slice(0, RECOMMENDATION_COUNT): the indexes that are shown.
ShownIndexes(n) == 0..(Min2(n, RECOMMENDATION_COUNT) - 1)

\* The answer to a request that found n candidates.
Recommended(n, draw) ==
    LET shuffled == Shuffled([i \in 0..(n - 1) |-> i + 1], n, draw)
    IN  [i \in ShownIndexes(n) |-> shuffled[i]]

GetRecommendations == candidates' \in 0..MaxCandidates

(***************************************************************************)
(* The shuffle is uniform: the draws are equally likely, and every         *)
(* selection of candidates, in every order, comes from the same number of  *)
(* them ("shuffled evenly ... avoids the bias", comment in                 *)
(* getRecommendations), also when there are fewer than are shown.          *)
(***************************************************************************)
ShuffleIsUniform ==
    LET n == candidates
        Answers == [draw \in Draws(n) |-> Recommended(n, draw)]
        Selections == {list \in [ShownIndexes(n) -> 1..n] :
                          \A i, j \in ShownIndexes(n) : i # j => list[i] # list[j]}
    IN  n > 0 => \A list \in Selections :
            Cardinality({draw \in Draws(n) : Answers[draw] = list}) * Cardinality(Selections)
                = Cardinality(Draws(n))
=============================================================================
