---------------------------- MODULE Calculations ----------------------------
(***************************************************************************)
(* The service's calculations together: progress through the Bible and     *)
(* what it means, and the shuffle of recommendations.  Neither touches the *)
(* state of the other.                                                     *)
(***************************************************************************)
EXTENDS Progress, Recommendations

\* Progress is made, and recommendations are asked for.
CalculationsInit == Init /\ candidates = 0
CalculationsNext ==
    \/ Next /\ UNCHANGED candidates
    \/ GetRecommendations /\ UNCHANGED passedRanges
CalculationsSpec == CalculationsInit /\ [][CalculationsNext]_<<passedRanges, candidates>>

-----------------------------------------------------------------------------
Verses == UNION {{b} \X Bible[b] : b \in DOMAIN Bible}

Written(v) == \E i \in DOMAIN passedRanges :
    /\ passedRanges[i].bookNo = v[1]
    /\ passedRanges[i].chapter = v[2][1]
    /\ passedRanges[i].startVerseNo <= v[2][2]
    /\ passedRanges[i].endVerseNo >= v[2][2]

(***************************************************************************)
(* The progress shown is what it says: stored verses written at least      *)
(* once, stored verses, and books all of whose stored verses are written.  *)
(***************************************************************************)
ProgressIsExact ==
    GetMyProgress =
      [coveredVerses |-> Cardinality({v \in Verses : Written(v)}),
       totalVerses |-> Cardinality(Verses),
       completedBooks |-> Cardinality({b \in DOMAIN Bible :
                                          \A v \in Verses : v[1] = b => Written(v)})]
=============================================================================
