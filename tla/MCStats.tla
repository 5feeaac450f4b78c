------------------------------ MODULE MCStats ------------------------------
(***************************************************************************)
(* Model of the statistics service and its history for TLC.                *)
(***************************************************************************)
EXTENDS StatsHistory, TLC

\* Any of the four calls may throw; a read whose answer is lost is a read that failed.
AllFaults == {"findStatistics", "readActivity"} \X {"error"}
                \cup {"writeActivity", "saveStatistics"} \X {"error", "lost"}

\* The calls as numbers, so that the state shows who came first.
FourCalls == 1..4

\* Bound: the calls are made without gaps in their numbers, the last one when the others
\* are over.
WithoutGaps ==
    \A w \in Workers : rec[w] = IdleCall /\ rec'[w] # IdleCall =>
        /\ \A v \in Workers : v < w => rec[v] # IdleCall
        /\ w = 4 => Busy = {}

BoundedSpec == HistoryInit /\ [][HistoryNext /\ CalledInOrder /\ WithoutGaps]_histVars
=============================================================================
