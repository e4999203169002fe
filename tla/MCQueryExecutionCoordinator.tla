---------------------- MODULE MCQueryExecutionCoordinator ----------------------
(* Instances of QueryExecutionCoordinator for TLC.                         *)
EXTENDS QueryExecutionCoordinator, TLC

CONSTANTS l1, l2, s1, s2, s3, i1, i2, i3, d1, d2

OneLane == {l1}
TwoLanes == {l1, l2}
NoExecutions == {}
AllInOneLane == [x \in Executions |-> l1]
SplitLanes == [x \in Executions |-> IF x \in {s1, i1, i2, d1} THEN l1 ELSE l2]

OneS == {s1}
TwoS == {s1, s2}
OneI == {i1}
ThreeI == {i1, i2, i3}
OneD == {d1}

OneLimit == {<< 1, 2 >>}
Widened == {<< 1, 1 >>, << 2, 2 >>}
================================================================================
