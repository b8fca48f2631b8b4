------------------------------ MODULE MCSnapshot ------------------------------
(* Instances of Snapshot for TLC. *)
EXTENDS Snapshot, MCContracts

CONSTANTS s1, s2

MCGraphs == {Plain, Widened, Upgraded, Empty}

NoOffset == [p \in Snapshotters |-> 0]
(* The second snapshotter's clock is one snapshot behind. *)
Behind == [p \in Snapshotters |-> IF p = s2 THEN -1 ELSE 0]

AllManual == [p \in Snapshotters |-> "manual"]
=============================================================================
