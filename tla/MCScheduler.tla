----------------------------- MODULE MCScheduler -----------------------------
(* Instances of Scheduler for TLC: two replicas and a manual caller. *)
EXTENDS Scheduler, MCContracts

CONSTANTS r1, r2, m1

MCGraphs == {Plain, Widened}

MCTrigger == [p \in Snapshotters |-> IF p = m1 THEN "manual" ELSE "scheduled"]

NoOffset == [p \in Snapshotters |-> 0]
=============================================================================
