----------------------------- MODULE ContractLog -----------------------------
(***************************************************************************)
(* What taking snapshots promises (the comment on contract.Snapshot): a    *)
(* log of the contract in which the first entry is a baseline and reports  *)
(* nothing, and every later entry reports exactly its differences from the *)
(* entry before it.  Storing a version and its events is one step here.    *)
(***************************************************************************)
EXTENDS Diff, Sequences

CONSTANT Graphs

VARIABLE log    \* the recorded graphs, each with the changes it reported

Init == log = <<>>

Record(graph) ==
    log' = Append(log, [graph  |-> graph,
                        events |-> IF log = <<>> THEN {}
                                   ELSE Compute(log[Len(log)].graph, graph)])

Next == \E graph \in Graphs : Record(graph)

Spec == Init /\ [][Next]_log
=============================================================================
