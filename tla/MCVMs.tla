------------------------------- MODULE MCVMs -------------------------------
(* Instances of VMs for TLC: a node with a public IP under faults, and two *)
(* nodes that race for the backend pools.                                  *)
EXTENDS VMs

CONSTANTS n1, n2

Scenario(nodes, ip, left, f, p, deletions) ==
    [nodes |-> nodes, publicIP |-> ip, leftovers |-> left, faults |-> f, poolChanges |-> p, deletions |-> deletions]
MCScenarios ==
    {Scenario({n1}, {n1}, {n1}, 1, 0, TRUE),        \* a restart, then a fault
     Scenario({n1}, {n1}, {}, 0, 0, TRUE),          \* a launch beside the collectors
     Scenario({n1}, {n1}, {}, 0, 2, FALSE),         \* a launch, pools changing under it
     Scenario({n1, n2}, {}, {}, 1, 1, FALSE)}       \* two launches, pools changing under both
=============================================================================
