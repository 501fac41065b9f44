---------------------------- MODULE MCNodeFleet -----------------------------
(* An instance of NodeFleet for TLC.                                        *)
EXTENDS NodeFleet, TLC

\* Nodes, invocations and instances are interchangeable.
Symmetry == Permutations(Node) \cup Permutations(Program) \cup Permutations(Instance)

\* Everything goes wrong, for one node with a warm pool whose programs overlap;
\* two nodes whose programs take turns, without a warm pool and with one.
MCDeployments == {
  [warmPool |-> TRUE, overlap |-> TRUE, faults |-> FaultKind,
   nodes |-> 1, invocations |-> 3, generations |-> 2],
  [warmPool |-> FALSE, overlap |-> FALSE, faults |-> {"capacity"},
   nodes |-> 2, invocations |-> 4, generations |-> 3],
  [warmPool |-> TRUE, overlap |-> FALSE, faults |-> {"capacity"},
   nodes |-> 2, invocations |-> 4, generations |-> 3]}
=============================================================================
