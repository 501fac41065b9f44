---------------------------- MODULE MCSpendHolds ----------------------------
(* An instance of SpendHolds for TLC.                                       *)
EXTENDS SpendHolds, TLC

\* Nodes are interchangeable, and so are invocations.
Symmetry == Permutations(Node) \cup Permutations(Program)

\* Everything fails, for one node; its programs overlap; two nodes whose
\* programs die or lose requests; two nodes and nothing fails.
MCDeployments == {
  [strict |-> TRUE, overlap |-> FALSE, faults |-> FaultKind,
   nodes |-> 1, invocations |-> 4, generations |-> 2],
  [strict |-> TRUE, overlap |-> TRUE, faults |-> {},
   nodes |-> 1, invocations |-> 4, generations |-> 2],
  [strict |-> FALSE, overlap |-> FALSE, faults |-> {"crash", "net"},
   nodes |-> 2, invocations |-> 4, generations |-> 1],
  [strict |-> FALSE, overlap |-> FALSE, faults |-> {},
   nodes |-> 2, invocations |-> 4, generations |-> 1]}
=============================================================================
