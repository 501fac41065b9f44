--------------------------- MODULE MCPeerAssembly ---------------------------
(* An instance of PeerAssembly for TLC.                                     *)
EXTENDS PeerAssembly, TLC

MCNode == 1..4

\* Room for two cohorts at a time; nodes that are launched again, with an Enroller
\* that says their address; late requests; cohorts that overlap.
MCDeployments == {
  [faults |-> {}, enroller |-> "tags", overlap |-> FALSE, nodes |-> 4, launches |-> 1],
  [faults |-> {}, enroller |-> "address", overlap |-> FALSE, nodes |-> 3, launches |-> 2],
  [faults |-> {"late"}, enroller |-> "address", overlap |-> FALSE, nodes |-> 3, launches |-> 2],
  [faults |-> {"late"}, enroller |-> "tags", overlap |-> TRUE, nodes |-> 3, launches |-> 1]}

\* Processes are interchangeable; nodes are not, their names have an order.
Symmetry == Permutations(Program)
=============================================================================
