-------------------------- MODULE MCNodeReadiness ---------------------------
(* An instance of NodeReadiness for TLC.                                    *)
EXTENDS NodeReadiness

\* One instance with tag requests that fail, and without, with mounts that hang,
\* and without a controller; two one after the other, the first of which may still
\* be described when the second is up.
MCDeployments == {
  [faults |-> {"shim", "net", "stop", "hibernate"}, controller |-> TRUE, instances |-> 1, stops |-> 1],
  [faults |-> {"shim", "stop", "hibernate", "hang"}, controller |-> TRUE, instances |-> 1, stops |-> 2],
  [faults |-> {"shim", "stop"}, controller |-> FALSE, instances |-> 1, stops |-> 1],
  [faults |-> {"remnant"}, controller |-> TRUE, instances |-> 2, stops |-> 0]}
=============================================================================
