-------------------------- MODULE MCResumeOutcome ---------------------------
(* An instance of ResumeOutcome for TLC.                                    *)
EXTENDS ResumeOutcome, TLC

CONSTANTS n1, n2, q1, q2

MCNode == {n1, n2}
MCPartition == {q1, q2}

\* gpu-big-1 with partitions gpu-big and gpu, and cpu-1 with neither.
MCExact == (n1 :> {q1}) @@ (n2 :> {})
MCShorter == (n1 :> {q2}) @@ (n2 :> {})

Symmetry == Permutations(Program)

\* Invocations that die and updates that fail, one after the other, with the
\* partition found by the name and no bucket; records that are lost, with a default
\* partition, of collective jobs; and resumes of a node that overlap.
MCDeployments == {
  [configured |-> None, assembler |-> FALSE, overlap |-> FALSE, faults |-> {"crash"}, invocations |-> 3],
  [configured |-> None, assembler |-> FALSE, overlap |-> FALSE, faults |-> {"crash", "scontrol"}, invocations |-> 2],
  [configured |-> q2, assembler |-> TRUE, overlap |-> FALSE, faults |-> {"disk"}, invocations |-> 2],
  [configured |-> q1, assembler |-> TRUE, overlap |-> TRUE, faults |-> {"scontrol"}, invocations |-> 2]}
=============================================================================
