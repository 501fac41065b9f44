------------------------------ MODULE MCCohort ------------------------------
(* Small instances of Cohort for TLC.                                       *)
EXTENDS CohortProofs, TLC

\* What BuildBridge wires for a manifest bucket, and what it wires without
\* one or a caller that sets no Enroller gets.
BothPorts  == {[enroller |-> TRUE, assembler |-> TRUE]}
OneMissing == {[enroller |-> TRUE, assembler |-> FALSE],
               [enroller |-> FALSE, assembler |-> TRUE]}

\* Members are interchangeable: nothing but their names tells them apart.
Symmetry == Permutations(Entity)
=============================================================================
