----------------------------- MODULE MCAwsClient -----------------------------
(* Small instances of AwsClient for TLC.                                    *)
EXTENDS AwsClient, TLC

\* Callers are interchangeable.
Symmetry == Permutations(Caller)
=============================================================================
