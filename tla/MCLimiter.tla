----------------------------- MODULE MCLimiter -----------------------------
(* Small instances of Limiter for TLC.                                      *)
EXTENDS Limiter, TLC

\* Callers are interchangeable.
Symmetry == Permutations(Waiter)
=============================================================================
