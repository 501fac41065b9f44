----------------------------- MODULE FaultClasses -----------------------------
(***************************************************************************)
(* The verdicts a Classifier may give of an error (internal/cohort,        *)
(* state.go), the words the reconciler and the provider client share.      *)
(***************************************************************************)

FaultClass == {"RetryableConsistency", "Throttle", "CapacityExhausted", "Terminal", "Ambiguous"}
=============================================================================
