---------------------------- MODULE CohortOutcome ----------------------------
(***************************************************************************)
(* What Reconcile promises, without goroutines, contexts or phases         *)
(* (cohort.go: a cohort is "a named set of identity-bearing entities that  *)
(* succeed, fail, and fast-fail together"; explain.go: Record).            *)
(* Members may fail one by one; then the cohort is decided once, for all   *)
(* the members that are left, and with enough of them to be Ready.         *)
(***************************************************************************)
CONSTANTS
  Entity,    \* the members
  Viable     \* the sets of members that are enough of them

VARIABLES
  outcome,   \* what the Record of each member says so far
  verdict    \* the cohort's

ovars == <<outcome, verdict>>

Left == {e \in Entity : outcome[e] = "pending"}

OInit ==
  /\ outcome = [e \in Entity |-> "pending"]
  /\ verdict = "pending"

\* One member fails on its own.
MemberFails(e) ==
  /\ verdict = "pending" /\ e \in Left
  /\ outcome' = [outcome EXCEPT ![e] = "terminal"]
  /\ UNCHANGED verdict

\* Everybody left gets the same outcome, and the cohort is decided.
Decide(o, v) ==
  /\ verdict = "pending"
  /\ outcome' = [e \in Entity |-> IF e \in Left THEN o ELSE outcome[e]]
  /\ verdict' = v

BecomeReady   == Left \in Viable /\ Decide("succeeded", "ready")
FastFail      == Left \notin Viable /\ Decide("cohortCancelled", "failed")
ParentCancels == Decide("parentCancelled", "failed")
AssemblyFails == Left \in Viable /\ Decide("terminal", "failed")

ONext ==
  \/ \E e \in Entity : MemberFails(e)
  \/ BecomeReady \/ FastFail \/ ParentCancels \/ AssemblyFails

OSpec == OInit /\ [][ONext]_ovars
=============================================================================
