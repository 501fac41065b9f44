---------------------------- MODULE EntityLaunch ----------------------------
(***************************************************************************)
(* Reconciler.doLaunch for one entity: retries on consistency and throttle *)
(* faults, the walk down the approved fallback chain on capacity faults,   *)
(* and the Attempts a Record will show.  Cohort models the same loop by    *)
(* its outcomes only; ImplementsLaunchPhase says it may.                   *)
(***************************************************************************)
EXTENDS Integers, Sequences, FaultClasses

CONSTANTS
  Rungs,       \* the rungs a partition may name
  Chains,      \* the fallback chains to consider; << >> is a single-rung intent
  MaxConsistencyRetries,  \* maxConsistencyRetries
  MaxAttempts  \* bound on len(attempts); reached only by chains that repeat a rung

ASSUME LaunchAssumption ==
  /\ Rungs # {} /\ Chains \subseteq Seq(Rungs)
  /\ MaxConsistencyRetries \in Nat /\ MaxAttempts \in Nat

VARIABLES
  at,                  \* "loop", "call", or how doLaunch returned
  chain,               \* intent.FallbackChain
  rung,                \* intent.Rung
  consistencyAttempt,
  attempts,            \* tracker.attempts: the rung and the class of its fault
  phaseErr,            \* Err() of phase1Ctx
  parentErr,           \* Err() of the contexts above it
  instance,            \* has the provider an instance for the entity
  lags                 \* history: the consistency faults answered on each rung

launchVars == <<at, chain, rung, consistencyAttempt, attempts, phaseErr, parentErr, instance,
          lags>>

LaunchInit ==
  /\ at = "loop"
  /\ chain \in Chains
  /\ IF chain = << >> THEN rung \in Rungs ELSE rung = Head(chain)
  /\ consistencyAttempt = 0 /\ attempts = << >>
  /\ phaseErr = "none" /\ parentErr = "none"
  /\ instance = "absent" /\ lags = [r \in Rungs |-> 0]

Running == at \in {"loop", "call"}

\* The cohort is cancelled around the entity.
Cancel ==
  /\ Running /\ parentErr = "none"
  /\ parentErr' = "Canceled"
  /\ phaseErr' = IF phaseErr = "none" THEN "Canceled" ELSE phaseErr
  /\ UNCHANGED <<at, chain, rung, consistencyAttempt, attempts, instance, lags>>

Deadline ==
  /\ Running /\ phaseErr = "none"
  /\ phaseErr' = "Deadline"
  /\ UNCHANGED <<at, chain, rung, consistencyAttempt, attempts, parentErr, instance, lags>>

addAttempt(f) == attempts' = Append(attempts, [rung |-> rung, fault |-> f])

\* addAttempt and setTerminal with the same fault.
GiveUp(f) == addAttempt(f) /\ at' = "terminal"

\* Mutant: the context is not looked at before a call.
LoopHeadUnchecked ==
  /\ at = "loop" /\ at' = "call"
  /\ UNCHANGED <<chain, rung, consistencyAttempt, attempts, phaseErr, parentErr, instance, lags>>

LoopHead ==
  /\ at = "loop"
  /\ \/ /\ phaseErr = "none"
        /\ at' = "call" /\ UNCHANGED attempts
     \/ /\ phaseErr = "Canceled"
        /\ at' = "cancelled" /\ UNCHANGED attempts
     \/ /\ phaseErr = "Deadline"
        /\ GiveUp("PhaseBudgetExceeded")
  /\ UNCHANGED <<chain, rung, consistencyAttempt, phaseErr, parentErr, instance, lags>>

Acked ==
  /\ at = "call"
  /\ instance' = "live"
  /\ addAttempt("none")
  /\ at' = "launched"
  /\ UNCHANGED <<chain, rung, consistencyAttempt, phaseErr, parentErr, lags>>

ConsistencyFault ==
  /\ at = "call"
  /\ consistencyAttempt' = consistencyAttempt + 1
  /\ lags' = [lags EXCEPT ![rung] = @ + 1]
  /\ IF consistencyAttempt' > MaxConsistencyRetries
       THEN GiveUp("RetryableConsistency")
       ELSE at' = "loop" /\ UNCHANGED attempts
  /\ UNCHANGED <<chain, rung, phaseErr, parentErr, instance>>

ThrottleFault ==
  /\ at = "call"
  /\ at' = "loop"
  /\ UNCHANGED <<chain, rung, consistencyAttempt, attempts, phaseErr, parentErr, instance, lags>>

\* advanceRung: the first place of the chain that holds the rung and is not
\* the last decides; none, and the chain is exhausted.
Places == {i \in DOMAIN chain : chain[i] = rung /\ i < Len(chain)}
First  == CHOOSE i \in Places : \A j \in Places : i <= j

\* Mutant: the rung advances before the attempt is recorded.
CapacityFaultSwapped ==
  /\ at = "call" /\ Len(attempts) < MaxAttempts
  /\ IF Places = {}
       THEN GiveUp("CapacityExhausted") /\ UNCHANGED <<rung, consistencyAttempt>>
       ELSE /\ rung' = chain[First + 1]
            /\ attempts' = Append(attempts, [rung |-> rung', fault |-> "CapacityExhausted"])
            /\ consistencyAttempt' = 0
            /\ at' = "loop"
  /\ UNCHANGED <<chain, phaseErr, parentErr, instance, lags>>

\* Mutant: the consistency retries of the old rung count against the new one.
CapacityFaultNoReset ==
  /\ at = "call" /\ Len(attempts) < MaxAttempts
  /\ addAttempt("CapacityExhausted")
  /\ IF Places = {}
       THEN at' = "terminal" /\ UNCHANGED rung
       ELSE rung' = chain[First + 1] /\ at' = "loop"
  /\ UNCHANGED <<chain, consistencyAttempt, phaseErr, parentErr, instance, lags>>

CapacityFault ==
  /\ at = "call" /\ Len(attempts) < MaxAttempts
  /\ addAttempt("CapacityExhausted")
  /\ IF Places = {}
       THEN at' = "terminal" /\ UNCHANGED <<rung, consistencyAttempt>>
       ELSE /\ rung' = chain[First + 1]
            /\ consistencyAttempt' = 0
            /\ at' = "loop"
  /\ UNCHANGED <<chain, phaseErr, parentErr, instance, lags>>

\* Terminal, or an Ambiguous that escaped the provider client; the mutation
\* may have landed.
TerminalFault ==
  /\ at = "call"
  /\ \E f \in {"Terminal", "Ambiguous"} : GiveUp(f)
  /\ instance' \in {instance, "live"}
  /\ UNCHANGED <<chain, rung, consistencyAttempt, phaseErr, parentErr, lags>>

CallReturns == Acked \/ ConsistencyFault \/ ThrottleFault \/ CapacityFault \/ TerminalFault

LaunchNext == Cancel \/ Deadline \/ LoopHead \/ CallReturns

\* Timers fire, calls answer, the goroutine runs.
LaunchFairness == WF_launchVars(Deadline) /\ WF_launchVars(LoopHead) /\ WF_launchVars(CallReturns)

LaunchSpec == LaunchInit /\ [][LaunchNext]_launchVars
FairLaunchSpec == LaunchSpec /\ LaunchFairness

-----------------------------------------------------------------------------
LaunchTypeOK ==
  /\ at \in {"loop", "call", "launched", "cancelled", "terminal"}
  /\ chain \in Chains /\ rung \in Rungs
  /\ consistencyAttempt \in 0..(MaxConsistencyRetries + 1)
  /\ attempts \in Seq([rung : Rungs, fault : FaultClass \cup {"none", "PhaseBudgetExceeded"}])
  /\ phaseErr \in {"none", "Canceled", "Deadline"} /\ parentErr \in {"none", "Canceled"}
  /\ instance \in {"absent", "live"}
  /\ lags \in [Rungs -> Nat]

Tried == {i \in DOMAIN attempts : attempts[i].fault = "CapacityExhausted"}

Distinct == \A i, j \in DOMAIN chain : chain[i] = chain[j] => i = j

\* The Attempts of a Record tell the walk as it was: every attempt but the
\* last is a capacity fault, and, in a chain that names a rung once, they follow
\* the chain from its first rung, none skipped, none tried twice, none from
\* outside it (state.go:64, "NEVER retry in place").
AttemptsFollowChain ==
  /\ \A i \in DOMAIN attempts : i < Len(attempts) => i \in Tried
  /\ chain # << >> /\ Distinct => /\ Len(attempts) <= Len(chain)
                                  /\ \A i \in DOMAIN attempts : attempts[i].rung = chain[i]

\* A launch given up for consistency lagged too often on the very rung it ended
\* on: what an earlier rung of the chain lagged is not held against it.
LagIsOfOneRung ==
  at = "terminal" /\ attempts[Len(attempts)].fault = "RetryableConsistency" =>
    lags[rung] > MaxConsistencyRetries

\* doLaunch returns.
LaunchReturns == <>(~Running)

-----------------------------------------------------------------------------
(* Cohort's launch phase, for a cohort of this one entity.                  *)

me == "me"
ToMe(v) == [e \in {me} |-> v]

CohortPC == [loop |-> "launch", call |-> "launching", launched |-> "poll",
             cancelled |-> "exit", terminal |-> "exit"]

FaultCodeOf ==
  IF at # "terminal" THEN "none"
  ELSE IF attempts[Len(attempts)].fault = "PhaseBudgetExceeded" THEN "PhaseBudgetExceeded"
  ELSE "LaunchFault"

NoCulpritYet == [id |-> "", fault |-> "none", phase |-> "LaunchAcked"]

Wired == [enroller |-> TRUE, assembler |-> FALSE]

LaunchPhase == INSTANCE Cohort WITH
  Entity <- {me}, NoEntity <- "", MinViable <- 1, NoAssembly <- FALSE,
  Wirings <- {Wired}, wiring <- Wired, ParentCauses <- {"Canceled"},
  pc <- ToMe(CohortPC[at]),
  phase <- ToMe(IF at = "launched" THEN "Running" ELSE "LaunchAcked"),
  terminal <- ToMe(FaultCodeOf),
  enrolled <- ToMe(FALSE),
  obs <- ToMe(IF at = "launched" THEN [provider |-> TRUE, address |-> "private"]
                                 ELSE [provider |-> FALSE, address |-> "none"]),
  ctxErr <- ToMe(IF at = "launched" THEN parentErr ELSE phaseErr),
  cohortCancelled <- ToMe(NoCulpritYet), parentCancelled <- ToMe("none"),
  parentErr <- parentErr, ffErr <- parentErr,
  mu <- "", failedCount <- 0, culprit <- NoCulpritYet,
  main <- "wait", surviving <- {}, drained <- {}, assembled <- {}, ready <- FALSE,
  instance <- ToMe(instance)

\* doLaunch does nothing that Cohort's LaunchAcked, LaunchRetries, LaunchFails,
\* Call, RecordDeadline and StopCancelled do not allow.
ImplementsLaunchPhase == LaunchPhase!Spec
=============================================================================
