------------------------------- MODULE Cohort -------------------------------
(***************************************************************************)
(* Reconciler.Reconcile of internal/cohort: one goroutine per named entity *)
(* drives it through launch, running and enrolment, each under a context   *)
(* of its own; the goroutine whose failure makes the barrier unsatisfiable *)
(* records itself as the culprit and cancels the others; the main          *)
(* goroutine waits for all of them and then drains, assembles or           *)
(* publishes.                                                              *)
(*                                                                         *)
(* The ports (Actuator, Observer, Enroller, Assembler) answer what their   *)
(* interfaces and internal/substrate/aws let them answer.  The retry       *)
(* bookkeeping of one launch is the subject of EntityLaunch.  Sleeps are   *)
(* the gaps between steps; a nil error or pointer is "none", an empty      *)
(* EntityID is NoEntity.  Member names are distinct.                       *)
(***************************************************************************)
EXTENDS Integers, FiniteSets

CONSTANTS
  Entity,        \* Cohort.Members, by name
  NoEntity,      \* the zero EntityID ""
  MinViable,     \* Cohort.MinViable; 0 stands for full membership
  NoAssembly,    \* Cohort.NoAssembly
  Wirings,       \* which of the optional ports a Reconciler may be built with
  ParentCauses   \* how the caller's context may end

ASSUME EntityAssumption == IsFiniteSet(Entity) /\ Entity # {} /\ NoEntity \notin Entity

\* What NewSerialCohort, NewMPICohort and NewPartialCohort build.
ASSUME ConstructorAssumption ==
  /\ NoAssembly \in BOOLEAN
  /\ Wirings \subseteq [enroller : BOOLEAN, assembler : BOOLEAN]
  /\ IF NoAssembly THEN MinViable \in 1..Cardinality(Entity)
                   ELSE MinViable \in {0, Cardinality(Entity)}

ASSUME ParentAssumption == ParentCauses \subseteq {"Canceled", "ParentDeadline"}

minViable == IF MinViable = 0 THEN Cardinality(Entity) ELSE MinViable

IsCollective == Cardinality(Entity) > 1

-----------------------------------------------------------------------------
Phase == {"LaunchAcked", "Running", "Enrolled", "CohortBarrier", "CohortAssembly", "Ready"}

\* The codes of the faults setTerminal is given: a launch fault of the
\* provider, an Observer error, the fault aws.Classifier makes of a call our
\* own cancellation interrupted, and the four the reconciler makes itself.
FaultCode == {"LaunchFault", "ObserveFault", "ContextCanceled", "PhaseBudgetExceeded",
              "InstanceFailed", "AssemblyDisallowed", "AssemblyFailed"}

\* Canceled and DeadlineExceeded.  The code sees one DeadlineExceeded; the
\* model remembers whether the phase's own timer or the caller's fired.
CtxErr == {"none", "Canceled", "Deadline", "ParentDeadline"}

VARIABLES
  pc,              \* where each entity's goroutine is
  phase,           \* entityTracker.phase
  terminal,        \* entityTracker.terminal, its code
  enrolled,        \* entityTracker.enrolled
  obs,             \* entityTracker.obs: is ProviderID set, and what is in Address
  ctxErr,          \* Err() of the context of the entity's current phase
  cohortCancelled, \* entityTracker.cohortCancelled
  parentCancelled, \* entityTracker.parentCancelled, its cause
  parentErr,       \* Err() of the caller's ctx
  ffErr,           \* Err() of fastFailCtx, and so of egCtx
  mu,              \* holder of the mutex over failedCount and culprit
  failedCount,
  culprit,
  main,            \* where the goroutine that called Reconcile is
  surviving,       \* entities Drain still has to terminate
  drained,         \* entities Drain called Terminate for
  assembled,       \* members given to Assembler.Assemble
  ready,           \* Outcome.Ready
  instance,        \* the provider's truth about the entity's instance
  wiring           \* the Reconciler's own fields: which ports are not nil

tracker == <<phase, terminal, enrolled, obs, cohortCancelled, parentCancelled>>
shared  == <<parentErr, ffErr, mu, failedCount, culprit>>
result  == <<main, surviving, drained, assembled, ready>>
vars    == <<pc, ctxErr, instance, tracker, shared, result, wiring>>

HasEnroller  == wiring.enroller
HasAssembler == wiring.assembler

InPhase == {"launch", "launching", "poll", "observing", "enroll", "probing"}

NoObs       == [provider |-> FALSE, address |-> "none"]
CulpritInfo == [id : Entity \cup {NoEntity}, fault : FaultCode \cup {"none"}, phase : Phase]
NoCulprit   == [id |-> NoEntity, fault |-> "none", phase |-> "LaunchAcked"]

isTerminal(e) == terminal[e] # "none"

Init ==
  /\ pc = [e \in Entity |-> "launch"]
  /\ phase = [e \in Entity |-> "LaunchAcked"]
  /\ terminal = [e \in Entity |-> "none"]
  /\ enrolled = [e \in Entity |-> FALSE]
  /\ obs = [e \in Entity |-> NoObs]
  /\ ctxErr = [e \in Entity |-> "none"]
  /\ cohortCancelled = [e \in Entity |-> NoCulprit]
  /\ parentCancelled = [e \in Entity |-> "none"]
  /\ parentErr = "none" /\ ffErr = "none"
  /\ mu = NoEntity /\ failedCount = 0 /\ culprit = NoCulprit
  /\ main = "wait" /\ surviving = {} /\ drained = {} /\ assembled = {}
  /\ ready = FALSE
  /\ instance = [e \in Entity |-> "absent"]
  /\ wiring \in Wirings

-----------------------------------------------------------------------------
(* Contexts.  A context that is done stays done, and is done for its        *)
(* children: cancelling sets the error of every live phase context below.   *)

CancelBelow(err) ==
  ctxErr' = [e \in Entity |->
    IF pc[e] \in InPhase /\ ctxErr[e] = "none" THEN err ELSE ctxErr[e]]

\* The caller's context is cancelled or runs out while Reconcile is at work.
ParentDone ==
  /\ main # "done" /\ parentErr = "none"
  /\ \E cause \in ParentCauses :
       /\ parentErr' = cause
       /\ ffErr' = IF ffErr = "none" THEN cause ELSE ffErr
       /\ CancelBelow(cause)
  /\ UNCHANGED <<pc, instance, tracker, mu, failedCount, culprit, result>>

\* The timer of the entity's phase budget fires.
PhaseDeadline(e) ==
  /\ pc[e] \in InPhase /\ ctxErr[e] = "none"
  /\ ctxErr' = [ctxErr EXCEPT ![e] = "Deadline"]
  /\ UNCHANGED <<pc, instance, tracker, shared, result>>

-----------------------------------------------------------------------------
(* reconcileEntity                                                          *)

\* The next phase begins, under a fresh child of egCtx.
Enter(e, p, at) ==
  /\ phase' = [phase EXCEPT ![e] = p]
  /\ pc' = [pc EXCEPT ![e] = at]
  /\ ctxErr' = [ctxErr EXCEPT ![e] = ffErr]

\* setTerminal, and reconcileEntity returns.
Fail(e, p, code) ==
  /\ phase' = [phase EXCEPT ![e] = p]
  /\ terminal' = [terminal EXCEPT ![e] = code]
  /\ pc' = [pc EXCEPT ![e] = "exit"]

\* waitEnrolled has returned and the entity is not terminal: setEnrolled.
LeaveEnrolled(e) ==
  /\ enrolled' = [enrolled EXCEPT ![e] = TRUE]
  /\ pc' = [pc EXCEPT ![e] = "exit"]

CallOf == [launch |-> "launching", poll |-> "observing", enroll |-> "probing"]

\* The head of a phase loop finds its context live and makes the port call.
Call(e) ==
  /\ pc[e] \in DOMAIN CallOf /\ ctxErr[e] = "none"
  /\ pc[e] = "enroll" => HasEnroller
  /\ pc' = [pc EXCEPT ![e] = CallOf[pc[e]]]
  /\ UNCHANGED <<ctxErr, instance, tracker, shared, result>>

\* Mutant: the caller's deadline is not looked at.
RecordOwnDeadline(e) ==
  /\ pc[e] \in DOMAIN CallOf /\ ctxErr[e] = "Deadline"
  /\ Fail(e, phase[e], "PhaseBudgetExceeded")
  /\ UNCHANGED <<ctxErr, instance, enrolled, obs, cohortCancelled, parentCancelled,
                 shared, result>>

\* The head of a phase loop finds its context past a deadline: recordDeadline.
RecordDeadline(e) ==
  /\ pc[e] \in DOMAIN CallOf /\ ctxErr[e] \in {"Deadline", "ParentDeadline"}
  /\ Fail(e, phase[e], "PhaseBudgetExceeded")
  /\ UNCHANGED <<ctxErr, instance, enrolled, obs, cohortCancelled, parentCancelled,
                 shared, result>>

\* doLaunch or waitRunning finds its context cancelled and returns false.
StopCancelled(e) ==
  /\ pc[e] \in {"launch", "poll"} /\ ctxErr[e] = "Canceled"
  /\ pc' = [pc EXCEPT ![e] = "exit"]
  /\ UNCHANGED <<ctxErr, instance, tracker, shared, result>>

\* waitEnrolled finds its context cancelled and returns.
StopCancelledEnroll(e) ==
  /\ pc[e] = "enroll" /\ ctxErr[e] = "Canceled"
  /\ LeaveEnrolled(e)
  /\ UNCHANGED <<ctxErr, instance, phase, terminal, obs, cohortCancelled,
                 parentCancelled, shared, result>>

\* With no Enroller, waitEnrolled returns at its first look at a live context.
EnrollTrivially(e) ==
  /\ pc[e] = "enroll" /\ ctxErr[e] = "none" /\ ~HasEnroller
  /\ LeaveEnrolled(e)
  /\ UNCHANGED <<ctxErr, instance, phase, terminal, obs, cohortCancelled,
                 parentCancelled, shared, result>>

\* Launch or Start is acknowledged.
LaunchAcked(e) ==
  /\ pc[e] = "launching"
  /\ instance' = [instance EXCEPT ![e] = "live"]
  /\ obs' = [obs EXCEPT ![e] = [provider |-> TRUE, address |-> "private"]]
  /\ Enter(e, "Running", "poll")
  /\ UNCHANGED <<terminal, enrolled, cohortCancelled, parentCancelled, shared, result>>

\* A consistency, throttle or capacity fault doLaunch retries, on the same
\* rung or the next one of the chain.
LaunchRetries(e) ==
  /\ pc[e] = "launching"
  /\ pc' = [pc EXCEPT ![e] = "launch"]
  /\ UNCHANGED <<ctxErr, instance, tracker, shared, result>>

\* A fault doLaunch gives up on.  The mutation may have landed all the same:
\* its answer was lost, or the call was interrupted by our own cancellation,
\* which aws.Classifier makes a terminal ContextCanceled.
LaunchFails(e) ==
  /\ pc[e] = "launching"
  /\ \E code \in {"LaunchFault", "ContextCanceled"} :
       /\ code = "ContextCanceled" => ctxErr[e] = "Canceled"
       /\ Fail(e, "LaunchAcked", code)
  /\ \E i \in {instance[e], "live"} : instance' = [instance EXCEPT ![e] = i]
  /\ UNCHANGED <<ctxErr, enrolled, obs, cohortCancelled, parentCancelled, shared, result>>

\* Observe answers StateRunning.
ObserveRunning(e) ==
  /\ pc[e] = "observing"
  /\ obs' = [obs EXCEPT ![e] = [provider |-> TRUE, address |-> "private"]]
  /\ Enter(e, "Enrolled", "enroll")
  /\ UNCHANGED <<instance, terminal, enrolled, cohortCancelled, parentCancelled,
                 shared, result>>

\* Observe answers nothing yet: an error that is not terminal, the instance
\* still launching, or the StateUnknown of a describe miss, which carries no
\* provider id and replaces what was known.
ObserveAgain(e) ==
  /\ pc[e] = "observing"
  /\ \E o \in {obs[e], [provider |-> TRUE, address |-> "private"], NoObs} :
       obs' = [obs EXCEPT ![e] = o]
  /\ pc' = [pc EXCEPT ![e] = "poll"]
  /\ UNCHANGED <<ctxErr, instance, phase, terminal, enrolled, cohortCancelled,
                 parentCancelled, shared, result>>

\* Observe answers StateFailed or StateDraining.
ObserveFailed(e) ==
  /\ pc[e] = "observing"
  /\ obs' = [obs EXCEPT ![e] = [provider |-> TRUE, address |-> "private"]]
  /\ Fail(e, "Running", "InstanceFailed")
  /\ UNCHANGED <<ctxErr, instance, enrolled, cohortCancelled, parentCancelled,
                 shared, result>>

\* Observe fails with a fault classified terminal.
ObserveFails(e) ==
  /\ pc[e] = "observing"
  /\ \E code \in {"ObserveFault", "ContextCanceled"} :
       /\ code = "ContextCanceled" => ctxErr[e] = "Canceled"
       /\ Fail(e, "Running", code)
  /\ UNCHANGED <<ctxErr, instance, enrolled, obs, cohortCancelled, parentCancelled,
                 shared, result>>

\* IsEnrolled answers a readiness that is OK; its Detail goes into Address.
EnrollOK(e) ==
  /\ pc[e] = "probing"
  /\ obs' = [obs EXCEPT ![e].address = "readiness"]
  /\ LeaveEnrolled(e)
  /\ UNCHANGED <<ctxErr, instance, phase, terminal, cohortCancelled, parentCancelled,
                 shared, result>>

\* IsEnrolled fails or answers that the entity is not ready.
EnrollAgain(e) ==
  /\ pc[e] = "probing"
  /\ pc' = [pc EXCEPT ![e] = "enroll"]
  /\ UNCHANGED <<ctxErr, instance, tracker, shared, result>>

-----------------------------------------------------------------------------
(* The rest of the goroutine: counting a failure and failing fast.          *)

ExitHealthy(e) ==
  /\ pc[e] = "exit" /\ ~isTerminal(e)
  /\ pc' = [pc EXCEPT ![e] = "done"]
  /\ UNCHANGED <<ctxErr, instance, tracker, shared, result>>

\* Mutants: off by one, either way.
satisfiableStrict(failed) == Cardinality(Entity) - failed > minViable
satisfiableLoose(failed)  == Cardinality(Entity) - failed + 1 >= minViable

satisfiable(failed) == Cardinality(Entity) - failed >= minViable

\* Under mu: count the failure; the first one the barrier cannot survive is
\* recorded, with mu kept until fastFailCancel has run.
CountFailure(e) ==
  /\ pc[e] = "exit" /\ isTerminal(e) /\ mu = NoEntity
  /\ failedCount' = failedCount + 1
  /\ IF satisfiable(failedCount + 1) \/ culprit.id # NoEntity
       THEN pc' = [pc EXCEPT ![e] = "done"] /\ UNCHANGED <<culprit, mu>>
       ELSE /\ pc' = [pc EXCEPT ![e] = "cancel"]
            /\ culprit' = [id |-> e, fault |-> terminal[e], phase |-> phase[e]]
            /\ mu' = e
  /\ UNCHANGED <<ctxErr, instance, tracker, parentErr, ffErr, result>>

FastFailCancel(e) ==
  /\ pc[e] = "cancel"
  /\ ffErr' = IF ffErr = "none" THEN "Canceled" ELSE ffErr
  /\ CancelBelow("Canceled")
  /\ mu' = NoEntity
  /\ pc' = [pc EXCEPT ![e] = "done"]
  /\ UNCHANGED <<instance, tracker, parentErr, failedCount, culprit, result>>

-----------------------------------------------------------------------------
(* The main goroutine, once eg.Wait has returned.                           *)

Waited == main = "wait" /\ \A e \in Entity : pc[e] = "done"

\* Mutants: only enrolled members are drained; the gate is off by one.
SurvivorsEnrolled   == {e \in Entity : enrolled[e] /\ obs[e].provider}
gateSatisfiedLoose  == Cardinality({e \in Entity : enrolled[e]}) + 1 >= minViable

Survivors      == {e \in Entity : ~isTerminal(e) /\ obs[e].provider}
gateSatisfied  == Cardinality({e \in Entity : enrolled[e]}) >= minViable

\* Mutant: enrolled members are passed over.
FailTheUnenrolled(p, code) ==
  /\ phase' = [e \in Entity |-> IF isTerminal(e) \/ enrolled[e] THEN phase[e] ELSE p]
  /\ terminal' = [e \in Entity |-> IF isTerminal(e) \/ enrolled[e] THEN terminal[e] ELSE code]

\* setTerminal on every entity that is not terminal yet.
FailTheRest(p, code) ==
  /\ phase' = [e \in Entity |-> IF isTerminal(e) THEN phase[e] ELSE p]
  /\ terminal' = [e \in Entity |-> IF isTerminal(e) THEN terminal[e] ELSE code]

\* ctx.Err() is looked at first: the reconcile is being torn down.
SeeParentDone ==
  /\ Waited /\ parentErr # "none"
  /\ main' = "drainParent" /\ surviving' = Survivors
  /\ UNCHANGED <<pc, ctxErr, instance, tracker, shared, drained, assembled, ready>>

GateFails ==
  /\ Waited /\ parentErr = "none" /\ ~gateSatisfied
  /\ main' = "drainGate" /\ surviving' = Survivors
  /\ UNCHANGED <<pc, ctxErr, instance, tracker, shared, drained, assembled, ready>>

GateDisallows ==
  /\ Waited /\ parentErr = "none" /\ gateSatisfied
  /\ NoAssembly /\ HasAssembler
  /\ FailTheRest("CohortBarrier", "AssemblyDisallowed")
  /\ main' = "done"
  /\ UNCHANGED <<pc, ctxErr, instance, enrolled, obs, cohortCancelled, parentCancelled,
                 shared, surviving, drained, assembled, ready>>

GateAssembles ==
  /\ Waited /\ parentErr = "none" /\ gateSatisfied
  /\ ~NoAssembly /\ HasAssembler /\ IsCollective
  /\ main' = "assembling"
  /\ assembled' = {e \in Entity : enrolled[e]}
  /\ UNCHANGED <<pc, ctxErr, instance, tracker, shared, surviving, drained, ready>>

\* All phases complete: what is not terminal is ready.
Succeed ==
  /\ phase' = [e \in Entity |-> IF isTerminal(e) THEN phase[e] ELSE "Ready"]
  /\ main' = "done" /\ ready' = TRUE
  /\ UNCHANGED <<pc, ctxErr, instance, terminal, enrolled, obs, cohortCancelled,
                 parentCancelled, shared, surviving, drained, assembled>>

GateReady ==
  /\ Waited /\ parentErr = "none" /\ gateSatisfied
  /\ ~HasAssembler \/ (~NoAssembly /\ ~IsCollective)
  /\ Succeed

AssembleOK == main = "assembling" /\ Succeed

\* Assemble fails, runs out of its budget, or its context is cancelled.
AssembleFails ==
  /\ main = "assembling"
  /\ FailTheRest("CohortAssembly", "AssemblyFailed")
  /\ main' = "done"
  /\ UNCHANGED <<pc, ctxErr, instance, enrolled, obs, cohortCancelled, parentCancelled,
                 shared, surviving, drained, assembled, ready>>

\* One Terminate of Drain, on a background context; an error is passed over.
Drain(e) ==
  /\ main \in {"drainParent", "drainGate"} /\ e \in surviving
  /\ surviving' = surviving \ {e} /\ drained' = drained \cup {e}
  /\ \E i \in {instance[e], "dead"} : instance' = [instance EXCEPT ![e] = i]
  /\ UNCHANGED <<pc, ctxErr, tracker, shared, main, assembled, ready>>

setParentCancelled(cause) ==
  parentCancelled' = [e \in Entity |-> IF isTerminal(e) THEN parentCancelled[e] ELSE cause]

\* Mutant: the members that failed are labelled too.
setAllCohortCancelled == cohortCancelled' = [e \in Entity |-> culprit]

setCohortCancelled ==
  cohortCancelled' = [e \in Entity |-> IF isTerminal(e) THEN cohortCancelled[e] ELSE culprit]

LabelParentCancelled ==
  /\ main = "drainParent" /\ surviving = {}
  /\ setParentCancelled(parentErr)
  /\ main' = "done"
  /\ UNCHANGED <<pc, ctxErr, instance, phase, terminal, enrolled, obs, cohortCancelled,
                 shared, surviving, drained, assembled, ready>>

\* With no culprit recorded the code falls back to "context canceled".
LabelGateFailed ==
  /\ main = "drainGate" /\ surviving = {}
  /\ IF culprit.id # NoEntity
       THEN setCohortCancelled /\ UNCHANGED parentCancelled
       ELSE setParentCancelled("Canceled") /\ UNCHANGED cohortCancelled
  /\ main' = "done"
  /\ UNCHANGED <<pc, ctxErr, instance, phase, terminal, enrolled, obs,
                 shared, surviving, drained, assembled, ready>>

\* The provider takes an instance back (spot reclaim, host failure).
InstanceDies(e) ==
  /\ main # "done" /\ instance[e] = "live"
  /\ instance' = [instance EXCEPT ![e] = "dead"]
  /\ UNCHANGED <<pc, ctxErr, tracker, shared, result>>

-----------------------------------------------------------------------------
PortReturns(e) ==
  \/ LaunchAcked(e) \/ LaunchRetries(e) \/ LaunchFails(e)
  \/ ObserveRunning(e) \/ ObserveAgain(e) \/ ObserveFailed(e) \/ ObserveFails(e)
  \/ EnrollOK(e) \/ EnrollAgain(e)

LoopHead(e) ==
  \/ Call(e) \/ RecordDeadline(e) \/ StopCancelled(e)
  \/ StopCancelledEnroll(e) \/ EnrollTrivially(e)

GoroutineEnds(e) == ExitHealthy(e) \/ CountFailure(e) \/ FastFailCancel(e)

Main ==
  \/ SeeParentDone \/ GateFails \/ GateDisallows \/ GateAssembles \/ GateReady
  \/ AssembleOK \/ AssembleFails \/ LabelParentCancelled \/ LabelGateFailed
  \/ \E e \in Entity : Drain(e)

Next ==
  /\ \/ ParentDone
     \/ \E e \in Entity : PhaseDeadline(e)
     \/ \E e \in Entity : PortReturns(e)
     \/ \E e \in Entity : LoopHead(e)
     \/ \E e \in Entity : GoroutineEnds(e)
     \/ \E e \in Entity : InstanceDies(e)
     \/ Main
  /\ UNCHANGED wiring

\* Timers fire, a port called with a phase's context (or Assemble with its own)
\* returns when that is done, the scheduler runs every runnable goroutine.  A
\* Terminate of Drain has a background context: it need never answer.  The
\* caller's context need not end and instances need not die.
Fairness ==
  /\ \A e \in Entity : /\ WF_vars(PhaseDeadline(e) /\ UNCHANGED wiring)
                       /\ WF_vars(PortReturns(e) /\ UNCHANGED wiring)
                       /\ WF_vars(LoopHead(e) /\ UNCHANGED wiring)
                       /\ WF_vars(GoroutineEnds(e) /\ UNCHANGED wiring)
  /\ WF_vars(Main /\ surviving = {} /\ UNCHANGED wiring)

Spec == Init /\ [][Next]_vars
FairSpec == Spec /\ Fairness
-----------------------------------------------------------------------------
(* Properties.                                                              *)

TypeOK ==
  /\ pc \in [Entity -> InPhase \cup {"exit", "cancel", "done"}]
  /\ phase \in [Entity -> Phase]
  /\ terminal \in [Entity -> FaultCode \cup {"none"}]
  /\ enrolled \in [Entity -> BOOLEAN]
  /\ obs \in [Entity -> [provider : BOOLEAN, address : {"none", "private", "readiness"}]]
  /\ ctxErr \in [Entity -> CtxErr]
  /\ cohortCancelled \in [Entity -> CulpritInfo]
  /\ parentCancelled \in [Entity -> {"none"} \cup {"Canceled", "ParentDeadline"}]
  /\ parentErr \in {"none", "Canceled", "ParentDeadline"}
  /\ ffErr \in {"none", "Canceled", "ParentDeadline"}
  /\ mu \in Entity \cup {NoEntity}
  /\ failedCount \in 0..Cardinality(Entity)
  /\ culprit \in CulpritInfo
  /\ main \in {"wait", "drainParent", "drainGate", "assembling", "done"}
  /\ surviving \subseteq Entity /\ drained \subseteq Entity /\ assembled \subseteq Entity
  /\ ready \in BOOLEAN
  /\ instance \in [Entity -> {"absent", "live", "dead"}]
  /\ wiring \in Wirings

\* waitEnrolled returned because the Enroller vouched for the entity.
Verified(e) == obs[e].address = "readiness" \/ ~HasEnroller

Succeeded(e) ==
  /\ ~isTerminal(e) /\ cohortCancelled[e].id = NoEntity /\ parentCancelled[e] = "none"
  /\ phase[e] = "Ready"

CohortCancelled(e) == cohortCancelled[e].id # NoEntity
ParentCancelled(e) == parentCancelled[e] # "none"

\* A published Record says exactly one of: succeeded, cohort-cancelled,
\* parent-cancelled, terminal (explain.go: "Never more than one").
ExactlyOneOutcome ==
  main = "done" => \A e \in Entity :
    /\ Succeeded(e) \/ CohortCancelled(e) \/ ParentCancelled(e) \/ isTerminal(e)
    /\ ~(CohortCancelled(e) /\ ParentCancelled(e))
    /\ isTerminal(e) => ~CohortCancelled(e) /\ ~ParentCancelled(e)

\* Nobody is cancelled without a recorded cause: if the shared context is
\* done, or a goroutine ended healthy without having been verified, then the
\* caller's context is done or the culprit was written first.
CancelHasCause ==
  \/ parentErr # "none" \/ culprit.id # NoEntity
  \/ /\ ffErr = "none"
     /\ \A e \in Entity : pc[e] = "done" => isTerminal(e) \/ Verified(e)

\* A cohort that can still reach its barrier is never failed fast: once there
\* is a culprit, too few members are left, and the outcome is not Ready.
FastFailOnlyWhenDoomed ==
  culprit.id # NoEntity =>
    ~ready /\ Cardinality({e \in Entity : ~isTerminal(e)}) < minViable

\* Ready means ready: every member not reported terminal was vouched for by
\* the Enroller, and they are at least MinViable.  (Counting enrolled trackers
\* alone does not say so: a cancelled waitEnrolled also sets enrolled.)
ReadyIsVerified ==
  ready => /\ \A e \in Entity : isTerminal(e) \/ Verified(e)
           /\ Cardinality({e \in Entity : ~isTerminal(e)}) >= minViable

\* The Assembler is only given the complete, verified cohort.
AssembleComplete ==
  assembled # {} => assembled = Entity /\ \A e \in Entity : Verified(e)

\* ParentCancelled is only ever said of a reconcile whose caller's context
\* ended, and with its cause: the fallback for a gate that failed without a
\* culprit is never taken.
ParentLabelHasCause ==
  \A e \in Entity : ParentCancelled(e) => parentCancelled[e] = parentErr

\* A cohort-cancelled member names another member, which is itself reported
\* terminal with the very fault and phase quoted.
CulpritIsAnotherFailure ==
  \A e \in Entity : CohortCancelled(e) =>
    LET c == cohortCancelled[e] IN
    c.id # e /\ c.fault # "none" /\ terminal[c.id] = c.fault /\ phase[c.id] = c.phase

\* The barrier held, and the step after it failed the cohort.
FailedPastBarrier == \E e \in Entity : terminal[e] \in {"AssemblyDisallowed", "AssemblyFailed"}

\* A cohort that ends short of its barrier drains exactly the members that did
\* not fail themselves and whose instance id is known.  One that is Ready drains
\* none, nor does one that fails past its barrier: all its members stay up.
DrainExact ==
  main = "done" =>
    drained = IF ready \/ FailedPastBarrier THEN {}
              ELSE {e \in Entity : ~isTerminal(e) /\ obs[e].provider}

\* reconcile.go:573, "Drain marks the given entities for teardown after a cohort
\* failure, so no member is left Running-but-useless and billing": of a cohort
\* that is not Ready every enrolled member that runs has been terminated.  It does
\* not hold: see AssembleFails and GateDisallows.
NobodyLeftBilling ==
  main = "done" /\ ~ready =>
    \A e \in Entity : enrolled[e] /\ instance[e] = "live" => e \in drained

\* explain.go:39, ParentCancelled is for "an outer deadline on the whole
\* reconcile": it is the timer of its own phase that fails a member for its budget.
\* It does not hold: see RecordDeadline.
OuterDeadlineIsNotAFailure ==
  [][\A e \in Entity :
       terminal[e] = "none" /\ terminal'[e] = "PhaseBudgetExceeded" => ctxErr[e] = "Deadline"]_vars

\* Once written, the culprit is not replaced by a later failure.
CulpritIsFirst == [][culprit.id # NoEntity => culprit' = culprit]_vars

\* Reconcile returns, whatever the ports answer, unless a Terminate of its drain
\* never answers at all.
Termination ==
  \/ <>(main = "done")
  \/ <>[](main \in {"drainParent", "drainGate"} /\ surviving # {})

\* The outcome the trackers add up to, as CohortOutcome sees it.
outcomeOf == [e \in Entity |->
  IF isTerminal(e) THEN "terminal"
  ELSE IF CohortCancelled(e) THEN "cohortCancelled"
  ELSE IF ParentCancelled(e) THEN "parentCancelled"
  ELSE IF phase[e] = "Ready" THEN "succeeded"
  ELSE "pending"]

verdictOf == IF main # "done" THEN "pending" ELSE IF ready THEN "ready" ELSE "failed"

\* The sets of members that are enough for the barrier.
viableSets == {S \in SUBSET Entity : Cardinality(S) >= minViable}

Abstract == INSTANCE CohortOutcome
  WITH Viable <- viableSets, outcome <- outcomeOf, verdict <- verdictOf

\* Reconcile implements the all-together promise of CohortOutcome.
ImplementsOutcome == Abstract!OSpec

=============================================================================
