---------------------------- MODULE CohortProofs ----------------------------
(***************************************************************************)
(* The inductive invariant of Cohort and what follows from it, for every   *)
(* finite set of members and every MinViable the constructors allow.       *)
(***************************************************************************)
EXTENDS Cohort, FiniteSetTheorems, TLAPS

Ended == {"exit", "cancel", "done"}

Healthy  == {e \in Entity : ~isTerminal(e)}
Enrolled == {e \in Entity : enrolled[e]}

\* The failures failedCount has counted.
Counted == {e \in Entity : pc[e] \in {"cancel", "done"} /\ isTerminal(e)}

\* Where a goroutine is tells what its tracker can hold: terminal only after
\* the loops, and never together with enrolled; healthy and out of the loops
\* only when verified or cancelled.
GoroutineInv ==
  \A e \in Entity :
    /\ main = "wait" /\ isTerminal(e) => pc[e] \in Ended /\ ~enrolled[e]
    /\ pc[e] \in InPhase => ~enrolled[e]
    /\ pc[e] = "cancel" => culprit.id # NoEntity
    /\ pc[e] \in Ended /\ ~isTerminal(e) => ffErr # "none" \/ (enrolled[e] /\ Verified(e))

\* Every cancellation below the caller's context has a cause above it.
CauseInv ==
  /\ \A e \in Entity : ctxErr[e] \in {"Canceled", "ParentDeadline"} => ffErr # "none"
  /\ ffErr # "none" => parentErr # "none" \/ culprit.id # NoEntity

\* The culprit stands as a failed member, and with it the cohort is doomed;
\* without one, the failures counted so far leave the barrier satisfiable.
CulpritInv ==
  /\ main = "wait" => failedCount = Cardinality(Counted)
  /\ culprit.id = NoEntity /\ main = "wait" => satisfiable(failedCount)
  /\ culprit.id # NoEntity =>
       /\ culprit.fault # "none"
       /\ terminal[culprit.id] = culprit.fault /\ phase[culprit.id] = culprit.phase
       /\ Cardinality(Healthy) < minViable

\* What holds from the open gate on: nobody is the culprit, and every member
\* not terminal is enrolled and verified, in sufficient number.
GateOpen ==
  /\ culprit.id = NoEntity
  /\ Healthy \subseteq Enrolled /\ \A e \in Healthy : Verified(e)
  /\ Cardinality(Healthy) >= minViable

\* What the main goroutine knows at each of its places.
MainInv ==
  /\ main # "wait" => \A e \in Entity : pc[e] = "done"
  /\ main = "wait" => assembled = {}
  /\ main = "drainParent" => parentErr # "none"
  /\ main = "drainGate" => culprit.id # NoEntity
  /\ main = "assembling" \/ ready => GateOpen
  /\ main # "done" => /\ ~ready
                      /\ \A e \in Entity : ~CohortCancelled(e) /\ ~ParentCancelled(e)
                      /\ \A e \in Entity : phase[e] # "Ready"

\* What the published records say.
RecordInv ==
  /\ ExactlyOneOutcome
  /\ ParentLabelHasCause
  /\ \A e \in Entity : CohortCancelled(e) => cohortCancelled[e] = culprit /\ ~isTerminal(e)

\* Drain takes the survivors one by one.
DrainInv ==
  /\ main \in {"wait", "assembling"} => surviving = {} /\ drained = {}
  /\ main \in {"drainParent", "drainGate"} => surviving \cup drained = Survivors
  /\ main # "done" => ~FailedPastBarrier
  /\ FailedPastBarrier => drained = {}
  /\ DrainExact

IInv ==
  TypeOK /\ GoroutineInv /\ CauseInv /\ CulpritInv /\ MainInv /\ RecordInv
  /\ DrainInv /\ AssembleComplete

-----------------------------------------------------------------------------
(* Counting members.                                                        *)

\* The number of members is positive, and the quorum is between 1 and all of
\* them; a cohort that may assemble needs all of them.
LEMMA QuorumType ==
  /\ Cardinality(Entity) \in Nat \ {0}
  /\ minViable \in 1..Cardinality(Entity)
  /\ ~NoAssembly => minViable = Cardinality(Entity)
<1>1. Cardinality(Entity) \in Nat /\ Cardinality(Entity) # 0
  BY EntityAssumption, FS_CardinalityType, FS_EmptySet
<1> QED BY <1>1, ConstructorAssumption DEF minViable

\* Sets of members are finite, and what is not in one is counted by the rest.
LEMMA MemberSets ==
  ASSUME NEW S \in SUBSET Entity
  PROVE  /\ IsFiniteSet(S) /\ Cardinality(S) \in Nat
         /\ Cardinality(S) <= Cardinality(Entity)
         /\ Cardinality(S) = Cardinality(Entity) => S = Entity
         /\ Cardinality(Entity \ S) = Cardinality(Entity) - Cardinality(S)
<1>1. IsFiniteSet(Entity)
  BY EntityAssumption
<1>2. /\ IsFiniteSet(S) /\ Cardinality(S) <= Cardinality(Entity)
      /\ Cardinality(S) = Cardinality(Entity) => S = Entity
  BY <1>1, FS_Subset
<1>3. Cardinality(S) \in Nat
  BY <1>2, FS_CardinalityType
<1>4. Cardinality(Entity \ S) = Cardinality(Entity) - Cardinality(Entity \cap S)
  BY <1>1, FS_Difference
<1>5. Entity \cap S = S
  OBVIOUS
<1> QED BY <1>2, <1>3, <1>4, <1>5

\* A set of members inside another is no larger.
LEMMA SmallerSet ==
  ASSUME NEW S \in SUBSET Entity, NEW T \in SUBSET S
  PROVE  Cardinality(T) <= Cardinality(S)
<1>1. IsFiniteSet(S)
  BY MemberSets
<1> QED BY <1>1, FS_Subset

-----------------------------------------------------------------------------
(* The initial states.                                                      *)

\* Nobody has started, so nothing is claimed of anybody.
LEMMA InitInv == Init => IInv
<1> SUFFICES ASSUME Init PROVE IInv
  OBVIOUS
<1>1. TypeOK
  <2>1. NoCulprit \in CulpritInfo
    BY DEF NoCulprit, CulpritInfo, Phase
  <2>2. NoObs \in [provider : BOOLEAN, address : {"none", "private", "readiness"}]
    BY DEF NoObs
  <2>3. failedCount \in 0..Cardinality(Entity)
    BY QuorumType DEF Init
  <2> QED BY <2>1, <2>2, <2>3 DEF Init, TypeOK, InPhase, Phase, CtxErr
<1>2. GoroutineInv /\ CauseInv
  BY EntityAssumption DEF Init, GoroutineInv, CauseInv, isTerminal, Ended
<1>3. CulpritInv
  <2>1. Counted = {}
    BY DEF Init, Counted
  <2>2. failedCount = Cardinality(Counted)
    BY <2>1, FS_EmptySet DEF Init
  <2>3. satisfiable(failedCount)
    BY QuorumType DEF Init, satisfiable
  <2> QED BY <2>2, <2>3 DEF Init, CulpritInv, NoCulprit
<1>4. MainInv /\ RecordInv /\ DrainInv /\ AssembleComplete
  BY DEF Init, MainInv, RecordInv, DrainInv, FailedPastBarrier, DrainExact, AssembleComplete,
     ExactlyOneOutcome, ParentLabelHasCause, CohortCancelled, ParentCancelled,
     NoCulprit
<1> QED BY <1>1, <1>2, <1>3, <1>4 DEF IInv

-----------------------------------------------------------------------------
(* The goroutines' conjuncts, under each step.                              *)

\* Under CountFailure, failedCount stays the number of failures counted: this
\* one was not among them.
LEMMA CountedStep ==
  ASSUME IInv, NEW e \in Entity, CountFailure(e)
  PROVE  /\ main = "wait" /\ Counted' = Counted \cup {e}
         /\ failedCount' = Cardinality(Counted')
         /\ failedCount' \in 0..Cardinality(Entity)
<1>1. main = "wait"
  BY DEF IInv, MainInv, CountFailure
<1>2. e \notin Counted /\ Counted' = Counted \cup {e}
  BY DEF IInv, TypeOK, CountFailure, Counted, isTerminal, tracker
<1>3. failedCount = Cardinality(Counted)
  BY <1>1 DEF IInv, CulpritInv
<1>4. IsFiniteSet(Counted)
  BY MemberSets DEF Counted
<1>5. Cardinality(Counted') = Cardinality(Counted) + 1
  BY <1>2, <1>4, FS_AddElement
<1>6. Cardinality(Counted') \in Nat /\ Cardinality(Counted') <= Cardinality(Entity)
  BY <1>2, MemberSets DEF Counted
<1> QED BY <1>1, <1>2, <1>3, <1>5, <1>6, QuorumType DEF CountFailure

\* Every step keeps the types; only CountFailure needs more than the types to
\* say so.
LEMMA TypeStep == IInv /\ [Next]_vars => TypeOK'
<1> SUFFICES ASSUME IInv, [Next]_vars PROVE TypeOK'
  OBVIOUS
<1> USE DEF tracker, shared, result
<1>p. wiring' = wiring
  BY DEF Next, vars
<1> USE <1>p DEF HasEnroller
<1>0. TypeOK
  BY DEF IInv
<1>1. ASSUME ParentDone PROVE TypeOK'
  BY <1>0, <1>1, ParentAssumption DEF TypeOK, ParentDone, CancelBelow, CtxErr
<1>2. ASSUME NEW e \in Entity, PhaseDeadline(e) PROVE TypeOK'
  BY <1>0, <1>2 DEF TypeOK, PhaseDeadline, CtxErr
<1>3. ASSUME NEW e \in Entity, Call(e) PROVE TypeOK'
  BY <1>0, <1>3 DEF TypeOK, Call, CallOf, InPhase
<1>4. ASSUME NEW e \in Entity, RecordDeadline(e) PROVE TypeOK'
  BY <1>0, <1>4 DEF TypeOK, RecordDeadline, Fail, FaultCode
<1>5. ASSUME NEW e \in Entity, StopCancelled(e) PROVE TypeOK'
  BY <1>0, <1>5 DEF TypeOK, StopCancelled, Phase
<1>6. ASSUME NEW e \in Entity, StopCancelledEnroll(e) PROVE TypeOK'
  BY <1>0, <1>6 DEF TypeOK, StopCancelledEnroll, LeaveEnrolled
<1>7. ASSUME NEW e \in Entity, EnrollTrivially(e) PROVE TypeOK'
  BY <1>0, <1>7 DEF TypeOK, EnrollTrivially, LeaveEnrolled
<1>8. ASSUME NEW e \in Entity, LaunchAcked(e) PROVE TypeOK'
  BY <1>0, <1>8 DEF TypeOK, LaunchAcked, Enter, InPhase, Phase, CtxErr
<1>9. ASSUME NEW e \in Entity, LaunchRetries(e) PROVE TypeOK'
  BY <1>0, <1>9 DEF TypeOK, LaunchRetries, InPhase
<1>10. ASSUME NEW e \in Entity, LaunchFails(e) PROVE TypeOK'
  BY <1>0, <1>10 DEF TypeOK, LaunchFails, Fail, Phase, FaultCode
<1>11. ASSUME NEW e \in Entity, ObserveRunning(e) PROVE TypeOK'
  BY <1>0, <1>11 DEF TypeOK, ObserveRunning, Enter, InPhase, Phase, CtxErr
<1>12. ASSUME NEW e \in Entity, ObserveAgain(e) PROVE TypeOK'
  <2> DEFINE Info == [provider : BOOLEAN, address : {"none", "private", "readiness"}]
  <2>1. /\ obs[e] \in Info /\ NoObs \in Info
        /\ [provider |-> TRUE, address |-> "private"] \in Info
    BY <1>0 DEF TypeOK, NoObs
  <2>2. obs' \in [Entity -> Info]
    BY <1>0, <1>12, <2>1 DEF TypeOK, ObserveAgain
  <2> QED BY <1>0, <1>12, <2>2 DEF TypeOK, ObserveAgain, InPhase
<1>13. ASSUME NEW e \in Entity, ObserveFailed(e) PROVE TypeOK'
  BY <1>0, <1>13 DEF TypeOK, ObserveFailed, Fail, Phase, FaultCode
<1>14. ASSUME NEW e \in Entity, ObserveFails(e) PROVE TypeOK'
  BY <1>0, <1>14 DEF TypeOK, ObserveFails, Fail, Phase, FaultCode
<1>15. ASSUME NEW e \in Entity, EnrollOK(e) PROVE TypeOK'
  BY <1>0, <1>15 DEF TypeOK, EnrollOK, LeaveEnrolled
<1>16. ASSUME NEW e \in Entity, EnrollAgain(e) PROVE TypeOK'
  BY <1>0, <1>16 DEF TypeOK, EnrollAgain, InPhase
<1>17. ASSUME NEW e \in Entity, ExitHealthy(e) PROVE TypeOK'
  BY <1>0, <1>17 DEF TypeOK, ExitHealthy, Phase
<1>18. ASSUME NEW e \in Entity, CountFailure(e) PROVE TypeOK'
  <2>1. failedCount' \in 0..Cardinality(Entity)
    BY <1>18, CountedStep
  <2>2. terminal[e] \in FaultCode /\ phase[e] \in Phase
    BY <1>0, <1>18 DEF TypeOK, CountFailure, isTerminal
  <2>3. culprit' \in CulpritInfo
    BY <1>0, <1>18, <2>2 DEF TypeOK, CountFailure, CulpritInfo
  <2> QED BY <1>0, <1>18, <2>1, <2>3 DEF TypeOK, CountFailure, InPhase
<1>19. ASSUME NEW e \in Entity, FastFailCancel(e) PROVE TypeOK'
  BY <1>0, <1>19 DEF TypeOK, FastFailCancel, CancelBelow, CtxErr
<1>20. ASSUME SeeParentDone PROVE TypeOK'
  BY <1>0, <1>20 DEF TypeOK, SeeParentDone, Survivors
<1>21. ASSUME GateFails PROVE TypeOK'
  BY <1>0, <1>21 DEF TypeOK, GateFails, Survivors
<1>22. ASSUME GateDisallows PROVE TypeOK'
  BY <1>0, <1>22 DEF TypeOK, GateDisallows, FailTheRest, Phase, FaultCode
<1>23. ASSUME GateAssembles PROVE TypeOK'
  BY <1>0, <1>23 DEF TypeOK, GateAssembles, Phase
<1>24. ASSUME GateReady PROVE TypeOK'
  BY <1>0, <1>24 DEF TypeOK, GateReady, Succeed, Phase
<1>25. ASSUME AssembleOK PROVE TypeOK'
  BY <1>0, <1>25 DEF TypeOK, AssembleOK, Succeed, Phase
<1>26. ASSUME AssembleFails PROVE TypeOK'
  BY <1>0, <1>26 DEF TypeOK, AssembleFails, FailTheRest, Phase, FaultCode
<1>27. ASSUME NEW e \in Entity, Drain(e) PROVE TypeOK'
  BY <1>0, <1>27 DEF TypeOK, Drain, Phase
<1>28. ASSUME LabelParentCancelled PROVE TypeOK'
  BY <1>0, <1>28 DEF TypeOK, LabelParentCancelled, setParentCancelled
<1>29. ASSUME LabelGateFailed PROVE TypeOK'
  BY <1>0, <1>29 DEF TypeOK, LabelGateFailed, setParentCancelled, setCohortCancelled
<1>30. ASSUME NEW e \in Entity, InstanceDies(e) PROVE TypeOK'
  BY <1>0, <1>30 DEF TypeOK, InstanceDies, Phase
<1>31. CASE UNCHANGED vars
  BY <1>0, <1>31 DEF TypeOK, vars
<1> QED BY <1>1, <1>2, <1>3, <1>4, <1>5, <1>6, <1>7, <1>8, <1>9, <1>10, <1>11, <1>12,
       <1>13, <1>14, <1>15, <1>16, <1>17, <1>18, <1>19, <1>20, <1>21, <1>22, <1>23,
       <1>24, <1>25, <1>26, <1>27, <1>28, <1>29, <1>30, <1>31 DEF Next, PortReturns,
       LoopHead, GoroutineEnds, Main

\* What a goroutine's place says of its tracker; from one healthy end to the
\* next through CauseInv: a phase cancelled from above means ffErr is set.
LEMMA GoroutineStep == IInv /\ [Next]_vars => GoroutineInv'
<1> SUFFICES ASSUME IInv, [Next]_vars PROVE GoroutineInv'
  OBVIOUS
<1> USE DEF tracker, shared, result
<1>p. wiring' = wiring
  BY DEF Next, vars
<1> USE <1>p DEF HasEnroller
<1>0. TypeOK /\ GoroutineInv /\ CauseInv /\ MainInv
  BY DEF IInv
<1>1. ASSUME ParentDone PROVE GoroutineInv'
  BY <1>0, <1>1 DEF GoroutineInv, isTerminal, Verified, ParentDone
<1>2. ASSUME NEW e \in Entity, PhaseDeadline(e) PROVE GoroutineInv'
  BY <1>0, <1>2 DEF GoroutineInv, isTerminal, Verified, PhaseDeadline
<1>3. ASSUME NEW e \in Entity, Call(e) PROVE GoroutineInv'
  BY <1>0, <1>3 DEF GoroutineInv, isTerminal, Verified, Call, CallOf, InPhase, Ended
<1>4. ASSUME NEW e \in Entity, RecordDeadline(e) PROVE GoroutineInv'
  BY <1>0, <1>4 DEF GoroutineInv, TypeOK, isTerminal, Verified, RecordDeadline, Fail,
     CallOf, Ended
<1>5. ASSUME NEW e \in Entity, StopCancelled(e) PROVE GoroutineInv'
  BY <1>0, <1>5 DEF GoroutineInv, isTerminal, StopCancelled, InPhase, Ended, CauseInv
<1>6. ASSUME NEW e \in Entity, StopCancelledEnroll(e) PROVE GoroutineInv'
  BY <1>0, <1>6 DEF GoroutineInv, TypeOK, isTerminal, StopCancelledEnroll,
     LeaveEnrolled, InPhase, Ended, CauseInv
<1>7. ASSUME NEW e \in Entity, EnrollTrivially(e) PROVE GoroutineInv'
  BY <1>0, <1>7 DEF GoroutineInv, TypeOK, isTerminal, Verified, EnrollTrivially,
     LeaveEnrolled, InPhase, Ended
<1>8. ASSUME NEW e \in Entity, LaunchAcked(e) PROVE GoroutineInv'
  BY <1>0, <1>8 DEF GoroutineInv, isTerminal, Verified, LaunchAcked, Enter, InPhase,
     Ended
<1>9. ASSUME NEW e \in Entity, LaunchRetries(e) PROVE GoroutineInv'
  BY <1>0, <1>9 DEF GoroutineInv, isTerminal, Verified, LaunchRetries, InPhase, Ended
<1>10. ASSUME NEW e \in Entity, LaunchFails(e) PROVE GoroutineInv'
  BY <1>0, <1>10 DEF GoroutineInv, TypeOK, isTerminal, Verified, LaunchFails, Fail,
     Ended
<1>11. ASSUME NEW e \in Entity, ObserveRunning(e) PROVE GoroutineInv'
  BY <1>0, <1>11 DEF GoroutineInv, isTerminal, Verified, ObserveRunning, Enter,
     InPhase, Ended
<1>12. ASSUME NEW e \in Entity, ObserveAgain(e) PROVE GoroutineInv'
  BY <1>0, <1>12 DEF GoroutineInv, isTerminal, Verified, ObserveAgain, InPhase, Ended
<1>13. ASSUME NEW e \in Entity, ObserveFailed(e) PROVE GoroutineInv'
  BY <1>0, <1>13 DEF GoroutineInv, TypeOK, isTerminal, Verified, ObserveFailed, Fail,
     Ended
<1>14. ASSUME NEW e \in Entity, ObserveFails(e) PROVE GoroutineInv'
  BY <1>0, <1>14 DEF GoroutineInv, TypeOK, isTerminal, Verified, ObserveFails, Fail,
     Ended
<1>15. ASSUME NEW e \in Entity, EnrollOK(e) PROVE GoroutineInv'
  BY <1>0, <1>15 DEF GoroutineInv, TypeOK, isTerminal, Verified, EnrollOK,
     LeaveEnrolled, InPhase, Ended
<1>16. ASSUME NEW e \in Entity, EnrollAgain(e) PROVE GoroutineInv'
  BY <1>0, <1>16 DEF GoroutineInv, isTerminal, Verified, EnrollAgain, InPhase, Ended
<1>17. ASSUME NEW e \in Entity, ExitHealthy(e) PROVE GoroutineInv'
  BY <1>0, <1>17 DEF GoroutineInv, isTerminal, Verified, ExitHealthy, InPhase, Ended
<1>18. ASSUME NEW e \in Entity, CountFailure(e) PROVE GoroutineInv'
  BY <1>0, <1>18, EntityAssumption DEF GoroutineInv, TypeOK, isTerminal, Verified,
     CountFailure, InPhase, Ended
<1>19. ASSUME NEW e \in Entity, FastFailCancel(e) PROVE GoroutineInv'
  BY <1>0, <1>19 DEF GoroutineInv, isTerminal, FastFailCancel, InPhase, Ended
<1>20. ASSUME SeeParentDone PROVE GoroutineInv'
  BY <1>0, <1>20 DEF GoroutineInv, isTerminal, Verified, SeeParentDone
<1>21. ASSUME GateFails PROVE GoroutineInv'
  BY <1>0, <1>21 DEF GoroutineInv, isTerminal, Verified, GateFails
<1>22. ASSUME GateDisallows PROVE GoroutineInv'
  BY <1>0, <1>22 DEF GoroutineInv, isTerminal, GateDisallows, FailTheRest
<1>23. ASSUME GateAssembles PROVE GoroutineInv'
  BY <1>0, <1>23 DEF GoroutineInv, isTerminal, Verified, GateAssembles
<1>24. ASSUME GateReady PROVE GoroutineInv'
  BY <1>0, <1>24 DEF GoroutineInv, isTerminal, Verified, GateReady, Succeed
<1>25. ASSUME AssembleOK PROVE GoroutineInv'
  BY <1>0, <1>25 DEF GoroutineInv, isTerminal, Verified, AssembleOK, Succeed
<1>26. ASSUME AssembleFails PROVE GoroutineInv'
  BY <1>0, <1>26 DEF GoroutineInv, isTerminal, AssembleFails, FailTheRest
<1>27. ASSUME NEW e \in Entity, Drain(e) PROVE GoroutineInv'
  BY <1>0, <1>27 DEF GoroutineInv, isTerminal, Verified, Drain
<1>28. ASSUME LabelParentCancelled PROVE GoroutineInv'
  BY <1>0, <1>28 DEF GoroutineInv, isTerminal, Verified, LabelParentCancelled
<1>29. ASSUME LabelGateFailed PROVE GoroutineInv'
  BY <1>0, <1>29 DEF GoroutineInv, isTerminal, Verified, LabelGateFailed
<1>30. ASSUME NEW e \in Entity, InstanceDies(e) PROVE GoroutineInv'
  BY <1>0, <1>30 DEF GoroutineInv, isTerminal, Verified, InstanceDies
<1>31. CASE UNCHANGED vars
  BY <1>0, <1>31 DEF GoroutineInv, isTerminal, Verified, vars
<1> QED BY <1>1, <1>2, <1>3, <1>4, <1>5, <1>6, <1>7, <1>8, <1>9, <1>10, <1>11, <1>12,
       <1>13, <1>14, <1>15, <1>16, <1>17, <1>18, <1>19, <1>20, <1>21, <1>22, <1>23,
       <1>24, <1>25, <1>26, <1>27, <1>28, <1>29, <1>30, <1>31 DEF Next, PortReturns,
       LoopHead, GoroutineEnds, Main

\* fastFailCtx is only cancelled by the caller or by a culprit already written.
LEMMA CauseStep == IInv /\ [Next]_vars => CauseInv'
<1> SUFFICES ASSUME IInv, [Next]_vars PROVE CauseInv'
  OBVIOUS
<1> USE DEF tracker, shared, result
<1>0. TypeOK /\ CauseInv /\ GoroutineInv /\ MainInv
  BY DEF IInv
<1>1. ASSUME ParentDone PROVE CauseInv'
  BY <1>0, <1>1 DEF CauseInv, ParentDone, CancelBelow
<1>2. ASSUME NEW e \in Entity, PhaseDeadline(e) PROVE CauseInv'
  BY <1>0, <1>2 DEF CauseInv, PhaseDeadline, GoroutineInv
<1>3. ASSUME NEW e \in Entity, Call(e) PROVE CauseInv'
  BY <1>0, <1>3 DEF CauseInv, Call, CallOf
<1>4. ASSUME NEW e \in Entity, RecordDeadline(e) PROVE CauseInv'
  BY <1>0, <1>4 DEF CauseInv, RecordDeadline, CallOf
<1>5. ASSUME NEW e \in Entity, StopCancelled(e) PROVE CauseInv'
  BY <1>0, <1>5 DEF CauseInv, StopCancelled, GoroutineInv
<1>6. ASSUME NEW e \in Entity, StopCancelledEnroll(e) PROVE CauseInv'
  BY <1>0, <1>6 DEF CauseInv, StopCancelledEnroll, LeaveEnrolled
<1>7. ASSUME NEW e \in Entity, EnrollTrivially(e) PROVE CauseInv'
  BY <1>0, <1>7 DEF CauseInv, EnrollTrivially, LeaveEnrolled
<1>8. ASSUME NEW e \in Entity, LaunchAcked(e) PROVE CauseInv'
  BY <1>0, <1>8 DEF CauseInv, LaunchAcked, Enter
<1>9. ASSUME NEW e \in Entity, LaunchRetries(e) PROVE CauseInv'
  BY <1>0, <1>9 DEF CauseInv, LaunchRetries, GoroutineInv
<1>10. ASSUME NEW e \in Entity, LaunchFails(e) PROVE CauseInv'
  BY <1>0, <1>10 DEF CauseInv, LaunchFails, Fail
<1>11. ASSUME NEW e \in Entity, ObserveRunning(e) PROVE CauseInv'
  BY <1>0, <1>11 DEF CauseInv, ObserveRunning, Enter
<1>12. ASSUME NEW e \in Entity, ObserveAgain(e) PROVE CauseInv'
  BY <1>0, <1>12 DEF CauseInv, ObserveAgain, GoroutineInv
<1>13. ASSUME NEW e \in Entity, ObserveFailed(e) PROVE CauseInv'
  BY <1>0, <1>13 DEF CauseInv, ObserveFailed, Fail
<1>14. ASSUME NEW e \in Entity, ObserveFails(e) PROVE CauseInv'
  BY <1>0, <1>14 DEF CauseInv, ObserveFails, Fail
<1>15. ASSUME NEW e \in Entity, EnrollOK(e) PROVE CauseInv'
  BY <1>0, <1>15 DEF CauseInv, EnrollOK, LeaveEnrolled
<1>16. ASSUME NEW e \in Entity, EnrollAgain(e) PROVE CauseInv'
  BY <1>0, <1>16 DEF CauseInv, EnrollAgain, GoroutineInv
<1>17. ASSUME NEW e \in Entity, ExitHealthy(e) PROVE CauseInv'
  BY <1>0, <1>17 DEF CauseInv, ExitHealthy, GoroutineInv
<1>18. ASSUME NEW e \in Entity, CountFailure(e) PROVE CauseInv'
  BY <1>0, <1>18, EntityAssumption DEF CauseInv, TypeOK, CountFailure
<1>19. ASSUME NEW e \in Entity, FastFailCancel(e) PROVE CauseInv'
  BY <1>0, <1>19 DEF CauseInv, FastFailCancel, GoroutineInv
<1>20. ASSUME SeeParentDone PROVE CauseInv'
  BY <1>0, <1>20 DEF CauseInv, SeeParentDone, Survivors
<1>21. ASSUME GateFails PROVE CauseInv'
  BY <1>0, <1>21 DEF CauseInv, GateFails, Survivors
<1>22. ASSUME GateDisallows PROVE CauseInv'
  BY <1>0, <1>22 DEF CauseInv, GateDisallows, FailTheRest
<1>23. ASSUME GateAssembles PROVE CauseInv'
  BY <1>0, <1>23 DEF CauseInv, GateAssembles, Waited
<1>24. ASSUME GateReady PROVE CauseInv'
  BY <1>0, <1>24 DEF CauseInv, GateReady, Succeed
<1>25. ASSUME AssembleOK PROVE CauseInv'
  BY <1>0, <1>25 DEF CauseInv, AssembleOK, Succeed
<1>26. ASSUME AssembleFails PROVE CauseInv'
  BY <1>0, <1>26 DEF CauseInv, AssembleFails, FailTheRest
<1>27. ASSUME NEW e \in Entity, Drain(e) PROVE CauseInv'
  BY <1>0, <1>27 DEF CauseInv, Drain, GoroutineInv
<1>28. ASSUME LabelParentCancelled PROVE CauseInv'
  BY <1>0, <1>28 DEF CauseInv, LabelParentCancelled, setParentCancelled
<1>29. ASSUME LabelGateFailed PROVE CauseInv'
  BY <1>0, <1>29 DEF CauseInv, LabelGateFailed, setCohortCancelled
<1>30. ASSUME NEW e \in Entity, InstanceDies(e) PROVE CauseInv'
  BY <1>0, <1>30 DEF CauseInv, InstanceDies, GoroutineInv
<1>31. CASE UNCHANGED vars
  BY <1>0, <1>31 DEF CauseInv, TypeOK, vars
<1> QED BY <1>1, <1>2, <1>3, <1>4, <1>5, <1>6, <1>7, <1>8, <1>9, <1>10, <1>11, <1>12,
       <1>13, <1>14, <1>15, <1>16, <1>17, <1>18, <1>19, <1>20, <1>21, <1>22, <1>23,
       <1>24, <1>25, <1>26, <1>27, <1>28, <1>29, <1>30, <1>31 DEF Next, PortReturns,
       LoopHead, GoroutineEnds, Main

\* A step that counts nobody and lets the failed members be keeps CulpritInv:
\* fewer members are healthy, and the culprit's fault stands.
LEMMA CulpritKept ==
  ASSUME IInv, UNCHANGED <<failedCount, culprit>>, main # "wait" => main' # "wait",
         main' = "wait" => Counted' = Counted,
         \A e \in Entity : isTerminal(e) => terminal'[e] = terminal[e] /\ phase'[e] = phase[e]
  PROVE  CulpritInv'
<1>1. Healthy' \subseteq Healthy
  BY DEF Healthy, isTerminal
<1>2. /\ Cardinality(Healthy') <= Cardinality(Healthy)
      /\ Cardinality(Healthy') \in Nat /\ Cardinality(Healthy) \in Nat
  BY <1>1, MemberSets, SmallerSet DEF Healthy
<1>3. /\ main' = "wait" => failedCount' = Cardinality(Counted')
      /\ culprit'.id = NoEntity /\ main' = "wait" => satisfiable(failedCount')
  BY DEF IInv, CulpritInv, satisfiable, minViable
<1>4. CASE culprit.id # NoEntity
  <2>1. /\ culprit.fault # "none"
        /\ terminal[culprit.id] = culprit.fault /\ phase[culprit.id] = culprit.phase
        /\ Cardinality(Healthy) < minViable
    BY <1>4 DEF IInv, CulpritInv
  <2>2. culprit.id \in Entity
    BY <1>4 DEF IInv, TypeOK, CulpritInfo
  <2>3. terminal'[culprit.id] = culprit.fault /\ phase'[culprit.id] = culprit.phase
    BY <2>1, <2>2 DEF isTerminal
  <2>4. Cardinality(Healthy') < minViable
    BY <1>2, <2>1, QuorumType
  <2> QED BY <1>3, <2>1, <2>3, <2>4 DEF CulpritInv, satisfiable, minViable
<1>5. CASE culprit.id = NoEntity
  BY <1>3, <1>5 DEF CulpritInv, satisfiable, minViable
<1> QED BY <1>4, <1>5


\* Only CountFailure counts and writes the culprit, and it does so when too
\* few members are left; no other step brings one back.
LEMMA CulpritStep == IInv /\ [Next]_vars => CulpritInv'
<1> SUFFICES ASSUME IInv, [Next]_vars PROVE CulpritInv'
  OBVIOUS
<1> USE DEF tracker, shared, result
<1>0. TypeOK /\ GoroutineInv /\ MainInv
  BY DEF IInv
<1>1. ASSUME ParentDone PROVE CulpritInv'
  BY CulpritKept, <1>0, <1>1 DEF Counted, isTerminal, ParentDone
<1>2. ASSUME NEW e \in Entity, PhaseDeadline(e) PROVE CulpritInv'
  BY CulpritKept, <1>0, <1>2 DEF Counted, isTerminal, PhaseDeadline
<1>3. ASSUME NEW e \in Entity, Call(e) PROVE CulpritInv'
  BY CulpritKept, <1>0, <1>3 DEF Counted, isTerminal, Call, CallOf
<1>4. ASSUME NEW e \in Entity, RecordDeadline(e) PROVE CulpritInv'
  BY CulpritKept, <1>0, <1>4 DEF Counted, isTerminal, RecordDeadline, Fail, CallOf,
     GoroutineInv, MainInv, Ended
<1>5. ASSUME NEW e \in Entity, StopCancelled(e) PROVE CulpritInv'
  BY CulpritKept, <1>0, <1>5 DEF Counted, isTerminal, StopCancelled
<1>6. ASSUME NEW e \in Entity, StopCancelledEnroll(e) PROVE CulpritInv'
  BY CulpritKept, <1>0, <1>6 DEF Counted, isTerminal, StopCancelledEnroll, LeaveEnrolled
<1>7. ASSUME NEW e \in Entity, EnrollTrivially(e) PROVE CulpritInv'
  BY CulpritKept, <1>0, <1>7 DEF Counted, isTerminal, EnrollTrivially, LeaveEnrolled
<1>8. ASSUME NEW e \in Entity, LaunchAcked(e) PROVE CulpritInv'
  BY CulpritKept, <1>0, <1>8 DEF Counted, isTerminal, LaunchAcked, Enter, GoroutineInv,
     MainInv, Ended
<1>9. ASSUME NEW e \in Entity, LaunchRetries(e) PROVE CulpritInv'
  BY CulpritKept, <1>0, <1>9 DEF Counted, isTerminal, LaunchRetries
<1>10. ASSUME NEW e \in Entity, LaunchFails(e) PROVE CulpritInv'
  BY CulpritKept, <1>0, <1>10 DEF Counted, isTerminal, LaunchFails, Fail, GoroutineInv,
     MainInv, Ended
<1>11. ASSUME NEW e \in Entity, ObserveRunning(e) PROVE CulpritInv'
  BY CulpritKept, <1>0, <1>11 DEF Counted, isTerminal, ObserveRunning, Enter,
     GoroutineInv, MainInv, Ended
<1>12. ASSUME NEW e \in Entity, ObserveAgain(e) PROVE CulpritInv'
  BY CulpritKept, <1>0, <1>12 DEF Counted, isTerminal, ObserveAgain
<1>13. ASSUME NEW e \in Entity, ObserveFailed(e) PROVE CulpritInv'
  BY CulpritKept, <1>0, <1>13 DEF Counted, isTerminal, ObserveFailed, Fail,
     GoroutineInv, MainInv, Ended
<1>14. ASSUME NEW e \in Entity, ObserveFails(e) PROVE CulpritInv'
  BY CulpritKept, <1>0, <1>14 DEF Counted, isTerminal, ObserveFails, Fail,
     GoroutineInv, MainInv, Ended
<1>15. ASSUME NEW e \in Entity, EnrollOK(e) PROVE CulpritInv'
  BY CulpritKept, <1>0, <1>15 DEF Counted, isTerminal, EnrollOK, LeaveEnrolled
<1>16. ASSUME NEW e \in Entity, EnrollAgain(e) PROVE CulpritInv'
  BY CulpritKept, <1>0, <1>16 DEF Counted, isTerminal, EnrollAgain
<1>17. ASSUME NEW e \in Entity, ExitHealthy(e) PROVE CulpritInv'
  BY CulpritKept, <1>0, <1>17 DEF Counted, isTerminal, ExitHealthy
<1>18. ASSUME NEW e \in Entity, CountFailure(e) PROVE CulpritInv'
  <2>1. main = "wait" /\ main' = main /\ failedCount' = Cardinality(Counted')
    BY <1>18, CountedStep DEF CountFailure
  <2>2. Healthy' = Healthy /\ Healthy \subseteq Entity \ Counted'
    BY <1>18 DEF CountFailure, Healthy, Counted, isTerminal
  <2>3. CASE satisfiable(failedCount + 1) \/ culprit.id # NoEntity
    <3>1. culprit' = culprit /\ (culprit.id = NoEntity => satisfiable(failedCount'))
      BY <1>18, <2>3 DEF CountFailure
    <3>2. UNCHANGED <<terminal, phase>>
      BY <1>18 DEF CountFailure
    <3> QED BY <2>1, <2>2, <3>1, <3>2 DEF IInv, CulpritInv, minViable
  <2>4. CASE ~(satisfiable(failedCount + 1) \/ culprit.id # NoEntity)
    <3>1. /\ culprit' = [id |-> e, fault |-> terminal[e], phase |-> phase[e]]
          /\ terminal' = terminal /\ phase' = phase /\ terminal[e] # "none"
          /\ ~satisfiable(failedCount')
      BY <1>18, <2>4 DEF CountFailure, isTerminal
    <3>2. /\ Cardinality(Healthy) <= Cardinality(Entity \ Counted')
          /\ Cardinality(Entity \ Counted') = Cardinality(Entity) - failedCount'
      BY <2>1, <2>2, MemberSets, SmallerSet DEF Counted
    <3>3. Cardinality(Healthy) \in Nat /\ Cardinality(Counted') \in Nat
      BY MemberSets DEF Healthy, Counted
    <3>4. Cardinality(Healthy) < minViable
      BY <2>1, <3>1, <3>2, <3>3, QuorumType DEF satisfiable
    <3> QED BY <2>1, <2>2, <3>1, <3>4, EntityAssumption DEF CulpritInv, satisfiable,
           minViable
  <2> QED BY <2>3, <2>4
<1>19. ASSUME NEW e \in Entity, FastFailCancel(e) PROVE CulpritInv'
  BY CulpritKept, <1>0, <1>19 DEF Counted, isTerminal, FastFailCancel
<1>20. ASSUME SeeParentDone PROVE CulpritInv'
  BY CulpritKept, <1>0, <1>20 DEF Counted, SeeParentDone, Survivors
<1>21. ASSUME GateFails PROVE CulpritInv'
  BY CulpritKept, <1>0, <1>21 DEF Counted, GateFails, Survivors
<1>22. ASSUME GateDisallows PROVE CulpritInv'
  BY CulpritKept, <1>0, <1>22 DEF Counted, GateDisallows, FailTheRest
<1>23. ASSUME GateAssembles PROVE CulpritInv'
  BY CulpritKept, <1>0, <1>23 DEF Counted, GateAssembles, Waited
<1>24. ASSUME GateReady PROVE CulpritInv'
  BY CulpritKept, <1>0, <1>24 DEF Counted, GateReady, Succeed
<1>25. ASSUME AssembleOK PROVE CulpritInv'
  BY CulpritKept, <1>0, <1>25 DEF Counted, AssembleOK, Succeed
<1>26. ASSUME AssembleFails PROVE CulpritInv'
  BY CulpritKept, <1>0, <1>26 DEF Counted, AssembleFails, FailTheRest
<1>27. ASSUME NEW e \in Entity, Drain(e) PROVE CulpritInv'
  BY CulpritKept, <1>0, <1>27 DEF Counted, Drain, Ended
<1>28. ASSUME LabelParentCancelled PROVE CulpritInv'
  BY CulpritKept, <1>0, <1>28 DEF Counted, LabelParentCancelled, setParentCancelled
<1>29. ASSUME LabelGateFailed PROVE CulpritInv'
  BY CulpritKept, <1>0, <1>29 DEF LabelGateFailed, setParentCancelled,
     setCohortCancelled
<1>30. ASSUME NEW e \in Entity, InstanceDies(e) PROVE CulpritInv'
  BY CulpritKept, <1>0, <1>30 DEF Counted, isTerminal, InstanceDies
<1>31. CASE UNCHANGED vars
  BY CulpritKept, <1>0, <1>31 DEF Counted, isTerminal, vars
<1> QED BY <1>1, <1>2, <1>3, <1>4, <1>5, <1>6, <1>7, <1>8, <1>9, <1>10, <1>11, <1>12,
       <1>13, <1>14, <1>15, <1>16, <1>17, <1>18, <1>19, <1>20, <1>21, <1>22, <1>23,
       <1>24, <1>25, <1>26, <1>27, <1>28, <1>29, <1>30, <1>31 DEF Next, PortReturns,
       LoopHead, GoroutineEnds, Main

-----------------------------------------------------------------------------
(* The gate.                                                                *)

\* Without a culprit and with the caller's context live, whoever got past its
\* loops without failing was verified.
LEMMA HealthyVerified ==
  ASSUME IInv, Waited, parentErr = "none", culprit.id = NoEntity
  PROVE  Healthy \subseteq Enrolled /\ \A e \in Healthy : Verified(e)
<1>1. ffErr = "none"
  BY DEF IInv, CauseInv
<1> QED BY <1>1 DEF IInv, GoroutineInv, Waited, Healthy, Enrolled, Ended

\* An open gate means what the code takes it to mean.
LEMMA GatePassed ==
  ASSUME IInv, Waited, parentErr = "none", gateSatisfied
  PROVE  GateOpen
<1>1. Enrolled \subseteq Healthy
  BY DEF IInv, GoroutineInv, Waited, Healthy, Enrolled
<1>2. Cardinality(Enrolled) >= minViable
  BY DEF gateSatisfied, Enrolled
<1>3. /\ Cardinality(Enrolled) <= Cardinality(Healthy)
      /\ Cardinality(Enrolled) \in Nat /\ Cardinality(Healthy) \in Nat
  BY <1>1, MemberSets, SmallerSet DEF Healthy, Enrolled
<1>4. Cardinality(Healthy) >= minViable
  BY <1>2, <1>3, QuorumType
<1>5. culprit.id = NoEntity
  BY <1>3, <1>4, QuorumType DEF IInv, CulpritInv
<1> QED BY <1>4, <1>5, HealthyVerified DEF GateOpen

\* The gate stays closed only behind a culprit: the fallback that labels the
\* survivors "context canceled" is dead code.
LEMMA GateBlocked ==
  ASSUME IInv, Waited, parentErr = "none", ~gateSatisfied
  PROVE  culprit.id # NoEntity
<1> SUFFICES ASSUME culprit.id = NoEntity PROVE FALSE
  OBVIOUS
<1>1. Healthy \subseteq Enrolled
  BY HealthyVerified
<1>2. Healthy = Entity \ Counted
  BY DEF Waited, Healthy, Counted
<1>3. failedCount = Cardinality(Counted) /\ satisfiable(failedCount)
  BY DEF IInv, CulpritInv, Waited
<1>4. Cardinality(Healthy) = Cardinality(Entity) - Cardinality(Counted)
  BY <1>2, MemberSets DEF Counted
<1>5. /\ Cardinality(Healthy) <= Cardinality(Enrolled)
      /\ Cardinality(Enrolled) \in Nat /\ Cardinality(Healthy) \in Nat
  BY <1>1, MemberSets, SmallerSet DEF Healthy, Enrolled
<1>6. Cardinality(Enrolled) >= minViable
  BY <1>3, <1>4, <1>5, QuorumType DEF satisfiable
<1> QED BY <1>6 DEF gateSatisfied, Enrolled

\* What GateAssembles hands to the Assembler is everybody.
LEMMA AssembledIsComplete ==
  ASSUME IInv, GateAssembles
  PROVE  Enrolled = Entity /\ \A e \in Entity : Verified(e)
<1>1. GateOpen
  BY GatePassed DEF GateAssembles
<1>2. /\ Cardinality(Healthy) \in Nat /\ Cardinality(Healthy) <= Cardinality(Entity)
      /\ Cardinality(Healthy) = Cardinality(Entity) => Healthy = Entity
  BY MemberSets DEF Healthy
<1>3. Healthy = Entity
  BY <1>1, <1>2, QuorumType DEF GateOpen, GateAssembles
<1> QED BY <1>1, <1>3 DEF GateOpen, Enrolled

-----------------------------------------------------------------------------
(* The main goroutine's conjuncts, under each step.                         *)

\* While a goroutine still runs, the main one waits; no goroutine touches the
\* results, labels anybody, makes anybody Ready, or fails anybody as the gate does.
LEMMA GoroutineFrame ==
  ASSUME IInv, NEW e \in Entity, PortReturns(e) \/ LoopHead(e) \/ GoroutineEnds(e)
  PROVE  /\ main = "wait"
         /\ UNCHANGED <<main, surviving, drained, assembled, ready, parentErr,
                         cohortCancelled, parentCancelled>>
         /\ \A f \in Entity : phase'[f] # "Ready"
         /\ \A f \in Entity : terminal'[f] \in {"AssemblyDisallowed", "AssemblyFailed"} =>
                                terminal'[f] = terminal[f]
<1> USE DEF tracker, shared, result
<1>0. /\ TypeOK /\ (main # "wait" => pc[e] = "done")
      /\ main = "wait" => \A f \in Entity : phase[f] # "Ready"
  BY DEF IInv, MainInv
<1>1. CASE PortReturns(e)
  BY <1>0, <1>1 DEF TypeOK, PortReturns, LaunchAcked, LaunchRetries, LaunchFails,
     ObserveRunning, ObserveAgain, ObserveFailed, ObserveFails, EnrollOK, EnrollAgain,
     Enter, Fail
<1>2. CASE LoopHead(e)
  BY <1>0, <1>2 DEF TypeOK, LoopHead, Call, RecordDeadline, StopCancelled,
     StopCancelledEnroll, EnrollTrivially, CallOf, Fail, CallOf
<1>3. CASE GoroutineEnds(e)
  BY <1>0, <1>3 DEF GoroutineEnds, ExitHealthy, CountFailure, FastFailCancel
<1> QED BY <1>1, <1>2, <1>3

\* The gate lemmas carry what the main goroutine knows past the gate, where
\* nothing changes it any more.
LEMMA MainStep == IInv /\ [Next]_vars => MainInv'
<1> SUFFICES ASSUME IInv, [Next]_vars PROVE MainInv'
  OBVIOUS
<1> USE DEF tracker, shared, result
<1>p. wiring' = wiring
  BY DEF Next, vars
<1> USE <1>p DEF HasEnroller
<1>0. TypeOK /\ MainInv
  BY DEF IInv
<1>1. ASSUME ParentDone PROVE MainInv'
  BY <1>0, <1>1 DEF MainInv, CohortCancelled, ParentCancelled, isTerminal, GateOpen,
     Healthy, Enrolled, Verified, ParentDone
<1>2. ASSUME NEW e \in Entity, PhaseDeadline(e) \/ InstanceDies(e) PROVE MainInv'
  <2>1. UNCHANGED <<pc, tracker, parentErr, culprit, result>>
    BY <1>2 DEF PhaseDeadline, InstanceDies
  <2> QED BY <1>0, <2>1 DEF MainInv, CohortCancelled, ParentCancelled, isTerminal,
         GateOpen, Healthy, Enrolled, Verified
<1>3. ASSUME NEW e \in Entity, PortReturns(e) \/ LoopHead(e) \/ GoroutineEnds(e) PROVE MainInv'
  BY <1>3, GoroutineFrame, <1>0 DEF MainInv, CohortCancelled, ParentCancelled
<1>4. ASSUME SeeParentDone PROVE MainInv'
  BY <1>0, <1>4 DEF MainInv, CohortCancelled, ParentCancelled, SeeParentDone, Waited
<1>5. ASSUME GateFails PROVE MainInv'
  BY <1>0, <1>5, GateBlocked DEF MainInv, CohortCancelled, ParentCancelled, GateFails,
     Waited
<1>6. ASSUME GateDisallows PROVE MainInv'
  <2>1. GateOpen
    BY <1>6, GatePassed DEF GateDisallows
  <2> QED BY <1>0, <1>6, <2>1 DEF MainInv, GateDisallows, Waited
<1>7. ASSUME GateAssembles PROVE MainInv'
  <2>1. GateOpen
    BY <1>7, GatePassed DEF GateAssembles
  <2> QED BY <1>0, <1>7, <2>1 DEF MainInv, CohortCancelled, ParentCancelled,
         isTerminal, GateOpen, Healthy, Enrolled, Verified, GateAssembles, Waited
<1>8. ASSUME GateReady PROVE MainInv'
  <2>1. GateOpen
    BY <1>8, GatePassed DEF GateReady
  <2> QED BY <1>0, <1>8, <2>1 DEF MainInv, isTerminal, GateOpen, Healthy, Enrolled,
         Verified, GateReady, Waited, Succeed
<1>9. ASSUME AssembleOK PROVE MainInv'
  BY <1>0, <1>9 DEF MainInv, isTerminal, GateOpen, Healthy, Enrolled, Verified,
     AssembleOK, Succeed
<1>10. ASSUME AssembleFails PROVE MainInv'
  BY <1>0, <1>10 DEF MainInv, GateOpen, AssembleFails
<1>11. ASSUME NEW e \in Entity, Drain(e) PROVE MainInv'
  BY <1>0, <1>11 DEF MainInv, CohortCancelled, ParentCancelled, Drain
<1>12. ASSUME LabelParentCancelled PROVE MainInv'
  BY <1>0, <1>12 DEF MainInv, GateOpen, LabelParentCancelled
<1>13. ASSUME LabelGateFailed PROVE MainInv'
  BY <1>0, <1>13 DEF MainInv, LabelGateFailed, setCohortCancelled
<1>14. CASE UNCHANGED vars
  BY <1>0, <1>14 DEF MainInv, CohortCancelled, ParentCancelled, isTerminal, GateOpen,
     Healthy, Enrolled, Verified, vars
<1> QED BY <1>1, <1>2, <1>3, <1>4, <1>5, <1>6, <1>7, <1>8, <1>9, <1>10, <1>11, <1>12,
       <1>13, <1>14 DEF Next, Main

\* Every member gets one label when the reconcile is done, and the cause of
\* each label is known by then.
LEMMA RecordStep == IInv /\ [Next]_vars => RecordInv'
<1> SUFFICES ASSUME IInv, [Next]_vars PROVE RecordInv'
  OBVIOUS
<1> USE DEF tracker, shared, result
<1>0. TypeOK /\ RecordInv /\ MainInv
  BY DEF IInv
<1>1. ASSUME ParentDone PROVE RecordInv'
  BY <1>0, <1>1 DEF RecordInv, ExactlyOneOutcome, ParentLabelHasCause, CohortCancelled,
     ParentCancelled, isTerminal, ParentDone
<1>2. ASSUME NEW e \in Entity, PhaseDeadline(e) \/ InstanceDies(e) PROVE RecordInv'
  BY <1>0, <1>2 DEF RecordInv, ExactlyOneOutcome, ParentLabelHasCause, Succeeded,
     CohortCancelled, ParentCancelled, isTerminal, PhaseDeadline, InstanceDies
<1>3. ASSUME NEW e \in Entity, PortReturns(e) \/ LoopHead(e) \/ GoroutineEnds(e) PROVE RecordInv'
  BY <1>0, <1>3, GoroutineFrame DEF RecordInv, ExactlyOneOutcome, ParentLabelHasCause,
     CohortCancelled, ParentCancelled, MainInv
<1>4. ASSUME SeeParentDone PROVE RecordInv'
  BY <1>0, <1>4 DEF RecordInv, ExactlyOneOutcome, ParentLabelHasCause, CohortCancelled,
     ParentCancelled, isTerminal, SeeParentDone
<1>5. ASSUME GateFails PROVE RecordInv'
  BY <1>0, <1>5 DEF RecordInv, ExactlyOneOutcome, ParentLabelHasCause, CohortCancelled,
     ParentCancelled, isTerminal, GateFails
<1>6. ASSUME GateDisallows PROVE RecordInv'
  BY <1>0, <1>6 DEF RecordInv, ExactlyOneOutcome, ParentLabelHasCause, CohortCancelled,
     ParentCancelled, isTerminal, MainInv, GateDisallows, FailTheRest, Waited
<1>7. ASSUME GateAssembles PROVE RecordInv'
  BY <1>0, <1>7 DEF RecordInv, ExactlyOneOutcome, ParentLabelHasCause, CohortCancelled,
     ParentCancelled, isTerminal, GateAssembles
<1>8. ASSUME GateReady PROVE RecordInv'
  BY <1>0, <1>8 DEF RecordInv, ExactlyOneOutcome, ParentLabelHasCause, Succeeded,
     CohortCancelled, ParentCancelled, isTerminal, GateReady, Succeed
<1>9. ASSUME AssembleOK PROVE RecordInv'
  BY <1>0, <1>9 DEF RecordInv, ExactlyOneOutcome, ParentLabelHasCause, Succeeded,
     CohortCancelled, ParentCancelled, isTerminal, MainInv, AssembleOK, Succeed
<1>10. ASSUME AssembleFails PROVE RecordInv'
  BY <1>0, <1>10 DEF RecordInv, ExactlyOneOutcome, ParentLabelHasCause,
     CohortCancelled, ParentCancelled, isTerminal, MainInv, AssembleFails, FailTheRest
<1>11. ASSUME NEW e \in Entity, Drain(e) PROVE RecordInv'
  BY <1>0, <1>11 DEF RecordInv, ExactlyOneOutcome, ParentLabelHasCause,
     CohortCancelled, ParentCancelled, isTerminal, Drain
<1>12. ASSUME LabelParentCancelled PROVE RecordInv'
  BY <1>0, <1>12 DEF RecordInv, ExactlyOneOutcome, ParentLabelHasCause,
     CohortCancelled, ParentCancelled, isTerminal, MainInv, LabelParentCancelled,
     setParentCancelled
<1>13. ASSUME LabelGateFailed PROVE RecordInv'
  BY <1>0, <1>13 DEF RecordInv, ExactlyOneOutcome, ParentLabelHasCause,
     CohortCancelled, ParentCancelled, isTerminal, MainInv, LabelGateFailed,
     setCohortCancelled
<1>14. CASE UNCHANGED vars
  BY <1>0, <1>14 DEF RecordInv, ExactlyOneOutcome, ParentLabelHasCause, Succeeded,
     CohortCancelled, ParentCancelled, isTerminal, vars
<1> QED BY <1>1, <1>2, <1>3, <1>4, <1>5, <1>6, <1>7, <1>8, <1>9, <1>10, <1>11, <1>12,
       <1>13, <1>14 DEF Next, Main

\* Drain works through the survivors it found, and nothing adds to them.
LEMMA DrainStep == IInv /\ [Next]_vars => DrainInv'
<1> SUFFICES ASSUME IInv, [Next]_vars PROVE DrainInv'
  OBVIOUS
<1> USE DEF tracker, shared, result
<1>0. TypeOK /\ DrainInv /\ MainInv
  BY DEF IInv
<1>1. ASSUME ParentDone PROVE DrainInv'
  BY <1>0, <1>1 DEF DrainInv, FailedPastBarrier, DrainExact, Survivors, isTerminal, ParentDone
<1>2. ASSUME NEW e \in Entity, PhaseDeadline(e) \/ InstanceDies(e) PROVE DrainInv'
  BY <1>0, <1>2 DEF DrainInv, FailedPastBarrier, DrainExact, Survivors, isTerminal, PhaseDeadline,
     InstanceDies
<1>3. ASSUME NEW e \in Entity, PortReturns(e) \/ LoopHead(e) \/ GoroutineEnds(e) PROVE DrainInv'
  BY <1>0, <1>3, GoroutineFrame DEF DrainInv, FailedPastBarrier, DrainExact
<1>4. ASSUME SeeParentDone PROVE DrainInv'
  BY <1>0, <1>4 DEF DrainInv, FailedPastBarrier, DrainExact, Survivors, isTerminal, SeeParentDone,
     Survivors, Waited
<1>5. ASSUME GateFails PROVE DrainInv'
  BY <1>0, <1>5 DEF DrainInv, FailedPastBarrier, DrainExact, Survivors, isTerminal, GateFails, Survivors,
     Waited
<1>6. ASSUME GateDisallows PROVE DrainInv'
  BY <1>0, <1>6 DEF DrainInv, FailedPastBarrier, DrainExact, isTerminal, GateDisallows, FailTheRest, Waited
<1>7. ASSUME GateAssembles PROVE DrainInv'
  BY <1>0, <1>7 DEF DrainInv, FailedPastBarrier, DrainExact, GateAssembles, Waited
<1>8. ASSUME GateReady PROVE DrainInv'
  BY <1>0, <1>8 DEF DrainInv, FailedPastBarrier, DrainExact, GateReady, Succeed, Waited
<1>9. ASSUME AssembleOK PROVE DrainInv'
  BY <1>0, <1>9 DEF DrainInv, FailedPastBarrier, DrainExact, AssembleOK, Succeed
<1>10. ASSUME AssembleFails PROVE DrainInv'
  BY <1>0, <1>10 DEF DrainInv, FailedPastBarrier, DrainExact, isTerminal, AssembleFails, FailTheRest
<1>11. ASSUME NEW e \in Entity, Drain(e) PROVE DrainInv'
  BY <1>0, <1>11 DEF DrainInv, FailedPastBarrier, DrainExact, Survivors, isTerminal, Drain
<1>12. ASSUME LabelParentCancelled PROVE DrainInv'
  BY <1>0, <1>12 DEF DrainInv, FailedPastBarrier, DrainExact, Survivors, isTerminal, MainInv,
     LabelParentCancelled
<1>13. ASSUME LabelGateFailed PROVE DrainInv'
  BY <1>0, <1>13 DEF DrainInv, FailedPastBarrier, DrainExact, Survivors, isTerminal, MainInv,
     LabelGateFailed
<1>14. CASE UNCHANGED vars
  BY <1>0, <1>14 DEF DrainInv, FailedPastBarrier, DrainExact, Survivors, isTerminal, vars
<1> QED BY <1>1, <1>2, <1>3, <1>4, <1>5, <1>6, <1>7, <1>8, <1>9, <1>10, <1>11, <1>12,
       <1>13, <1>14 DEF Next, Main

\* Only GateAssembles gives anybody to the Assembler.
LEMMA AssembleStep == IInv /\ [Next]_vars => AssembleComplete'
<1> SUFFICES ASSUME IInv, [Next]_vars PROVE AssembleComplete'
  OBVIOUS
<1> USE DEF tracker, shared, result
<1>p. wiring' = wiring
  BY DEF Next, vars
<1> USE <1>p DEF HasEnroller
<1>0. TypeOK /\ AssembleComplete /\ MainInv
  BY DEF IInv
<1>1. ASSUME ParentDone PROVE AssembleComplete'
  BY <1>0, <1>1 DEF AssembleComplete, Verified, ParentDone
<1>2. ASSUME NEW e \in Entity, PhaseDeadline(e) \/ InstanceDies(e) PROVE AssembleComplete'
  BY <1>0, <1>2 DEF AssembleComplete, Verified, PhaseDeadline, InstanceDies
<1>3. ASSUME NEW e \in Entity, PortReturns(e) \/ LoopHead(e) \/ GoroutineEnds(e) PROVE AssembleComplete'
  BY <1>0, <1>3, GoroutineFrame DEF AssembleComplete, MainInv
<1>4. ASSUME SeeParentDone PROVE AssembleComplete'
  BY <1>0, <1>4 DEF AssembleComplete, Verified, SeeParentDone
<1>5. ASSUME GateFails PROVE AssembleComplete'
  BY <1>0, <1>5 DEF AssembleComplete, Verified, GateFails
<1>6. ASSUME GateDisallows PROVE AssembleComplete'
  BY <1>0, <1>6 DEF AssembleComplete, Verified, GateDisallows
<1>7. ASSUME GateAssembles PROVE AssembleComplete'
  <2>1. assembled' = Entity
    BY <1>7, AssembledIsComplete DEF GateAssembles, Enrolled
  <2>2. \A e \in Entity : Verified(e)
    BY <1>7, AssembledIsComplete
  <2> QED BY <1>7, <2>1, <2>2 DEF AssembleComplete, Verified, GateAssembles
<1>8. ASSUME GateReady PROVE AssembleComplete'
  BY <1>0, <1>8 DEF AssembleComplete, Verified, GateReady, Succeed
<1>9. ASSUME AssembleOK PROVE AssembleComplete'
  BY <1>0, <1>9 DEF AssembleComplete, Verified, AssembleOK, Succeed
<1>10. ASSUME AssembleFails PROVE AssembleComplete'
  BY <1>0, <1>10 DEF AssembleComplete, Verified, AssembleFails
<1>11. ASSUME NEW e \in Entity, Drain(e) PROVE AssembleComplete'
  BY <1>0, <1>11 DEF AssembleComplete, Verified, Drain
<1>12. ASSUME LabelParentCancelled PROVE AssembleComplete'
  BY <1>0, <1>12 DEF AssembleComplete, Verified, LabelParentCancelled
<1>13. ASSUME LabelGateFailed PROVE AssembleComplete'
  BY <1>0, <1>13 DEF AssembleComplete, Verified, LabelGateFailed
<1>14. CASE UNCHANGED vars
  BY <1>0, <1>14 DEF AssembleComplete, Verified, vars
<1> QED BY <1>1, <1>2, <1>3, <1>4, <1>5, <1>6, <1>7, <1>8, <1>9, <1>10, <1>11, <1>12,
       <1>13, <1>14 DEF Next, Main

-----------------------------------------------------------------------------
(* The theorems.                                                            *)

\* IInv is an inductive invariant of Reconcile, for every cohort: the runs
\* check it for three members.
THEOREM Invariance == Spec => []IInv
<1>1. Init => IInv
  BY InitInv
<1>2. IInv /\ [Next]_vars => IInv'
  BY TypeStep, GoroutineStep, CauseStep, CulpritStep, MainStep, RecordStep, DrainStep,
     AssembleStep DEF IInv
<1> QED BY <1>1, <1>2, PTL DEF Spec

\* Every tracker, context and result stays within its type; for failedCount
\* this says that no member is counted twice (reconcile.go:198).
THEOREM TypeCorrect == Spec => []TypeOK
<1>1. IInv => TypeOK
  BY DEF IInv
<1> QED BY <1>1, Invariance, PTL

\* Each published Record has one outcome, and only one (explain.go: Record).
THEOREM OneOutcome == Spec => []ExactlyOneOutcome
<1>1. IInv => ExactlyOneOutcome
  BY DEF IInv, RecordInv
<1> QED BY <1>1, Invariance, PTL

\* No goroutine ends unverified, and the shared context is not cancelled,
\* unless the caller did it or the culprit has been recorded.
THEOREM CancellationHasCause == Spec => []CancelHasCause
<1>1. IInv => CancelHasCause
  BY DEF IInv, CauseInv, GoroutineInv, CancelHasCause, Ended, isTerminal
<1> QED BY <1>1, Invariance, PTL

\* The cohort is failed fast only when its barrier is out of reach.
THEOREM FastFailIsJustified == Spec => []FastFailOnlyWhenDoomed
<1>1. IInv => FastFailOnlyWhenDoomed
  BY DEF IInv, CulpritInv, MainInv, GateOpen, FastFailOnlyWhenDoomed, Healthy
<1> QED BY <1>1, Invariance, PTL

\* A Ready outcome stands on MinViable members the Enroller vouched for,
\* although the gate only counts enrolled flags a cancelled phase also sets.
THEOREM ReadyIsReady == Spec => []ReadyIsVerified
<1>1. IInv => ReadyIsVerified
  BY DEF IInv, MainInv, GateOpen, ReadyIsVerified, Healthy
<1> QED BY <1>1, Invariance, PTL

\* The Assembler is never given part of a cohort.
THEOREM AssemblesTheWholeCohort == Spec => []AssembleComplete
<1>1. IInv => AssembleComplete
  BY DEF IInv
<1> QED BY <1>1, Invariance, PTL

\* ParentCancelled is said only when the caller's context ended, and why.
THEOREM ParentIsNamedRightly == Spec => []ParentLabelHasCause
<1>1. IInv => ParentLabelHasCause
  BY DEF IInv, RecordInv
<1> QED BY <1>1, Invariance, PTL

\* A cohort-cancelled member names a culprit that is another member, failed
\* with the fault and in the phase that are quoted.
THEOREM CulpritIsNamedRightly == Spec => []CulpritIsAnotherFailure
<1>1. IInv => CulpritIsAnotherFailure
  BY DEF IInv, RecordInv, CulpritInv, CulpritIsAnotherFailure, CohortCancelled,
     isTerminal
<1> QED BY <1>1, Invariance, PTL

\* Drain reaches the survivors with a known instance, and nobody else.
THEOREM DrainsExactly == Spec => []DrainExact
<1>1. IInv => DrainExact
  BY DEF IInv, DrainInv
<1> QED BY <1>1, Invariance, PTL

\* The first culprit stays: a failure that comes after it is not the story.
THEOREM FirstCulpritStays == Spec => CulpritIsFirst
<1>1. [Next]_vars => (culprit.id # NoEntity => culprit' = culprit)
  <2> SUFFICES ASSUME [Next]_vars, culprit.id # NoEntity PROVE culprit' = culprit
    OBVIOUS
  <2> USE DEF tracker, shared, result
  <2>1. ASSUME NEW e \in Entity, PortReturns(e) PROVE culprit' = culprit
    BY <2>1 DEF PortReturns, LaunchAcked, LaunchRetries, LaunchFails, ObserveRunning,
       ObserveAgain, ObserveFailed, ObserveFails, EnrollOK, EnrollAgain
  <2>2. ASSUME NEW e \in Entity, LoopHead(e) PROVE culprit' = culprit
    BY <2>2 DEF LoopHead, Call, RecordDeadline, StopCancelled, StopCancelledEnroll,
       EnrollTrivially
  <2>3. ASSUME NEW e \in Entity, GoroutineEnds(e) PROVE culprit' = culprit
    BY <2>3 DEF GoroutineEnds, ExitHealthy, CountFailure, FastFailCancel
  <2>4. ASSUME Main PROVE culprit' = culprit
    BY <2>4 DEF Main, SeeParentDone, GateFails, GateDisallows, GateAssembles,
       GateReady, Succeed, AssembleOK, AssembleFails, LabelParentCancelled,
       LabelGateFailed, Drain
  <2> QED BY <2>1, <2>2, <2>3, <2>4 DEF Next, vars, ParentDone, PhaseDeadline,
         InstanceDies
<1> QED BY <1>1, PTL DEF Spec, CulpritIsFirst

-----------------------------------------------------------------------------
(* Reconcile implements CohortOutcome.                                      *)

\* Until the main goroutine is done, a member is terminal or pending.
LEMMA PendingOutcome ==
  TypeOK /\ MainInv /\ main # "done" =>
    /\ outcomeOf = [e \in Entity |-> IF isTerminal(e) THEN "terminal" ELSE "pending"]
    /\ verdictOf = "pending"
    /\ Abstract!Left = Healthy
<1> SUFFICES ASSUME TypeOK, MainInv, main # "done"
             PROVE  /\ outcomeOf = [e \in Entity |->
                                     IF isTerminal(e) THEN "terminal" ELSE "pending"]
                    /\ verdictOf = "pending"
                    /\ Abstract!Left = Healthy
  OBVIOUS
<1>1. outcomeOf = [e \in Entity |-> IF isTerminal(e) THEN "terminal" ELSE "pending"]
  BY DEF outcomeOf, MainInv, CohortCancelled, ParentCancelled
<1>2. verdictOf = "pending"
  BY DEF verdictOf
<1> QED BY <1>1, <1>2 DEF Abstract!Left, Healthy

\* The same of the state after a step.
LEMMA PendingOutcomeNext ==
  TypeOK' /\ MainInv' /\ main' # "done" =>
    /\ outcomeOf' = [e \in Entity |-> IF isTerminal(e)' THEN "terminal" ELSE "pending"]
    /\ verdictOf' = "pending"
<1>1. (TypeOK /\ MainInv /\ main # "done" =>
        /\ outcomeOf = [e \in Entity |-> IF isTerminal(e) THEN "terminal" ELSE "pending"]
        /\ verdictOf = "pending"
        /\ Abstract!Left = Healthy)'
  BY PendingOutcome, PTL
<1> QED BY <1>1

\* A step that fails nobody and leaves the main goroutine at work is a stutter.
LEMMA OutcomeStutters ==
  ASSUME IInv, IInv', main # "done", main' # "done", terminal' = terminal
  PROVE  UNCHANGED <<outcomeOf, verdictOf>>
BY PendingOutcome, PendingOutcomeNext DEF IInv, isTerminal

\* A member that fails in a phase fails alone.
LEMMA OutcomeFails ==
  ASSUME IInv, IInv', main # "done", main' # "done",
         NEW e \in Entity, ~isTerminal(e),
         NEW code \in FaultCode, terminal' = [terminal EXCEPT ![e] = code]
  PROVE  Abstract!MemberFails(e)
<1>1. /\ outcomeOf = [f \in Entity |-> IF isTerminal(f) THEN "terminal" ELSE "pending"]
      /\ verdictOf = "pending" /\ verdictOf' = "pending"
      /\ outcomeOf' = [f \in Entity |-> IF isTerminal(f)' THEN "terminal" ELSE "pending"]
      /\ Abstract!Left = Healthy
  BY PendingOutcome, PendingOutcomeNext DEF IInv
<1>2. \A f \in Entity : isTerminal(f)' <=> isTerminal(f) \/ f = e
  BY DEF IInv, TypeOK, isTerminal, FaultCode
<1>3. outcomeOf' = [outcomeOf EXCEPT ![e] = "terminal"]
  BY <1>1, <1>2
<1> QED BY <1>1, <1>3 DEF Abstract!MemberFails, Healthy

\* The main goroutine's last step decides for all the healthy members at once.
LEMMA OutcomeDecides ==
  ASSUME IInv, IInv', main # "done", main' = "done", NEW o,
         outcomeOf' = [e \in Entity |-> IF isTerminal(e) THEN "terminal" ELSE o]
  PROVE  Abstract!Decide(o, IF ready' THEN "ready" ELSE "failed")
<1>1. /\ outcomeOf = [e \in Entity |-> IF isTerminal(e) THEN "terminal" ELSE "pending"]
      /\ verdictOf = "pending" /\ Abstract!Left = Healthy
  BY PendingOutcome DEF IInv
<1>2. verdictOf' = IF ready' THEN "ready" ELSE "failed"
  BY DEF verdictOf
<1> QED BY <1>1, <1>2 DEF Abstract!Decide, Healthy

\* Every step of Reconcile is one of CohortOutcome's, or a stutter.
LEMMA OutcomeStep ==
  IInv /\ IInv' /\ [Next]_vars => [Abstract!ONext]_<<outcomeOf, verdictOf>>
<1> SUFFICES ASSUME IInv, IInv', [Next]_vars
             PROVE  Abstract!ONext \/ UNCHANGED <<outcomeOf, verdictOf>>
  OBVIOUS
<1> USE DEF tracker, shared, result
<1>0. TypeOK /\ GoroutineInv /\ MainInv
  BY DEF IInv
<1>1. ASSUME ParentDone PROVE Abstract!ONext \/ UNCHANGED <<outcomeOf, verdictOf>>
  BY <1>1, OutcomeStutters DEF ParentDone
<1>2. ASSUME NEW e \in Entity, PhaseDeadline(e) \/ InstanceDies(e)
      PROVE  Abstract!ONext \/ UNCHANGED <<outcomeOf, verdictOf>>
  BY <1>2 DEF PhaseDeadline, InstanceDies, outcomeOf, verdictOf, isTerminal,
     CohortCancelled, ParentCancelled
<1>3. ASSUME NEW e \in Entity, PortReturns(e) \/ LoopHead(e) \/ GoroutineEnds(e)
      PROVE  Abstract!ONext \/ UNCHANGED <<outcomeOf, verdictOf>>
  <2>0. main # "done" /\ main' # "done"
    BY <1>3, GoroutineFrame
  <2>1. CASE RecordDeadline(e) \/ LaunchFails(e) \/ ObserveFailed(e) \/ ObserveFails(e)
    <3>1. PICK code \in FaultCode : terminal' = [terminal EXCEPT ![e] = code]
      BY <2>1 DEF RecordDeadline, LaunchFails, ObserveFailed, ObserveFails, Fail,
         FaultCode
    <3>2. ~isTerminal(e)
      BY <1>0, <2>0, <2>1, GoroutineFrame, <1>3 DEF GoroutineInv, RecordDeadline,
         LaunchFails, ObserveFailed, ObserveFails, CallOf, Ended
    <3> QED BY <2>0, <3>1, <3>2, OutcomeFails DEF Abstract!ONext
  <2>2. CASE terminal' = terminal
    BY <2>0, <2>2, OutcomeStutters
  <2>3. terminal' = terminal \/ RecordDeadline(e) \/ LaunchFails(e) \/ ObserveFailed(e)
        \/ ObserveFails(e)
    BY <1>3 DEF PortReturns, LaunchAcked, LaunchRetries, ObserveRunning, ObserveAgain,
       EnrollOK, EnrollAgain, LoopHead, Call, StopCancelled, StopCancelledEnroll,
       EnrollTrivially, GoroutineEnds, ExitHealthy, CountFailure, FastFailCancel
  <2> QED BY <2>1, <2>2, <2>3
<1>4. ASSUME SeeParentDone \/ GateFails \/ GateAssembles \/ (\E e \in Entity : Drain(e))
      PROVE  Abstract!ONext \/ UNCHANGED <<outcomeOf, verdictOf>>
  <2>1. main # "done" /\ main' # "done" /\ terminal' = terminal
    BY <1>4 DEF SeeParentDone, GateFails, GateAssembles, Drain, Waited
  <2> QED BY <2>1, OutcomeStutters
<1>5. ASSUME Succeed, GateOpen, main # "done" PROVE Abstract!BecomeReady
  <2>1. outcomeOf' = [e \in Entity |-> IF isTerminal(e) THEN "terminal" ELSE "succeeded"]
    BY <1>0, <1>5 DEF Succeed, MainInv, outcomeOf, isTerminal, CohortCancelled,
       ParentCancelled
  <2>2. Abstract!Decide("succeeded", "ready")
    BY <1>5, <2>1, OutcomeDecides DEF Succeed
  <2>3. Abstract!Left \in viableSets
    BY <1>0, <1>5, PendingOutcome DEF GateOpen, viableSets, Healthy
  <2> QED BY <2>2, <2>3 DEF Abstract!BecomeReady
<1>6. ASSUME NEW p \in Phase, NEW code \in FaultCode, FailTheRest(p, code), GateOpen,
             main # "done", main' = "done", ready' = ready
      PROVE  Abstract!AssemblyFails
  <2>1. outcomeOf' = [e \in Entity |-> IF isTerminal(e) THEN "terminal" ELSE "terminal"]
    BY <1>0, <1>6 DEF FailTheRest, outcomeOf, isTerminal, FaultCode
  <2>2. Abstract!Decide("terminal", "failed")
    BY <1>0, <1>6, <2>1, OutcomeDecides DEF MainInv
  <2>3. Abstract!Left \in viableSets
    BY <1>0, <1>6, PendingOutcome DEF GateOpen, viableSets, Healthy
  <2> QED BY <2>2, <2>3 DEF Abstract!AssemblyFails
<1>7. ASSUME GateDisallows PROVE Abstract!ONext
  <2>1. GateOpen
    BY <1>7, GatePassed DEF GateDisallows
  <2>2. "CohortBarrier" \in Phase /\ "AssemblyDisallowed" \in FaultCode
    BY DEF Phase, FaultCode
  <2> QED BY <1>6, <1>7, <2>1, <2>2 DEF GateDisallows, Waited, Abstract!ONext
<1>8. ASSUME AssembleFails PROVE Abstract!ONext
  <2>1. GateOpen
    BY <1>0, <1>8 DEF AssembleFails, MainInv
  <2>2. "CohortAssembly" \in Phase /\ "AssemblyFailed" \in FaultCode
    BY DEF Phase, FaultCode
  <2> QED BY <1>6, <1>8, <2>1, <2>2 DEF AssembleFails, Abstract!ONext
<1>9. ASSUME GateReady PROVE Abstract!ONext
  BY <1>5, <1>9, GatePassed DEF GateReady, Waited, Abstract!ONext
<1>10. ASSUME AssembleOK PROVE Abstract!ONext
  BY <1>0, <1>5, <1>10 DEF AssembleOK, MainInv, Abstract!ONext
<1>11. ASSUME LabelParentCancelled PROVE Abstract!ONext
  <2>1. parentErr # "none" /\ main # "done" /\ main' = "done" /\ ~ready /\ ready' = ready
    BY <1>0, <1>11 DEF LabelParentCancelled, MainInv
  <2>2. outcomeOf' = [e \in Entity |->
                       IF isTerminal(e) THEN "terminal" ELSE "parentCancelled"]
    BY <1>0, <1>11, <2>1 DEF LabelParentCancelled, setParentCancelled, MainInv,
       outcomeOf, isTerminal, CohortCancelled, ParentCancelled
  <2> QED BY <2>1, <2>2, OutcomeDecides DEF Abstract!ParentCancels, Abstract!ONext
<1>12. ASSUME LabelGateFailed PROVE Abstract!ONext
  <2>1. culprit.id # NoEntity /\ main # "done" /\ main' = "done" /\ ~ready /\ ready' = ready
    BY <1>0, <1>12 DEF LabelGateFailed, MainInv
  <2>2. outcomeOf' = [e \in Entity |->
                       IF isTerminal(e) THEN "terminal" ELSE "cohortCancelled"]
    BY <1>0, <1>12, <2>1 DEF LabelGateFailed, setCohortCancelled, outcomeOf,
       isTerminal, CohortCancelled
  <2>3. Abstract!Decide("cohortCancelled", "failed")
    BY <2>1, <2>2, OutcomeDecides
  <2>4. Cardinality(Healthy) < minViable /\ Cardinality(Healthy) \in Nat
    BY <2>1, MemberSets DEF IInv, CulpritInv, Healthy
  <2>5. Abstract!Left \notin viableSets
    BY <1>0, <2>1, <2>4, PendingOutcome, QuorumType DEF viableSets
  <2> QED BY <2>3, <2>5 DEF Abstract!FastFail, Abstract!ONext
<1>13. CASE UNCHANGED vars
  BY <1>13 DEF vars, outcomeOf, verdictOf, isTerminal, CohortCancelled, ParentCancelled
<1> QED BY <1>1, <1>2, <1>3, <1>4, <1>7, <1>8, <1>9, <1>10, <1>11, <1>12,
       <1>13 DEF Next, Main

\* Reconcile keeps the promise of CohortOutcome: members fail one by one, and
\* then the rest of the cohort succeeds together, with enough members, or is
\* failed fast together, without, or is cancelled or fails together.
THEOREM Implementation == Spec => ImplementsOutcome
<1>1. Init => Abstract!OInit
  <2> SUFFICES ASSUME Init PROVE Abstract!OInit
    OBVIOUS
  <2>1. outcomeOf = [e \in Entity |-> "pending"]
    BY DEF Init, outcomeOf, isTerminal, CohortCancelled, ParentCancelled, NoCulprit
  <2> QED BY <2>1 DEF Init, verdictOf, Abstract!OInit
<1>2. IInv /\ IInv' /\ [Next]_vars => [Abstract!ONext]_(Abstract!ovars)
  BY OutcomeStep DEF Abstract!ovars
<1> QED BY <1>1, <1>2, Invariance, PTL DEF Spec, ImplementsOutcome, Abstract!OSpec
=============================================================================
