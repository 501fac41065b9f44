------------------------------ MODULE AwsClient ------------------------------
(***************************************************************************)
(* RunInstance of internal/substrate/aws.Client: the loop callWithRetry    *)
(* around limiter.Acquire and ec2.RunInstances, with the Classifier's      *)
(* table.  The callers all launch one generation of one entity: the        *)
(* goroutine of a Reconcile, its retries, and those of other processes     *)
(* slurmctld or an operator started for the same node.  StartInstance,     *)
(* StopInstance and TerminateInstance run the same loop around their call. *)
(*                                                                         *)
(* EC2 answers, or stays silent and acts on the request at once, later or  *)
(* never.  The limiter's pacing is left out but for the count of Backoff.  *)
(***************************************************************************)
EXTENDS Integers, FiniteSets, Functions, FaultClasses

CONSTANTS
  Caller,               \* calls of RunInstance for the entity
  maxAmbiguousRetries,
  maxThrottleRetries

ASSUME RetryAssumption == maxAmbiguousRetries \in Nat /\ maxThrottleRetries \in Nat

\* The errors callWithRetry meets: the context's, a transport error of the SDK,
\* and an API error of each part of awsFaultTable ("Denied" is also any code the
\* table does not have, as for a token used again with other parameters).
CtxErr == {"Canceled", "DeadlineExceeded"}
ApiErr == {"NotFound", "Throttling", "InsufficientCapacity", "Denied"}

awsFaultTable ==
  [NotFound |-> "RetryableConsistency", Throttling |-> "Throttle",
   InsufficientCapacity |-> "CapacityExhausted", Denied |-> "Terminal"]

\* Classifier.Classify.  The client's own FaultError is no smithy.APIError and
\* has no Unwrap: it comes out as the last case, UnknownError.
Classify(err) ==
  IF err \in {"DeadlineExceeded", "Transport"} THEN "Ambiguous"
  ELSE IF err \in DOMAIN awsFaultTable THEN awsFaultTable[err]
  ELSE "Terminal"

VARIABLES
  pc,               \* "acquire", "call" (RunInstances is under way) or "returned"
  throttleAttempt,
  ambiguousAttempt,
  ctxErr,           \* Err() of the caller's ctx
  surfaced,         \* "ok", or the class of the FaultError returned
  backoffs,         \* how often Backoff was called on the shared limiter
  instances,        \* the ClientTokens EC2 has an instance for
  late,             \* the ClientTokens of unanswered requests EC2 may yet act on
  calls             \* history: the RunInstances requests of each caller

loop == <<throttleAttempt, ambiguousAttempt>>
ec2  == <<instances, late>>
clientVars == <<pc, loop, ctxErr, surfaced, backoffs, ec2, calls>>

ClientInit ==
  /\ pc = [c \in Caller |-> "acquire"]
  /\ throttleAttempt = [c \in Caller |-> 0]
  /\ ambiguousAttempt = [c \in Caller |-> 0]
  /\ ctxErr = [c \in Caller |-> "none"]
  /\ surfaced = [c \in Caller |-> "none"]
  /\ backoffs = 0 /\ instances = {} /\ late = {}
  /\ calls = [c \in Caller |-> 0]

\* Mutant: a token of its own for each attempt.
freshToken(c) == <<c, calls[c]>>

\* cohort.Token(cluster, entity, generation), put into the input before the
\* loop: every attempt of every caller sends the same one.
clientToken(c) == <<"q0">>

-----------------------------------------------------------------------------
\* The caller's phase budget runs out, or its cohort is cancelled.
CtxEnds(c) ==
  /\ pc[c] # "returned" /\ ctxErr[c] = "none"
  /\ \E e \in CtxErr : ctxErr' = [ctxErr EXCEPT ![c] = e]
  /\ UNCHANGED <<pc, loop, surfaced, backoffs, ec2, calls>>

Surface(c, class) ==
  /\ surfaced' = [surfaced EXCEPT ![c] = class]
  /\ pc' = [pc EXCEPT ![c] = "returned"]

TryAgain(c) ==
  /\ pc' = [pc EXCEPT ![c] = "acquire"]
  /\ UNCHANGED surfaced

\* Mutant: the bound is checked against the attempt before this one.
OnThrottleOnceMore(c) ==
  /\ backoffs' = backoffs + 1
  /\ throttleAttempt' = [throttleAttempt EXCEPT ![c] = @ + 1]
  /\ ambiguousAttempt' = [ambiguousAttempt EXCEPT ![c] = 0]
  /\ IF throttleAttempt[c] > maxThrottleRetries THEN Surface(c, "Throttle") ELSE TryAgain(c)

\* A throttle answer slows the whole account before anything else is looked at.
OnThrottle(c) ==
  /\ backoffs' = backoffs + 1
  /\ throttleAttempt' = [throttleAttempt EXCEPT ![c] = @ + 1]
  /\ ambiguousAttempt' = [ambiguousAttempt EXCEPT ![c] = 0]
  /\ \/ throttleAttempt[c] >= maxThrottleRetries /\ Surface(c, "Throttle")
     \/ throttleAttempt[c] < maxThrottleRetries /\ ctxErr[c] # "none" /\ Surface(c, "Terminal")
     \/ throttleAttempt[c] < maxThrottleRetries /\ ctxErr[c] = "none" /\ TryAgain(c)

\* Mutant: only requests that went out are counted.
OnAmbiguousSentOnly(c) ==
  /\ UNCHANGED <<throttleAttempt, backoffs>>
  /\ \/ /\ ambiguousAttempt[c] >= maxAmbiguousRetries
        /\ Surface(c, "Terminal") /\ UNCHANGED ambiguousAttempt
     \/ /\ ambiguousAttempt[c] < maxAmbiguousRetries
        /\ ambiguousAttempt' = [ambiguousAttempt EXCEPT ![c] = IF pc[c] = "call" THEN @ + 1 ELSE @]
        /\ TryAgain(c)

\* The same call again, with the same token, until the retries are used up.
OnAmbiguous(c) ==
  /\ UNCHANGED <<throttleAttempt, backoffs>>
  /\ \/ /\ ambiguousAttempt[c] >= maxAmbiguousRetries
        /\ Surface(c, "Terminal") /\ UNCHANGED ambiguousAttempt
     \/ /\ ambiguousAttempt[c] < maxAmbiguousRetries
        /\ ambiguousAttempt' = [ambiguousAttempt EXCEPT ![c] = @ + 1] /\ TryAgain(c)

\* The rest of the loop's body, after fn has returned err.
Handle(c, err) ==
  \/ Classify(err) = "Throttle" /\ OnThrottle(c)
  \/ Classify(err) = "Ambiguous" /\ OnAmbiguous(c)
  \/ /\ Classify(err) \notin {"Throttle", "Ambiguous"}
     /\ Surface(c, Classify(err)) /\ UNCHANGED <<loop, backoffs>>

\* The limiter grants a permit and the request goes out.
Send(c) ==
  /\ pc[c] = "acquire" /\ ctxErr[c] = "none"
  /\ pc' = [pc EXCEPT ![c] = "call"]
  /\ calls' = [calls EXCEPT ![c] = @ + 1]
  /\ UNCHANGED <<loop, ctxErr, surfaced, backoffs, ec2>>

\* With its ctx done, Acquire gives up, or it had a permit at hand (it does not
\* look at ctx then) and the SDK does not send; either way the error is ctx's.
NotSent(c) ==
  /\ pc[c] = "acquire" /\ ctxErr[c] # "none"
  /\ Handle(c, ctxErr[c])
  /\ UNCHANGED <<ctxErr, ec2, calls>>

\* EC2 creates the instance, or finds the one the token created before.
AnswerOK(c) ==
  /\ pc[c] = "call"
  /\ instances' = instances \cup {clientToken(c)}
  /\ Surface(c, "ok")
  /\ UNCHANGED <<loop, ctxErr, backoffs, late, calls>>

\* EC2 answers without an error and without an instance (EmptyRunInstancesResponse).
AnswerEmpty(c) ==
  /\ pc[c] = "call"
  /\ Surface(c, "Terminal")
  /\ UNCHANGED <<loop, ctxErr, backoffs, ec2, calls>>

\* EC2 refuses.  It has no need of capacity for a token that has its instance.
AnswerError(c) ==
  /\ pc[c] = "call"
  /\ \E err \in ApiErr :
       /\ err = "InsufficientCapacity" => clientToken(c) \notin instances
       /\ Handle(c, err)
  /\ UNCHANGED <<ctxErr, ec2, calls>>

\* No answer: a transport error, or ctx is done while the request is out.
NoAnswer(c) ==
  /\ pc[c] = "call"
  /\ late' = late \cup {clientToken(c)}
  /\ Handle(c, IF ctxErr[c] = "none" THEN "Transport" ELSE ctxErr[c])
  /\ UNCHANGED <<ctxErr, instances, calls>>

\* EC2 acts on a request whose answer nobody waits for any more.
Lands ==
  /\ \E t \in late \ instances : instances' = instances \cup {t}
  /\ UNCHANGED <<pc, loop, ctxErr, surfaced, backoffs, late, calls>>

Step(c) ==
  \/ Send(c) \/ NotSent(c)
  \/ AnswerOK(c) \/ AnswerEmpty(c) \/ AnswerError(c) \/ NoAnswer(c)

ClientNext == Lands \/ \E c \in Caller : CtxEnds(c) \/ Step(c)

\* The limiter grants permits in the end, and the SDK returns.
ClientFairness == \A c \in Caller : WF_clientVars(Step(c))

ClientSpec == ClientInit /\ [][ClientNext]_clientVars
FairClientSpec == ClientSpec /\ ClientFairness

-----------------------------------------------------------------------------
\* surfaced is never Ambiguous, what ports.go asks of the provider layer.
ClientTypeOK ==
  /\ pc \in [Caller -> {"acquire", "call", "returned"}]
  /\ throttleAttempt \in [Caller -> 0..(maxThrottleRetries + 1)]
  /\ ambiguousAttempt \in [Caller -> 0..maxAmbiguousRetries]
  /\ ctxErr \in [Caller -> CtxErr \cup {"none"}]
  /\ surfaced \in [Caller -> (FaultClass \ {"Ambiguous"}) \cup {"none", "ok"}]
  /\ backoffs \in Nat
  /\ calls \in [Caller -> Nat]

\* One RunInstance costs the account at most this many requests: every throttle
\* answer gives the call its ambiguous retries back.
callBound == (maxThrottleRetries + 1) * (maxAmbiguousRetries + 1)
CallBound == \A c \in Caller : calls[c] <= callBound

\* RunInstance returns, cancelled or not.
ClientReturns == \A c \in Caller : <>(pc[c] = "returned")

\* Together the calls are one launch, and their answers are true of it.
Abstract == INSTANCE LaunchOnce
  WITH Failure <- FaultClass \ {"Ambiguous"}, exists <- (instances # {}), answer <- surfaced

ImplementsLaunchOnce == Abstract!LSpec

-----------------------------------------------------------------------------
(* What a comment says and the code does not keep.                          *)

\* What Reconciler.Classifier makes of the FaultError, as Actuator.Launch hands
\* it on (wrapped once more by translateFaultErr).
Reclassified(c) == Classify("FaultError")

\* client.go:47, the client surfaces "FaultCapacityExhausted" for the reconciler,
\* which "advance[s] the fallback chain" (state.go:66); actuator.go:380, "the
\* reconciler will re-classify".
CapacityReachesReconciler ==
  \A c \in Caller : surfaced[c] = "CapacityExhausted" => Reclassified(c) = "CapacityExhausted"
=============================================================================
