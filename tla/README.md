# Verification of queuezero

TLA+ modules of queuezero, the TLC configurations that check them on small
instances, and theorems about them that TLAPS has checked.

queuezero resumes, suspends and sweeps the cloud nodes of a Slurm cluster.
slurmctld starts `q0-resume` and `q0-suspend` with a hostlist; operators start
`q0 apply` and `q0 sweep`. Each is a process that lives for one invocation and
keeps nothing in memory: what lasts is in EC2 (instances and their tags), in S3
(manifests, script-sets, tofu's state), in files (holds, records, rendered
configurations) and in slurmctld. Every source path below is relative to `src/`.

- [1 The system](#1-the-system): components, state, what is hard in each
- [2 The modules](#2-the-modules): which module models what, and how
- [3 The runs](#3-the-runs): what TLC checks, with which bounds
- [4 Fairness](#4-fairness)
- [5 The proofs](#5-the-proofs): theorems, assumptions, inductive invariants
- [6 Where documentation and code disagree](#6-where-documentation-and-code-disagree)
- [7 What is not modelled](#7-what-is-not-modelled)
- [8 Plan](#8-plan)

## 1 The system

    slurmctld ──hostlist──▶ q0-resume ─▶ slurm.Bridge.Resume
                               │  admission ─▶ asbb service      holds (files)
                               ▼
                        cohort.Reconciler ── one goroutine per member
                          │ Launch/Observe/Terminate   │ IsEnrolled   │ Assemble
                          ▼                            ▼              ▼
                   aws.Actuator/Observer         mpi.Enroller   mpi.Assembler ─▶ S3
                          │                            │
                   aws.Client ── Limiter         tags of the instance
                          ▼                            ▲
                         EC2 ── node: shim ─▶ bootstrap.sh ─▶ q0-spored
    slurmctld ──hostlist──▶ q0-suspend ─▶ Bridge.Suspend ─▶ Actuator, holds, asbb
    operator ─▶ q0 sweep ─▶ Bridge.Sweep ─▶ Observer, Actuator, holds, asbb
    operator ─▶ q0 preflight ─▶ preflight.Run ─▶ Client, truffleck
    operator ─▶ q0 apply ─▶ spec.LoadCluster ─▶ tofu.Generate, EnsureBackend, Executor ─▶ tofu
                   └─▶ Q0_* environment (mount spec, profile, buckets) of q0-resume

| component | state | operations | interacts with | what is hard | what makes it correct |
|---|---|---|---|---|---|
| `internal/cohort` Reconciler | one tracker per member; failedCount and culprit under a mutex; phase, fast-fail and caller's contexts | Reconcile, reconcileEntity, waitRunning, waitEnrolled, Drain | Actuator, Observer, Enroller, Assembler ports; contexts as shared state | members fail at the same time; fast-fail races the caller's context; a context ends between a check and its use | one outcome per Record, with its true cause; no member assembled that is not verified; who gives up at the barrier is drained; it returns, unless a drain never answers |
| `internal/cohort` doLaunch | rung, attempts, consistency counter | launch, retry, next rung | Actuator.Launch, ExponentialBackoff | counters over several rungs, deadline inside a sleep | attempts tell what happened; retries are bounded |
| `internal/substrate/aws` Client, Classifier | retry counters of one call | callWithRetry around each EC2 request | Limiter, EC2 | an answer is lost though EC2 acted; nested retries | one instance per entity and generation; bounded requests; it returns |
| `internal/substrate` Limiter | tokens, rate, pause, last refill, under a mutex | Acquire, Backoff | all callers of an account | callers report throttles out of order; boundaries of pause and cooldown | never more than bucket and rate; pauses and cooldown are kept |
| `internal/substrate/aws` Actuator, Observer | none: instances are found by tag | Launch, Stop, Terminate, Observe, ReadReadiness | Client | EC2 describes late, and describes what is gone | it acts on the instance that is meant |
| `internal/slurm` Resume, Suspend, Sweep | hold files; slurmctld's node states | the three programs | all of the above | several processes at a node; each dies at any step | no node twice, none left running, none swept that is in use |
| `internal/slurm` admission, holds; `internal/asbb` | holds in files, transactions in the service | Admit, Put, Get, Reconcile, Delete | budget service over HTTP | crash between the service's step and the file's | what runs was admitted, has a hold, is charged once |
| `internal/recordstore` | one file per node | PutOutcome, Get, List | Resume, `q0 explain` | a disk that fails in the middle | a node's state has a record that explains it |
| `internal/mpi` | manifests in S3 | Assemble, IsEnrolled | Reconciler, S3, ReadReadiness | cohorts share keys; order of the members | the manifest under a cohort's key is its own; the same members give the same |
| `internal/spored`, `cmd/q0-spored` | counter of stable passes; the tags | probe, report, sleep | mounts, slurmd, EC2 tags | tags outlive what they say; writes fail | ready was verified, and is not stale for long; tags converge |
| `internal/bootstrap` | sentinel and mounts file on the node | shim, bootstrap.sh, Pack | S3, q0-spored | a reboot or failure at each step | run once, completely, before anything relies on it |
| `internal/spec` | none | LoadPartitions, LoadCluster, ResolveForNode | Resume, apply | two prefixes match one name; many optional parts that must agree | the right partition; no valid cluster.yaml that cannot be planned |
| `internal/tofu` | six rendered files in a workdir; state bucket, lock table, tofu's state | Generate, WriteFiles, EnsureBackend, Init, Plan, Apply, Output | tofu binary, S3, DynamoDB | two first applies at a time; an interruption at any step; files left by earlier commands; the lock | what is applied is one rendering; a file system survives edits that leave its entry, and what replaces it, alone; a retry converges |
| `internal/preflight`, `truffleck` | none | Run, ServiceQuotaOK | EC2, Service Quotas | a question without an answer; rungs in zones that are not there | it passes exactly what can be served |
| `cmd/q0`, `internal/asbx` | the `Q0_*` environment | wiring, `apply`, `preflight`, the printed environment | all | a cluster.yaml that is not the one applied; which ports are wired | paths and file systems stay paired; what is wired together agrees (the two Classifiers) |
| `internal/tags`, `internal/capture` | none | none: constants, and a package without code | all | none | |

## 2 The modules

| module | models | composed with |
|---|---|---|
| `Cohort` | Reconciler: Reconcile, reconcileEntity, waitRunning, waitEnrolled, Drain | refines `CohortOutcome` |
| `CohortOutcome` | abstract: members fail one by one, the rest is decided together, once | |
| `EntityLaunch` | doLaunch, advanceRung | refines the launch phase of a member of `Cohort` |
| `AwsClient` | callWithRetry around RunInstances, Classifier | refines `LaunchOnce` |
| `LaunchOnce` | abstract: there is one instance, and what callers are told is true | |
| `Limiter` | tryAcquire, Backoff, refill, applyRecovery | |
| `SpendHolds` | Resume, Suspend, Sweep over holds and the budget service | |
| `NodeFleet` | Resume, Suspend, Sweep over instances found by tag | |
| `NodeReadiness` | shim, bootstrap.sh, q0-spored, ReadReadiness | |
| `ResumeOutcome` | ResolveForNode, buildCohort, records, node states | |
| `PeerAssembly` | Assembler over one bucket | |
| `Foundation` | validation of cluster.yaml, the six templates as blocks that declare and use, the printed mount spec: operators | used by `StaticApply` |
| `Preflight` | preflight.Run, ServiceQuotaOK: operators | used by `StaticApply` |
| `StaticApply` | operators who run `q0 apply` in all its forms and `q0 preflight`, in checkouts of their own, against one backend | composes `Foundation` and `Preflight` |
| `FaultClasses` | the fault classes EC2's answers are mapped to, as constants | extended by `AwsClient` and `EntityLaunch` |
| `CohortProofs`, `SpendHoldsProofs`, `NodeFleetProofs`, `NodeReadinessProofs`, `ResumeOutcomeProofs`, `PeerAssemblyProofs` | theorems | each extends the module it is named for |
| `LaunchPathProofs` | theorems about the three loops of a launch, one after the other | extends `Limiter`, `AwsClient` and `EntityLaunch`, which have no variable in common |
| `StaticApplyProofs` | theorems about what is rendered, applied and reported | extends `StaticApply`, and with it `Foundation` and `Preflight` |
| `MC...` | constants and symmetry for TLC | |

Variables have the names of the code's fields where it has them; a comment at
each declaration says what it is. Variables marked *history* are not in the code:
they remember what a property has to speak of, and no guard reads them.

**Cohort.** A member's goroutine is `pc[e]`: it walks `launch`, `wait`
(waitRunning) and `enroll` (waitEnrolled), each a loop of a *call* to a port, the
port's answer, and the loop's head where the context is looked at; then it exits,
counts its failure under `mu` and, if it is the one that makes the barrier
unsatisfiable, writes `culprit` and cancels the others in a further step
(`FastFailCancel`), as lines 195-213 of reconcile.go do. Contexts are their
`Err()`: `ctxErr[e]` of the member's phase, `ffErr` of the fast-fail context,
`parentErr` of the caller's. Cancellation reaches the contexts below at once,
as in package context, and goroutines later. The caller's deadline and the
phase's own give the code the same error; the model tells them apart (`Deadline`,
`ParentDeadline`) to state properties but no guard of a member's does. After `eg.Wait` the
calling goroutine is `main`: caller's context seen, gate, drains one by one,
labels, Assemble. After an Assemble that fails, or one that is not allowed, all
members are failed and nobody is drained, as in lines 305-350. A port answers whatever its AWS implementation can, on a
cancelled context too; `instance[e]` is the provider's truth and may die at any
time. `Wirings` says which of Enroller and Assembler a Reconciler is given
(wire.go always gives an Enroller, and an Assembler where a manifest bucket is
configured; without an Enroller is what the constructors allow), and `wiring` is chosen
in `Init`.

**EntityLaunch** is the launch loop in full: fault classes as constants, the real
bound of consistency retries, the chain as a sequence of rungs, `advanceRung`
looking for the rung by value. `Cohort` has the loop by its outcomes only
(LaunchAcked, LaunchRetries, LaunchFails); `ImplementsLaunchPhase` maps one
(`at` and `phaseErr`) to the other (`pc` and `ctxErr`), so that `Cohort` says nothing `EntityLaunch` can break.

**AwsClient**: each caller is `acquire` (in limiter.Acquire), `call` (RunInstances
under way) or `returned`. EC2 may answer with any error of the Classifier's
table, or without an instance (`AnswerEmpty`), or stay silent: then it acted, will act later (`Lands`) or never does. All callers use
the ClientToken of one entity and generation (cohort/token.go).

**Limiter**: each method is under the mutex and so one step. `tokens` are
fractions of a permit in integers, time is ticks.

**SpendHolds, NodeFleet, ResumeOutcome, PeerAssembly**: a `Program` is an
invocation, a process of its own whose `pc` walks the calls of Bridge.Resume,
Suspend or Sweep in the code's order; all share what lasts. slurmctld resumes a
node that is suspended and suspends one that is not. Whether two invocations
for one node may be under way at a time (a slow one past Slurm's timeout, or an
operator's sweep) is said by the deployment, in `overlap` of ResumeOutcome and
PeerAssembly and in the faults of the other two. `dropped` of ResumeOutcome remembers
whose scontrol update failed.

A member's address in PeerAssembly is what the Enroller says as its detail
(reconcile.go:542). `enroller` of the deployment says which: "tags" is the one that
is wired, whose detail is "all probes ok" of every node that is ready; "address" is
one that says the address of the instance, as that of the tests in `internal/mpi`.

**NodeReadiness**: instances of one node, with the shim's and bootstrap.sh's
steps, q0-spored's loop, and a reader that finds the instance by the node's
name as ReadReadiness does. Time is in intervals of the reporter. bootstrap.sh
mounts with `hard`, and the probe's stat has no context: a mount whose server is
gone is `hung`, and a reporter that probes it is `stuck` until the server answers
again or somebody unmounts. `controller` of the deployment says whether the mounts
file names one, without which bootstrap.sh starts no slurmd.

**Foundation, StaticApply.** A block of HCL is the addresses it declares and the
addresses it uses, so that "the configuration can be planned" is `Used \subseteq
Declared`; attributes are left out, except what tofu can only change by replacing
a file system: the creation token of an EFS one; the deployment type, the VPC and first
subnet (`place`: they give subnet_ids and the security group) and a smaller capacity of a Lustre one
(generate.go:684, 699-702; `Kept`). An operator's command is a process: load, render, the six writes,
EnsureBackend's two looks and two creations, init, plan, apply (tofu holds the
lock from `ApplyStarts` on), output. `fs` is what tofu's state knows of file
systems, each with the incarnation it is; `config` is the rendering of the last
apply that got to its end. cluster.yaml is edited at any time.

*Deployments.* What goes wrong depends on where the programs run. In these five
modules and in `StaticApply` `deployment` is chosen in `Init` from `Deployments` and never changes: a
record with the configuration (`warmPool`, `strict`, `configured`...), the kinds
of faults that occur, whether invocations overlap, and bounds. One run then checks
one module in several deployments, and a property that needs a condition states
it in terms of the deployment (`Orderly => ...`). Section 6 shows that
each such condition is needed. Properties without one hold in all.

*Bounds.* Where the code counts without end the bound is in a guard and named:
`Horizon` of Limiter, `MaxAttempts` of EntityLaunch (only a chain that names a
rung twice gets there), `nodes`, `invocations`, `generations`, `launches`,
`instances`, `stops`, `edits`, `faults`, `others` of a deployment.

## 3 The runs

| run | checks | instance | why that is enough |
|---|---|---|---|
| `CohortMPI` | `ExactlyOneOutcome`, `AssembleComplete`, `CulpritIsAnotherFailure`, `ImplementsOutcome`, `Termination` | two members, all needed, Enroller and Assembler, both causes | a failure, its victim, and every race of both with the caller |
| `CohortPartial` | `FastFailOnlyWhenDoomed`, `ParentLabelHasCause`, `DrainExact` | three members, two needed; an Assembler without an Enroller, or the reverse | one failure is survived, the second dooms the cohort while a third is under way; the first wiring is the only way to the defensive branch at reconcile.go:311 |
| `EntityLaunch` | `AttemptsFollowChain`, `LagIsOfOneRung`, `ImplementsLaunchPhase`, `LaunchReturns` | chains of 0 to 3 rungs, one names a rung twice; 5 consistency retries | the bound of the code, and an inner rung to advance from and to |
| `AwsClient` | `CallBound`, `ImplementsLaunchOnce`, `ClientReturns` | two callers, 2 ambiguous and 1 throttle retries | both kinds of retries nest and restart each other; the proofs are for any number |
| `Limiter` | `RateKept`, `PauseKept`, `CooldownKept` | two callers, bucket of two permits, two lengths of pause, 4 ticks | a pause, its cooldown and a recovery fit, with a shorter pause reported after a longer one |
| `SpendHolds` | `RunHasHold`, `ChargedOnce`, `EveryRunCharged`, `DeletedOnlyWhenCharged` | four invocations; four deployments: all faults; overlap; crashes and lost requests over two nodes; no fault over two nodes | resume, suspend, resume, suspend of one node; a fleet of two with each suspended on its own |
| `NodeFleet` | `OneLivePerGeneration`, `SuspendedIsGone`, `SweepSparesCurrent` | three instances; three deployments: everything at once for one node; two nodes in good order, without and with a warm pool | an orphan, the current instance and a repeated launch |
| `NodeReadiness` | `ReadyWasVerified`, `StaleIsShort`, `SensorConverges` | two stable passes, a keepalive of 3; four deployments: lost tag requests; stops, with mounts that hang; no controller; a second instance after a first that is still described | slow and fast waits differ, a stop meets the slow wait, and a mount hangs before, in and after a probe |
| `ResumeOutcome` | `StateIsExplained`, `FailedLeaveCF` | two nodes, three or two invocations, two partitions of which one is collective; four deployments: crashes; crashes and failed updates; failed records; overlap and failed updates | a node resumed again after a resume that died or failed half way, or while it is still at it |
| `PeerAssembly` | `OwnManifest`, `ReissueIsIdentical` | names 1 to 4, two processes; four deployments: two cohorts at a time, with the Enroller that is wired; nodes launched again, with one that says addresses; the same with requests that land late; cohorts that overlap | two disjoint cohorts, and a repeated one in any order of its hostlist |
| `StaticApply` | `RenderedResolves`, `AppliedIsOneRendering`, `StateDirIsProvisioned`, `PreflightExact`, `EnvPairsPathWithItsFileSystem`, `EntryKeepsItsFileSystem`, `ApplyConverges` | two zones; four deployments: every cluster.yaml of nine networks, eight controllers and 31 storage lists, under three settings of the flags, applied from nothing; two operators and one fault; one operator, two edits, one fault and one other command; preflights of every region of two zones | each combination of the templates' conditions occurs, valid or not; a race of two first applies; an entry that is moved, kept, or dropped by an edit, and a Lustre one that grows, shrinks or changes network, before or after an apply that failed |
| `ClaimCapacityReachesReconciler` | `CapacityReachesReconciler`, violated | one caller, the code's bounds | one call is enough; see below |

Each property's comment in its module says what it means and which code it is
about. Deadlock checking is off in all runs: every program modelled ends, and so
does each instance when its bounds are used up. Symmetry (`SYMMETRY`) is used
over members, callers, nodes, invocations and instances, which nothing but their
identity tells apart, and only in runs without liveness.

`ClaimCapacityReachesReconciler`: RunInstances answers InsufficientInstanceCapacity;
callWithRetry classifies it as CapacityExhausted and returns its own `FaultError`;
the reconciler's Classifier looks for a `smithy.APIError` in it, finds none, as
`FaultError` has no `Unwrap`, and makes a terminal UnknownError of it. doLaunch then
gives up at the first rung: the approved fallback chain is never walked.
`EntityLaunch` shows that doLaunch does walk it when it is told CapacityExhausted.

No run checks that variables have their types: where that says something it is
part of a proved invariant (section 5), and the `TypeOK` of a module may be added to its
configuration.

## 4 Fairness

- `Cohort!Fairness`: weak fairness of the phase timers (`context.WithTimeout`
  fires), of answers of the ports that are called with a context that ends (Launch,
  Observe and IsEnrolled with the phase's, Assemble with its own: they return when it
  is done), of the loops' heads, of the end
  of the goroutines and of the caller's: runnable goroutines run. The caller's
  context need not end, no port need ever say yes, instances need not die.
  Not of Terminate in a drain: reconcile.go:236 and 273 call it with
  context.Background(), which never ends. `Termination` then says that Reconcile
  returns, or waits for ever in a drain.
- `EntityLaunch!LaunchFairness`: the same for one member.
- `AwsClient!ClientFairness`: weak fairness of a caller's steps: the SDK's request has
  the context, Acquire has a timer. Nothing is assumed of EC2: `Lands` and the
  end of the context are not fair.
- `NodeReadiness!FairSpec`: weak fairness of the clock, of the shim and of
  q0-spored (systemd starts both, timers fire); strong fairness of identifying
  the instance and of writing tags: `SensorConverges` is about a node whose tag
  requests do not fail for ever. A probe that is stuck in a hung mount is not
  forced to return: its step is disabled, and the clock goes on. The premises of the property (the node stays
  up, healthy or not) are not assumed to come true.
- `StaticApply!Fairness`: for each operator, weak fairness of "the command goes on, or
  `q0 apply --approve` is run again while the file at hand is not applied": an
  operator retries, and runs one command at a time in a checkout. And weak fairness
  of what others do: DynamoDB finishes a table; a person takes away a lock nobody
  holds (q0 has no command for it: without, the property fails after one kill).
  Faults and edits are bounded, and not fair.

`Limiter`, `SpendHolds`, `NodeFleet`, `ResumeOutcome` and `PeerAssembly` have safety
properties only, and no fairness.

## 5 The proofs

The proof modules of the state machines go the same way: an invariant `IInv` strong enough to be
inductive; `Init => IInv`; `IInv /\ [Next]_vars => IInv'`, one step per action and
under it the conjuncts the action can disturb; from it the properties.
The theorems hold for every value of the constants that satisfies the named
assumptions of the module.

**CohortProofs** (assumes `EntityAssumption`: a finite, non-empty set of members;
`ConstructorAssumption`: MinViable and NoAssembly as NewSerialCohort,
NewMPICohort and NewPartialCohort set them; `ParentAssumption`: the caller's
context ends cancelled or past its deadline).
Proved: type correctness, `ExactlyOneOutcome`, `CancelHasCause`,
`FastFailOnlyWhenDoomed`, `ReadyIsVerified`, `AssembleComplete`,
`ParentLabelHasCause`, `CulpritIsAnotherFailure`, `DrainExact`, `CulpritIsFirst` and
`ImplementsOutcome`. The invariant has eight parts:

| part | says | needed because |
|---|---|---|
| `TypeOK` | types; failedCount within the number of members | |
| `GoroutineInv` | who has ended is terminal, or enrolled and verified, or the fast-fail context is done | the code sets `enrolled` on a cancelled member (line 403): alone, the gate would not be enough |
| `CauseInv` | a cancelled phase has a cause above it: the fast-fail context; and that one has the culprit or the caller | labels are chosen from culprit and caller after the wait |
| `CulpritInv` | failedCount counts the members that left as failed; without a culprit the barrier is satisfiable; the culprit stands as failed, and fewer than MinViable are left | only then the gate fails exactly when somebody is to blame |
| `MainInv` | all goroutines are done after the wait; each branch of the caller's was entered for its reason; the gate was open | keeps the reason of a branch over its drain |
| `RecordInv` | no Record has two outcomes; labels quote the culprit | |
| `DrainInv` | survivors and drained together are who has to go; a cohort that failed past its barrier (`FailedPastBarrier`) has drained nobody | the drain is one step per member, and lines 305-350 have none |
| `AssembleComplete` | what the Assembler got | |

The refinement is proved step by step: every step maps to a failure of members,
to the one decision, or to a stutter of CohortOutcome.

**LaunchPathProofs**, in three parts.

`Limiter` (assumes `LimiterAssumption`: sizes and times are natural numbers,
0 < minRate <= baseRate). Proved: type correctness, with the bucket within
maxTokens and the rate between minRate and baseRate; `RateKept`,
`PauseKept`, `CooldownKept`; from `Conserved` (what was granted since any mark and
what is left of it in the bucket never exceed the bucket at its fullest and the base rate) and `PauseCovers`
(pauseUntil and lastBackoffEnd are not before the end of any pause asked for). The bound `Horizon` is
any natural number.

`AwsClient` (assumes `RetryAssumption`: both bounds are natural numbers).
Proved: type correctness, `CallBound` and `ImplementsLaunchOnce`,
from `SpentInv` (what a call has sent is bounded by the retries it has used),
`TokenInv` (EC2 has only ever seen the one ClientToken) and `AnswerInv` (a call
has an answer exactly when it has returned).

`EntityLaunch` (assumes `LaunchAssumption`: any chains of rungs, any bounds).
Proved: `AttemptsFollowChain`, `LagIsOfOneRung` and the refinement
`ImplementsLaunchPhase`, by which `Cohort` may have the launch loop by its outcomes.
The invariant adds `Walk`: while doLaunch runs, all attempts so far met exhausted
capacity, the rung at hand is the one after them (`OnChain`), and the retries used
are lags of that rung. That advanceRung finds the first place of a rung rests on the
well-foundedness of the numbers.

**SpendHoldsProofs** (assumes `HoldsAssumption`: any nodes and programs, any set of
deployments). Proved: `RunHasHold`, `ChargedOnce`, `EveryRunCharged` and
`DeletedOnlyWhenCharged`. The invariant is layered as the properties are:

| part | in which deployments | says | needed because |
|---|---|---|---|
| `TypeOK`, `WorkInv`, `RanInv`, `PutInv` | all | a program works on its hostlist; what runs was launched by a program past its admission; the transaction in a file is of a resume that has put it | ties a file to the step its writer is at |
| `ChargeInv`, `TurnInv` | all; no overlap | what is about to be deleted has been charged; what Get returned is still in the file | the file is deleted by the node's name, not by its transaction |
| `CalmInv` | no overlap, disk and describes reliable, one generation; programs die, requests get lost | a hold is put before its launch, and stays until the run is gone | `RunHasHold` survives crashes only so |
| `DownInv`, `EmptyInv` | nothing fails | a node that is down has no hold, and a resume finds none | else its hold would cover one still to be charged |
| `OnceInv`, `OwedInv` | nothing fails | a charged hold is at its deletion or gone for good; what ran has its hold or its charge | `ChargedOnce`, `EveryRunCharged` |

**NodeFleetProofs** (assumes `FleetAssumption`: any nodes, programs, instances and
deployments). Proved in every deployment: `OneLivePerGeneration`, from `OnePerToken`
(EC2 makes one instance of a ClientToken), `Made` (what is described or listed was
made) and `HasNode`. Proved of a fleet in good order (`Orderly`, section 6):
`SuspendedIsGone` and `SweepSparesCurrent`, from `OrderInv`, which has a part for each
thing an invocation relies on between two of its calls:

| part | says | needed because |
|---|---|---|
| `Turns`, `Roles` | one invocation at a time is at a node, and each step is of its kind | what one has seen nobody else changes |
| `Shown`, `Single` | EC2 describes what there is; one instance per node is not gone | the first instance found by tag (actuator.go:376) is the one meant |
| `Pool`, `Booting` | only a warm pool has stopped instances; one that boots has its resume at it | a suspend that resolves something resolves what runs |
| `Off`, `Launching` | nothing runs of a node that is off and left alone, nor before its launch | `Off` is `SuspendedIsGone`, `Launching` carries it through a resume |
| `Acting`, `Sweeping` | what was resolved is still there; what a sweep has listed stays the only instance of its node, of an earlier generation | the snapshot of a sweep (sweep.go:116) is old when it is acted on |

**NodeReadinessProofs** (assumes `ReadinessAssumption`: StableCount and KeepAlive are
positive). Proved, for any number of instances and stops: `ReadyWasVerified` and
`StaleIsShort`. The invariant: `Ordered` (sentinel, configuration, q0-spored: each only after
the one before, whatever step a reboot cut off), `Probed` (a verdict rests on what that pass
saw, and tags on a verdict that did) and, where tag writes succeed, `Short`: how long
the tags have been stale and how long the reporter still sleeps come to a keepalive at most,
and a pass that is about to write has nothing stale. The time a reporter is stuck in a hung
mount is not counted (section 6).

**ResumeOutcomeProofs** (assumes `OutcomeAssumption`: any nodes and partitions, and any
answer of the two tests of ResolveForNode). Proved: `StateIsExplained` and `FailedLeaveCF`.
The invariant holds in every deployment, and says more where resumes of a node do not overlap
(`~overlap`): `Apart` (there, resumes at work share no node), `Told` (each node of a reconciled
cohort has its outcome, and a cancelled one has a culprit among them), `Marked` (the last to set a
node's state gave it up; there, nobody came since), `Owned` (a record is of a program that had the
node), `Kept` (where the disk works, a record is there before a mark), `Recorded` (there, it
is the program's own) and `Through` (the loop leaves no failed node configuring behind, but for
an update that failed or another resume that has the node too).

**PeerAssemblyProofs** (assumes `AssemblyAssumption`: names are numbers, so that they have an
order). Proved: type correctness, `ReissueIsIdentical` and `OwnManifest`. Assemble sorts the members
by name; the model says what a sort is (the arrangement that is in order), so first
that there is one (each member goes where the number of names up to its own says) and no other
(`PlaceOf`: a rank is the number of names before it). A manifest is then a function
of the set of members. The invariant has `Held` (a cohort keeps its nodes until it is done with them) and `Met` (what
the Enroller said of the members still holds while they are wired up), both where resumes of a
node do not overlap, `Issued` and `Stored` (what is in the bucket or on its way was
assembled from members with names of their own) and, where nothing overlaps and no request lands late, `Kept`: nobody
writes over the manifest of a cohort that still has its nodes, as another cohort's
lowest name is another's. An entry's address is what the Enroller says (`Detail`), whichever Enroller
it is; that it is an address is not proved, and is not so (section 6).

**StaticApplyProofs**, in three parts.

`Foundation` (assumes `ZonesAssumption`: the region has a zone): of
every cluster.yaml and every setting of the flags, what validates renders to
a configuration whose references all resolve exactly when the numbers fit
(`ValidRenderingResolves`). One lemma per template says what it declares and what it
uses.

`StaticApply` (assumes `DeploymentAssumption`: versions of cluster.yaml are
such records): for any operators, versions, edits and faults,
`RenderedResolves`, `AppliedIsOneRendering`, `StateDirIsProvisioned`,
`EnvPairsPathWithItsFileSystem` and `EntryKeepsItsFileSystem`. The invariant: `TypeInv`;
`CheckedOut` (no command without a file and flags); `Rendering` (past the load the
source is valid, past the write the workdir holds it and nothing else); `Standing`
(the layer is what `config` says: its file systems, their paths and outputs);
`Tokens` (the address of an EFS file system gives its creation token; a Lustre one has none). `Rendering` holds across
interruptions because every command writes all six files before anything
reads one; `Standing` because tofu has the lock while the state changes. `EntryKeepsItsFileSystem`
asks of a Lustre entry that nothing of what replaces it has been edited (its deployment type, `place`,
a capacity that is not `Fitting`). `StateDirIsProvisioned` says that there is a file system for the
path, not that anything mounts it.

`Preflight`: `PreflightExact`, for any rungs and any region. Run's results are the concatenation of
the answers to its questions, rung by rung. `FlattenRange` says what is in a concatenation (what is in
one of its parts) and `AllAnswered` that Run's has an answer to every question it asks
when none is an error; both are proved from a least counterexample, as the prover has no
induction over sequences. `RungAnswers` then compares the answers about one rung with what the region has,
`ReportIsExact` all of them. `Reported` ties the state to it: a report is Run's, of a cluster.yaml
that validates.

Every invariant and every action property that a run checks is proved, and so are the
three refinements. Only model-checked are the liveness properties `Termination`, `LaunchReturns`, `ClientReturns`,
`SensorConverges` and `ApplyConverges`, as fairness and ENABLED are beyond the prover.
The conditions under which some properties are stated (`Orderly`, `Calm`, a fault that does not
occur) are the same in the theorems as in the runs; the runs show
that there are states that meet them, as a plausible bug (the mutants of PROJECT.json) violates
each property there.

## 6 Where documentation and code disagree

The properties say what the code does. Where the documentation says something
else the model follows the code, and the statement, added as an invariant or
property to the module named, is violated. One is kept as a run
(`ClaimCapacityReachesReconciler`); these are the others. Five are written out in
the modules, next to the properties, and are in no run, as they do not hold:
`NobodyLeftBilling` and `OuterDeadlineIsNotAFailure` (`Cohort`), `HungMountErrors`
(`NodeReadiness`), `DrainedHasFailureRecord` (`ResumeOutcome`) and
`ManifestHasAddresses` (`PeerAssembly`).

*cohort* (module `Cohort`, `EntityLaunch` for the last)

- `internal/cohort/reconcile.go:403` marks a cancelled member as enrolled; line 402
  says "A cancelled or deadline entity is non-terminal but NOT enrolled". The gate
  holds all the same (`ReadyIsVerified`): somebody is to blame then.
- `reconcile.go:475`, `:439`: a Launch or Observe that the cohort's own cancellation
  interrupts returns context.Canceled, which the Classifier
  (`aws/classifier.go:85`) makes terminal; line 370 says "Any Canceled (fast-fail OR
  parent): leave non-terminal". A healthy member is published as failed.
- `reconcile.go:418`: the caller's deadline looks like the phase's own, and members
  fail with PhaseBudgetExceeded; `explain.go:39` counts "an outer deadline on the
  whole reconcile" as ParentCancelled (`OuterDeadlineIsNotAFailure`).
- `reconcile.go:509`: a describe miss after a hit replaces the Observation and its
  ProviderID, so that the drain passes the member over; line 265 says "Drain
  surviving instances so nothing idles and bills". Hence `DrainExact` speaks of
  members whose provider id is known.
- `reconcile.go:268`: members that were launched and then failed are not drained; and
  after an assembly that failed (334-350) or is not allowed (305-320) nobody is drained,
  however healthy. Line 573 says "no member is left Running-but-useless and billing"
  (`NobodyLeftBilling`). Hence `FailedPastBarrier` in `DrainExact`.
- `reconcile.go:236`, `:273`: Drain runs on context.Background(), so that a Terminate
  which never answers keeps Reconcile, past any deadline of its caller's. Hence the second
  alternative of `Termination`.
- `reconcile.go:334`: nothing observes members between enrolment and Assemble;
  `ports.go:66` says "complete and simultaneously-live cohort".
- `reconcile.go:542` overwrites Observation.Address with Readiness.Detail ("all probes
  ok"), which the Assembler publishes as a rank's address (`mpi/assembler.go:96`);
  `entity.go:126`: "private address, once Running" (`ManifestHasAddresses`). The tests'
  Enroller says an address. Hence `Detail` in `OwnManifest`.
- `cohort.go:176`: Budget.CohortBarrier is filled and documented, and read by nobody.
- `reconcile.go:564`: advanceRung finds the rung by value; the chain a, a, b never gets
  to b. `state.go:65`: "NEVER retry in place". `AttemptsFollowChain` asks for the
  order of the chain only where it names a rung once.

*substrate* (`Limiter`, `AwsClient`, `NodeFleet`)

- `ratelimit.go:158`: lastRefill stays behind during a pause, so that the first
  refill after it counts the paused time; line 42: "no tokens accrue while paused, so
  a burst cannot defeat the pause". The burst is within `RateKept`.
- `ratelimit.go:207`: applyRecovery adds the steps of all intervals since the
  cooldown at each call; line 37: "by recoveryStep per recoveryInterval".
- `aws/client.go:332` returns a FaultError of class Throttle once retries are used up;
  line 308: "NEVER surfaces Throttle or Ambiguous".
- `aws/actuator.go:188` takes a describe miss for absence: a just launched
  instance is left running, and its hold is closed (`slurm/suspend.go:55`, "Teardown
  succeeded"); `ports.go:12`: "never StateAbsent".
- `aws/actuator.go:376` takes the first instance with the node's tag, in whatever
  state: a suspend may terminate a dead one again (`suspend.go:12`, "stops or
  terminates each named entity"), a sweep may list an orphan as reaped whose
  instance runs (`sweep.go:47`), and with a warm pool a Stop may find the stopped
  instance of an earlier generation while the one of this generation runs. Hence
  `Orderly` of `NodeFleet`, in which no remnant is described and a warm pool has
  one generation.

- `aws/actuator.go:110` passes the rung's instance type as AMI, and neither subnet nor
  security group, to RunInstances; the comment on the line: "AMI lookup from
  partitions.yaml is caller's job". No caller does. The request's fields are not
  modelled.

*slurm* (`SpendHolds`, `NodeFleet`, `ResumeOutcome`)

- `resume.go:193` puts its hold over the one a failed suspend left; `suspend.go:115`:
  "Leave the local hold in place so a later sweep/retry can try again".
- `resume.go:187` writes one TransactionID into the holds of all nodes, and each node's
  suspend reconciles it; `admission.go:58`: "closes one hold". Charges are therefore
  counted for each transaction and node.
- `resume.go:113`: the hold of a launch that failed stays and is charged for the time
  since; `admission.go:58`: "rate x runtime hours".
- `sweep.go:127` closes the hold of the node, which is that of the run that is up;
  line 120: "Orphan reaped: close its budget hold". Hence `generation = 1` (no
  orphans) in `RunHasHold` and in `Orderly` of `SpendHolds`.
- `suspend.go:119` deletes the hold by the node's name, also one a resume wrote since
  (line 74). Hence `~Overlap` in `DeletedOnlyWhenCharged`.
- `sweep.go:116` decides by an old snapshot and terminates by name; line 59:
  "structurally never reaped". Hence `Orderly` in `SweepSparesCurrent`.
- `resume.go:86` always launches; nothing sets WarmStart or calls Start outside the
  tests, so that a stopped instance is never started; `suspend.go:18`: "a later
  resume is a fast Start".

*nodes, records, peers* (`NodeReadiness`, `ResumeOutcome`, `PeerAssembly`)

- `spored/reporter.go:70`: nobody takes q0:ready back when a node stops or
  hibernates; `aws/actuator.go:204`: "reports q0:ready=false until mounts re-verify".
- `spored/probes.go:22`: os.Stat does not look at the context, and `bootstrap.sh:50` mounts with
  `hard`: on a mount whose server is gone the probe blocks, and what the tags said stays.
  Line 15: "a hung mount errors" (`HungMountErrors`). Hence the time a reporter is stuck is
  not counted in `StaleIsShort`, and `~hung` in `SensorConverges`.
- `slurm/resume.go:126`, `:134`: records and states are written by node, without a look at
  who wrote last. Of two resumes of a node that overlap, one slower than Slurm's timeout,
  each may leave its record under the other's state. `README.md:32`: "Every
  drained entity carries a structured" record (`DrainedHasFailureRecord`). Hence
  `~overlap` in `StateIsExplained`.
- `aws/actuator.go:291` reads the tags of whatever instance is found first;
  `mpi/enroller.go:25`: "spored has confirmed the node is up".
- `bootstrap/shim.go:93` touches the sentinel before bootstrap.sh runs: after one that
  failed the next boot says "already completed; skipping" (line 82).
- `recordstore/store.go:103` stops at the first record it cannot write; line 41:
  "persists every Record".
- `spec/load.go:93`: one walk over a map takes an exact prefix or a shorter one,
  whichever comes first; line 87: "Exact prefix match first".
- `mpi/assembler.go:122` makes the key of the lowest name only, so that another cohort
  with that node writes over it; line 23: "derived from the cohort ID". Hence
  `OwnManifest` speaks of a cohort that is up.

*static substrate* (`Foundation`, `Preflight`, `StaticApply`; what is about policies and other
attributes that are not modelled is from reading)

- `tofu/generate.go:690` makes AZCount mount targets also for a network brought along, over
  its list of subnets; line 25: "Ignored when Network.BYO". Hence `Fits`: with fewer
  subnets than `--az-count`, two by default, and an EFS entry, the plan fails.
- `cmd/q0/main.go:197` applies what tofu plans anew, not the plan of line 188; `executor.go:36`:
  "the mutating step, gated by the caller behind an explicit --approve". What
  was shown need not be what is done.
- `preflight.go:91`, `truffleck.go:78`: DescribeImages and DescribeSubnets answer an unknown id with an
  error, and so does the vCPU lookup of an unknown type: Run ends there; line 69: "It collects ALL
  failures — it never bails on the first". Hence `~r.said.err` in `PreflightExact`.
- `truffleck.go:70` compares the word of partitions.yaml as it is spelled: `odcr` is judged by the
  on-demand quota, `capacity-block` and `Spot` too, while spec/load.go:157 knows them; line 67: "Reserved-capacity rungs
  are not bound by the on-demand/spot vCPU quotas". Hence `PlainlySpelled`.
- `cmd/q0/main.go:279`: "checks quotas, IAM (SimulatePrincipalPolicy) … EFA compatibility"; Run asks
  about neither.
- `tofu/generate.go:537` gives the controller no iam:PassRole, which RunInstances with a
  profile needs, and no s3:PutObject for manifests; line 275 gives the node no
  ec2:CreateTags, which q0-spored's tags need.
- `cmd/q0/main.go:239` takes efs outputs only, so that an fsx-lustre entry never gets into the
  mount spec; its outputs are read by nobody.
- `tofu/generate.go:560-574`: the controller is rendered without user data, so that nothing in the
  layer mounts the file system of the state directory; line 558: "share the durable
  StateDir" (line 601 leaves the mount to a bootstrap script). `StateDirIsProvisioned`
  says no more than its name.
- `cmd/q0/main.go:179-185` pairs the outputs with the entries of the cluster.yaml at hand by
  their position, whichever file was applied, under the comment "read the already-applied
  layer's outputs". Hence the premise of `EnvPairsPathWithItsFileSystem`, that both
  have the same storage.
- `spec/load_cluster.go:82` looks for duplicates among the paths as written: `/a` and `/a/` are
  two; line 119 compares them cleaned.
- `asbx/wire.go:158` does not pass ControllerStandbyHost on, which line 80 documents.
- A tofu that is killed leaves the state's lock, and no command of q0 takes it away: the
  person of `ForceUnlock` does.

## 7 What is not modelled

- `internal/tags`, `internal/capture`: constants, and a package without code.
- `internal/tofu`: attributes of the resources, except what replaces a file system; the
  cluster's name and region, which would replace everything, are never edited in the model;
  the parsing of tofu's output.
- `internal/spec`: YAML parsing, the required fields of partitions.yaml, ContentHash.
- `internal/preflight`: numbers of vCPUs and quota limits (one bit per purchase model).
- `internal/asbx` and `cmd/*`: flags, environment variables and printing, beyond the mount
  spec; `q0 import`, `capture`, `explain` and `bootstrap push`, each a single read, print or upload.
- In what is modelled: messages, wording, timestamps, lengths of backoff;
  `Budget`'s durations (timers may fire at any time); amounts of money (a charge is
  counted); StartInstance, StopInstance and TerminateInstance inside
  `aws.Client`, which run the same loop as RunInstance; DryRun of a sweep; the
  branch of reconcileHold for an Admitter that cannot reconcile, which nothing
  wires; bootstrapper.go and s3publisher.go, single S3 requests.
- EC2, S3, slurmctld, systemd, the budget service and the disk are external:
  modelled from how the code uses them.

## 8 Plan

Done, in this order: `Cohort` with its abstract specification and proofs;
`EntityLaunch` beneath it; `AwsClient` and `Limiter` with proofs; the slurm programs
twice, over money (`SpendHolds`) and over instances (`NodeFleet`); `NodeReadiness`;
`ResumeOutcome` and `PeerAssembly`; the static substrate (`Foundation`, `Preflight`,
`StaticApply`) with proofs; the proofs of `EntityLaunch`, `SpendHolds` and `NodeFleet`, then of
`NodeReadiness`, `ResumeOutcome`, `PeerAssembly` and `Preflight`, and the order of a fleet.

Next, to model:

1. a composition of `EntityLaunch`, `AwsClient` and both Classifiers, in which a
   fault is followed from EC2 to the Record;
2. the pacing of `AwsClient` by `Limiter` (`backoffs` is its interface);
3. the request of a launch (AMI, subnet, profile) against what `StaticApply` provisions.

Next, to prove:

1. of `Preflight`: what an error hides, that is which rungs are reported before Run ends at one;
2. of `SpendHolds` and `NodeFleet`: an abstract life of a node (suspended, launched, running,
   charged) that both implement where they are `Orderly`;
3. of `NodeReadiness`: the safety part of `SensorConverges`, a measure that each pass of a healthy node lowers.
