----------------------------- MODULE NodeFleet ------------------------------
(***************************************************************************)
(* The instances behind the nodes.  internal/substrate/aws.Actuator and    *)
(* Observer name a node and find its instance by tag, taking the first one *)
(* EC2 describes; q0-resume, q0-suspend and q0 sweep (internal/slurm) use  *)
(* them in processes of their own while operators apply new generations of *)
(* the spec.                                                               *)
(*                                                                         *)
(* EC2 is external: it describes an instance some time after it made it    *)
(* and for some time after it is gone, in any order, and answers a request *)
(* with a known ClientToken with the instance it made for it.              *)
(*                                                                         *)
(* A behaviour is of one deployment, which says how it is configured, what *)
(* goes wrong in it and how much happens; what holds in every deployment   *)
(* is stated without a condition.                                          *)
(***************************************************************************)
EXTENDS Integers, FiniteSets

CONSTANTS
  Node, Program, Instance,
  Deployments,       \* the deployments to consider
  None

\* A process dies; a request fails; a describe misses a new instance or still
\* has a terminated one; a rung is short of capacity; a budget runs out early.
FaultKind == {"crash", "net", "lag", "remnant", "capacity", "slow"}

\* warmPool: the partition keeps suspended nodes stopped; overlap: invocations
\* for one node may overlap; the last three bound the nodes, the invocations and
\* the specs.
Deployment ==
  [warmPool : BOOLEAN, overlap : BOOLEAN, faults : SUBSET FaultKind,
   nodes : Nat, invocations : Nat, generations : Nat \ {0}]

ASSUME FleetAssumption ==
  /\ Deployments \subseteq Deployment
  /\ None \notin Node \cup Instance

VARIABLES
  deployment,                \* which one this behaviour is of
  generation, on,            \* the spec in force; slurmctld's view of a node
  state, tag, seen,          \* of an instance: EC2's state, its node and generation, described?
  kind, pc, node, gen,       \* of an invocation; gen is Cfg.Generation
  todo, item, at             \* the stale instances a sweep has left, the one it is at;
                             \* what resolveProviderID found

cloud == <<state, tag, seen>>
proc  == <<kind, pc, node, gen, todo, item, at>>
vars  == <<deployment, generation, on, cloud, proc>>

WarmPool == deployment.warmPool
Overlap  == deployment.overlap
Faults   == deployment.faults

live(i) == state[i] \in {"pending", "running"}

Init ==
  /\ deployment \in Deployments
  /\ generation = 1 /\ on = [n \in Node |-> FALSE]
  /\ state = [i \in Instance |-> "none"] /\ tag = [i \in Instance |-> <<None, 0>>]
  /\ seen = [i \in Instance |-> FALSE]
  /\ kind = [p \in Program |-> "none"] /\ pc = [p \in Program |-> "idle"]
  /\ node = [p \in Program |-> None] /\ gen = [p \in Program |-> 1]
  /\ todo = [p \in Program |-> {}] /\ item = [p \in Program |-> None] /\ at = [p \in Program |-> None]

-----------------------------------------------------------------------------
(* EC2.                                                                     *)

Described == {i \in Instance : seen[i]}

\* Mutant: only what runs is described.
DescribeRunning(n) == {i \in Described : tag[i][1] = n /\ state[i] = "running"}

\* Client.DescribeByTag for a node, whatever the generation and the state.
DescribeByTag(n) == {i \in Described : tag[i][1] = n}

Appear(i) ==
  /\ state[i] # "none" /\ ~seen[i] /\ state[i] # "terminated"
  /\ seen' = [seen EXCEPT ![i] = TRUE]
  /\ UNCHANGED <<generation, on, state, tag, proc>>

Boot(i) ==
  /\ state[i] = "pending"
  /\ state' = [state EXCEPT ![i] = "running"]
  /\ UNCHANGED <<generation, on, tag, seen, proc>>

Forget(i) ==
  /\ state[i] = "terminated" /\ seen[i]
  /\ seen' = [seen EXCEPT ![i] = FALSE]
  /\ UNCHANGED <<generation, on, state, tag, proc>>

\* TerminateInstances succeeds on an instance that is gone.
TerminateInstance(i) ==
  /\ state' = [state EXCEPT ![i] = "terminated"]
  /\ seen' = [seen EXCEPT ![i] = @ /\ "remnant" \in Faults]
  /\ UNCHANGED tag

-----------------------------------------------------------------------------
(* slurmctld, cron and the operator.                                        *)

active(p) == pc[p] \notin {"idle", "up", "failed", "done"}
\* A sweep is at every node that has an instance on its list.
At(p) == IF kind[p] = "sweep" THEN {tag[i][1] : i \in todo[p]} \cup {node[p]} ELSE {node[p]}
Quiet(n) == Overlap \/ \A q \in Program : active(q) => n \notin At(q)

Begin(p, k, where, n) ==
  /\ pc[p] = "idle"
  /\ Cardinality({q \in Program : pc[q] # "idle"}) < deployment.invocations
  /\ Cardinality({node[q] : q \in Program} \cup {n, None}) <= deployment.nodes + 1
  /\ kind' = [kind EXCEPT ![p] = k] /\ pc' = [pc EXCEPT ![p] = where]
  /\ node' = [node EXCEPT ![p] = n] /\ gen' = [gen EXCEPT ![p] = generation]
  /\ UNCHANGED <<generation, cloud, item, at>>

StartResume(p, n) ==
  /\ ~on[n] /\ Quiet(n)
  /\ Begin(p, "resume", "launch", n)
  /\ on' = [on EXCEPT ![n] = TRUE] /\ UNCHANGED todo

StartSuspend(p, n) ==
  /\ on[n] /\ Quiet(n)
  /\ Begin(p, "suspend", "resolve", n)
  /\ on' = [on EXCEPT ![n] = FALSE] /\ UNCHANGED todo

Stale == {i \in Described : state[i] # "terminated" /\ tag[i][2] # generation}

\* Mutant: the current generation is not spared.
StartSweepAll(p, items) ==
  /\ items # {} /\ items \subseteq {i \in Described : state[i] # "terminated"}
  /\ \A i \in items : Quiet(tag[i][1])
  /\ Begin(p, "sweep", "next", None)
  /\ todo' = [todo EXCEPT ![p] = items] /\ UNCHANGED on

\* DescribeCluster, once; some of the stale are within grace.
StartSweep(p, items) ==
  /\ items # {} /\ items \subseteq Stale
  /\ \A i \in items : Quiet(tag[i][1])
  /\ Begin(p, "sweep", "next", None)
  /\ todo' = [todo EXCEPT ![p] = items] /\ UNCHANGED on

Apply ==
  /\ generation < deployment.generations
  /\ generation' = generation + 1
  /\ UNCHANGED <<on, cloud, proc>>

Goto(p, where) == pc' = [pc EXCEPT ![p] = where]

Crash(p) ==
  /\ "crash" \in Faults /\ active(p) /\ Goto(p, "done")
  /\ UNCHANGED <<generation, on, cloud, kind, node, gen, todo, item, at>>

-----------------------------------------------------------------------------
(* Resume: Actuator.Launch, then Observer.Observe until the node runs.      *)

\* The instances made for the ClientToken of a node and a generation.
OfToken(n, g) == {i \in Instance : tag[i] = <<n, g>>}

\* Mutant: a token of its own for each request.
LaunchAfresh(p) ==
  /\ pc[p] = "launch" /\ Goto(p, "observe")
  /\ \E i \in Instance : /\ state[i] = "none"
                         /\ state' = [state EXCEPT ![i] = "pending"]
                         /\ tag' = [tag EXCEPT ![i] = <<node[p], gen[p]>>]
                         /\ seen' = [seen EXCEPT ![i] = "lag" \notin Faults]
  /\ UNCHANGED <<generation, on, kind, node, gen, todo, item, at>>

Launch(p) ==
  /\ pc[p] = "launch" /\ Goto(p, "observe")
  /\ \/ OfToken(node[p], gen[p]) # {} /\ UNCHANGED cloud
     \/ /\ OfToken(node[p], gen[p]) = {}
        /\ \E i \in Instance : /\ state[i] = "none"
                               /\ state' = [state EXCEPT ![i] = "pending"]
                               /\ tag' = [tag EXCEPT ![i] = <<node[p], gen[p]>>]
                               /\ seen' = [seen EXCEPT ![i] = "lag" \notin Faults]
  /\ UNCHANGED <<generation, on, kind, node, gen, todo, item, at>>

\* No rung has capacity.
LaunchFails(p) ==
  /\ pc[p] = "launch" /\ Faults \cap {"capacity", "net"} # {} /\ Goto(p, "failed")
  /\ UNCHANGED <<generation, on, cloud, kind, node, gen, todo, item, at>>

\* Observe takes the first instance described; a miss or any other state is
\* looked at again.
ObserveRunning(p) ==
  /\ pc[p] = "observe"
  /\ \E i \in DescribeByTag(node[p]) : state[i] = "running"
  /\ Goto(p, "up")
  /\ UNCHANGED <<generation, on, cloud, kind, node, gen, todo, item, at>>

ObserveFailed(p) ==
  /\ pc[p] = "observe"
  /\ \E i \in DescribeByTag(node[p]) : state[i] = "terminated"
  /\ Goto(p, "failed")
  /\ UNCHANGED <<generation, on, cloud, kind, node, gen, todo, item, at>>

\* The budget is long enough for what boots to boot.
BudgetExceeded(p) ==
  /\ pc[p] = "observe"
  /\ "slow" \in Faults \/ ~ \E i \in Instance : tag[i][1] = node[p] /\ live(i)
  /\ Goto(p, "failed")
  /\ UNCHANGED <<generation, on, cloud, kind, node, gen, todo, item, at>>

\* The cohort failed around this node: it is drained.
CohortFails(p) ==
  /\ pc[p] = "observe" /\ "capacity" \in Faults /\ Goto(p, "resolve")
  /\ UNCHANGED <<generation, on, cloud, kind, node, gen, todo, item, at>>

-----------------------------------------------------------------------------
(* Terminate and Stop: resolveProviderID, then the request.                 *)

stops(p) == kind[p] = "suspend" /\ WarmPool

\* Where an invocation goes when it is through with a node.
After(p) ==
  CASE kind[p] = "resume" -> "failed" [] kind[p] = "suspend" -> "done" [] kind[p] = "sweep" -> "next"

\* A sweep's next item is terminated by the name of its node.
NextItem(p, i) ==
  /\ pc[p] = "next" /\ i \in todo[p]
  /\ todo' = [todo EXCEPT ![p] = @ \ {i}] /\ item' = [item EXCEPT ![p] = i]
  /\ node' = [node EXCEPT ![p] = tag[i][1]]
  /\ Goto(p, "resolve")
  /\ UNCHANGED <<generation, on, cloud, kind, gen, at>>

SweepEnds(p) ==
  /\ pc[p] = "next" /\ todo[p] = {} /\ Goto(p, "done")
  /\ UNCHANGED <<generation, on, cloud, kind, node, gen, todo, item, at>>

Resolve(p) ==
  /\ pc[p] = "resolve"
  /\ \E i \in DescribeByTag(node[p]) : at' = [at EXCEPT ![p] = i]
  /\ Goto(p, "act")
  /\ UNCHANGED <<generation, on, cloud, kind, node, gen, todo, item>>

\* A miss: for Terminate the instance is gone, for Stop it is an error.
ResolveMisses(p) ==
  /\ pc[p] = "resolve" /\ DescribeByTag(node[p]) = {}
  /\ Goto(p, After(p))
  /\ UNCHANGED <<generation, on, cloud, kind, node, gen, todo, item, at>>

RequestFails(p) ==
  /\ pc[p] \in {"resolve", "act"} /\ "net" \in Faults
  /\ Goto(p, After(p))
  /\ UNCHANGED <<generation, on, cloud, kind, node, gen, todo, item, at>>

Terminate(p) ==
  /\ pc[p] = "act" /\ ~stops(p)
  /\ TerminateInstance(at[p])
  /\ Goto(p, After(p))
  /\ UNCHANGED <<generation, on, kind, node, gen, todo, item, at>>

\* EC2 stops what runs.
Stop(p) ==
  /\ pc[p] = "act" /\ stops(p)
  /\ state' = [state EXCEPT ![at[p]] = IF @ = "running" THEN "stopped" ELSE @]
  /\ Goto(p, After(p))
  /\ UNCHANGED <<generation, on, tag, seen, kind, node, gen, todo, item, at>>

Step(p) ==
  \/ Crash(p)
  \/ Launch(p) \/ LaunchFails(p)
  \/ ObserveRunning(p) \/ ObserveFailed(p) \/ BudgetExceeded(p) \/ CohortFails(p)
  \/ \E i \in todo[p] : NextItem(p, i)
  \/ SweepEnds(p)
  \/ Resolve(p) \/ ResolveMisses(p) \/ RequestFails(p) \/ Terminate(p) \/ Stop(p)

Next ==
  /\ UNCHANGED deployment
  /\ \/ Apply
     \/ \E i \in Instance : Appear(i) \/ Boot(i) \/ Forget(i)
     \/ \E p \in Program :
          \/ \E n \in Node : StartResume(p, n) \/ StartSuspend(p, n)
          \/ \E items \in SUBSET Instance : StartSweep(p, items)
          \/ Step(p)

Spec == Init /\ [][Next]_vars

-----------------------------------------------------------------------------
TypeOK ==
  /\ deployment \in Deployments /\ generation \in 1..deployment.generations
  /\ on \in [Node -> BOOLEAN]
  /\ state \in [Instance -> {"none", "pending", "running", "stopped", "terminated"}]
  /\ tag \in [Instance -> (Node \X (1..generation)) \cup {<<None, 0>>}]
  /\ seen \in [Instance -> BOOLEAN]
  /\ \A i \in Instance : state[i] = "none" <=> tag[i] = <<None, 0>>
  /\ kind \in [Program -> {"none", "resume", "suspend", "sweep"}]
  /\ pc \in [Program -> {"idle", "launch", "observe", "next", "resolve", "act", "up", "failed", "done"}]
  /\ node \in [Program -> Node \cup {None}] /\ gen \in [Program -> 1..generation]
  /\ todo \in [Program -> SUBSET Instance] /\ item \in [Program -> Instance \cup {None}]
  /\ at \in [Program -> Instance \cup {None}]
  /\ \A p \in Program : pc[p] = "act" => at[p] \in Instance /\ tag[at[p]][1] = node[p]

\* A node never has two instances of one generation that run, whatever is
\* delayed, repeated or cut short (the ClientToken of Launch).
OneLivePerGeneration ==
  \A i, j \in Instance : live(i) /\ live(j) /\ tag[i] = tag[j] => i = j

idle(n) == \A p \in Program : active(p) => n \notin At(p)

\* Nothing fails but that capacity may be short, the programs take turns, and no
\* node has a stopped instance of an earlier generation: then a node has one
\* instance at a time, and the first with its tag is the right one.
Orderly ==
  Faults \subseteq {"capacity"} /\ ~Overlap /\ (WarmPool => generation = 1)

\* No instance of a suspended node runs once nobody is at it: a missed Terminate
\* is a silent cost leak.
SuspendedIsGone ==
  Orderly => \A n \in Node : ~on[n] /\ idle(n) => ~ \E i \in Instance : tag[i][1] = n /\ live(i)

\* The sweep terminates nothing of the current generation (sweep.go:59,
\* "Current-generation instances - the live nodes - are structurally never reaped").
SweepSparesCurrent ==
  [][Orderly => \A p \in Program :
       kind[p] = "sweep" /\ pc[p] = "act" /\ live(at[p]) /\ state'[at[p]] = "terminated"
       => tag[at[p]][2] # generation]_vars

=============================================================================
