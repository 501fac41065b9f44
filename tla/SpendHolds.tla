----------------------------- MODULE SpendHolds -----------------------------
(***************************************************************************)
(* The spend-rate loop of internal/slurm: q0-resume asks the budget        *)
(* service (internal/asbb) to admit a fleet, keeps the hold it placed in   *)
(* one file per node and launches; q0-suspend and q0 sweep tear nodes      *)
(* down, reconcile the hold and delete the file.  Each is a process of its *)
(* own that lives for one invocation, shares the files with the others and *)
(* may die at any step.                                                    *)
(*                                                                         *)
(* A Program is one invocation; the transaction the service opens for a    *)
(* resume bears the resume's name.  What Reconcile and Actuator do to the  *)
(* instances (Cohort, EntityLaunch) is here that a run of the node begins  *)
(* or ends.  Amounts are left out: a charge is counted.                    *)
(*                                                                         *)
(* A behaviour is of one deployment, which says how it is configured, what *)
(* goes wrong in it and how much happens; what holds in every deployment   *)
(* is stated without a condition.                                          *)
(***************************************************************************)
EXTENDS Integers, FiniteSets

CONSTANTS
  Node, Program,
  Deployments,       \* the deployments to consider
  None               \* no hold, no run, no node

\* A process dies; a file operation fails; a request or its answer is lost; a
\* describe does not see the instance.
FaultKind == {"crash", "disk", "net", "miss"}

\* strict: Cfg.FailMode = FailStrict; overlap: invocations for one node may
\* overlap; the last three bound the nodes, the invocations and the specs.
Deployment ==
  [strict : BOOLEAN, overlap : BOOLEAN, faults : SUBSET FaultKind,
   nodes : Nat, invocations : Nat, generations : Nat \ {0}]

ASSUME HoldsAssumption ==
  /\ Deployments \subseteq Deployment
  /\ None \notin Program \cup (Program \X Node) \cup Node
  /\ IsFiniteSet(Node)

VARIABLES
  deployment,   \* which one this behaviour is of
  generation,   \* of the spec applied last
  on,           \* slurmctld's view: resumed and not suspended since
  pc, nodes, gen,   \* of an invocation: where it is, its hostlist, Cfg.Generation
  todo, cur,    \* what its loop has left, the node it is at
  read,         \* the hold Get returned
  holds,        \* the FileHoldStore: transaction by node
  verdict,      \* what checkAdmission made of the answer
  runs,         \* instances that run, by the resume that launched them
  charges,      \* the service: reconciles received, by transaction and node
  ran           \* history: all runs

program == <<pc, nodes, gen, todo, cur, read>>
vars == <<deployment, generation, on, program, holds, verdict, runs, charges, ran>>

Strict  == deployment.strict
Overlap == deployment.overlap
Faults  == deployment.faults

Init ==
  /\ deployment \in Deployments
  /\ generation = 1 /\ on = [n \in Node |-> FALSE]
  /\ pc = [p \in Program |-> "idle"] /\ nodes = [p \in Program |-> {}]
  /\ gen = [p \in Program |-> 1]
  /\ todo = [p \in Program |-> {}] /\ cur = [p \in Program |-> None]
  /\ read = [p \in Program |-> None]
  /\ holds = [n \in Node |-> None] /\ verdict = [p \in Program |-> "none"]
  /\ runs = {} /\ ran = {}
  /\ charges = [h \in Program \X Node |-> 0]

RunsOf(n) == {r \in runs : r[2] = n}
active(p) == pc[p] \notin {"idle", "done"}
Quiet(ns) == Overlap \/ \A q \in Program : active(q) => nodes[q] \cap ns = {}

-----------------------------------------------------------------------------
(* slurmctld and cron start the programs; an operator applies a spec.       *)

Begin(p, at, ns, work) ==
  /\ pc[p] = "idle" /\ ns # {} /\ Quiet(ns)
  /\ Cardinality({q \in Program : pc[q] # "idle"}) < deployment.invocations
  /\ Cardinality(ns \cup UNION {nodes[q] : q \in Program}) <= deployment.nodes
  /\ pc' = [pc EXCEPT ![p] = at] /\ nodes' = [nodes EXCEPT ![p] = ns]
  /\ gen' = [gen EXCEPT ![p] = generation] /\ todo' = [todo EXCEPT ![p] = work]
  /\ UNCHANGED <<generation, cur, read, holds, verdict, runs, charges, ran>>

StartResume(p, ns) ==
  /\ \A n \in ns : ~on[n]
  /\ Begin(p, "admit", ns, {<<p, n>> : n \in ns})
  /\ on' = [n \in Node |-> on[n] \/ n \in ns]

StartSuspend(p, ns) ==
  /\ \A n \in ns : on[n]
  /\ Begin(p, "teardown", ns, {<<p, n>> : n \in ns})
  /\ on' = [n \in Node |-> on[n] /\ n \notin ns]

\* DescribeCluster; some stale instances are within grace or not in the answer.
StartSweep(p, stale) ==
  /\ stale \subseteq {r \in runs : gen[r[1]] # generation}
  /\ Begin(p, "teardown", {r[2] : r \in stale}, stale)
  /\ UNCHANGED on

Apply ==
  /\ generation < deployment.generations
  /\ generation' = generation + 1
  /\ UNCHANGED <<on, program, holds, verdict, runs, charges, ran>>

Crash(p) ==
  /\ "crash" \in Faults /\ active(p)
  /\ pc' = [pc EXCEPT ![p] = "done"]
  /\ UNCHANGED <<generation, on, nodes, gen, todo, cur, read, holds, verdict, runs, charges, ran>>

-----------------------------------------------------------------------------
(* Resume: checkAdmission, persistHolds, and the launch.                    *)

Fleet(p) == {<<p, n>> : n \in nodes[p]}

Admission(p, v, at) ==
  /\ pc[p] = "admit"
  /\ verdict' = [verdict EXCEPT ![p] = v]
  /\ pc' = [pc EXCEPT ![p] = at]
  /\ UNCHANGED <<generation, on, nodes, gen, todo, cur, read, holds, runs, charges, ran>>

\* With a transaction, or allowed by a gate that places no hold.
AdmitAllows(p) == Admission(p, "allowed", "persist") \/ Admission(p, "free", "launch")
AdmitRefuses(p) == Admission(p, "refused", "done")

\* No answer; the service may have placed a hold nobody here knows.
AdmitFails(p) ==
  "net" \in Faults /\ Admission(p, "error", IF Strict THEN "done" ELSE "launch")

\* The loop goes to its next node; after the last one the program is at "after".
Done(p, item, after, again) ==
  /\ todo' = [todo EXCEPT ![p] = IF @ = {item} THEN again ELSE @ \ {item}]
  /\ pc' = [pc EXCEPT ![p] = IF todo[p] = {item} THEN after ELSE @]

\* Mutant: one file for the fleet, not one for each node.
PersistHoldOnce(p, n) ==
  /\ pc[p] = "persist" /\ <<p, n>> \in todo[p]
  /\ todo' = [todo EXCEPT ![p] = Fleet(p)] /\ pc' = [pc EXCEPT ![p] = "launch"]
  /\ holds' = [holds EXCEPT ![n] = p]
  /\ UNCHANGED <<generation, on, nodes, gen, cur, read, verdict, runs, charges, ran>>

\* Put, over what may be there; its failure is logged.
PersistHold(p, n) ==
  /\ pc[p] = "persist" /\ <<p, n>> \in todo[p]
  /\ Done(p, <<p, n>>, "launch", Fleet(p))
  /\ \/ holds' = [holds EXCEPT ![n] = p]
     \/ "disk" \in Faults /\ UNCHANGED holds
  /\ UNCHANGED <<generation, on, nodes, gen, cur, read, verdict, runs, charges, ran>>

\* Reconcile brings the node up, or leaves nothing of it.  The token makes a
\* running instance of the same generation the one launched.
LaunchNode(p, n) ==
  /\ pc[p] = "launch" /\ <<p, n>> \in todo[p]
  /\ Done(p, <<p, n>>, "done", {})
  /\ \/ /\ runs' = {r \in runs : r[2] # n \/ gen[r[1]] # gen[p]} \cup {<<p, n>>}
        /\ ran' = ran \cup {<<p, n>>}
     \/ UNCHANGED <<runs, ran>>
  /\ UNCHANGED <<generation, on, nodes, gen, cur, read, holds, verdict, charges>>

-----------------------------------------------------------------------------
(* Suspend and Sweep: Terminate or Stop, then reconcileHold, by node.       *)

\* To the next node; the last one ends the program.
Continue(p) ==
  pc' = [pc EXCEPT ![p] = IF todo[p] = {} THEN "done" ELSE "teardown"]

\* Mutant: the hold of a node that could not be torn down is closed as well.
TeardownAlwaysCloses(p, item) ==
  /\ pc[p] = "teardown" /\ item \in todo[p]
  /\ todo' = [todo EXCEPT ![p] = @ \ {item}] /\ cur' = [cur EXCEPT ![p] = item[2]]
  /\ pc' = [pc EXCEPT ![p] = "get"]
  /\ \/ \E r \in RunsOf(item[2]) : runs' = runs \ {r}
     \/ /\ RunsOf(item[2]) = {} \/ Faults \cap {"miss", "net"} # {}
        /\ UNCHANGED runs
  /\ UNCHANGED <<generation, on, nodes, gen, read, holds, verdict, charges, ran>>

\* The Actuator takes the node by name: whichever instance of it it finds.
Teardown(p, item) ==
  /\ pc[p] = "teardown" /\ item \in todo[p]
  /\ todo' = [todo EXCEPT ![p] = @ \ {item}]
  /\ cur' = [cur EXCEPT ![p] = item[2]]
  /\ \/ \E r \in RunsOf(item[2]) :
          /\ runs' = runs \ {r}
          /\ pc' = [pc EXCEPT ![p] = "get"]
     \/ /\ RunsOf(item[2]) = {} \/ "miss" \in Faults
        /\ pc' = [pc EXCEPT ![p] = "get"]
        /\ UNCHANGED runs
     \/ /\ "net" \in Faults
        /\ pc' = [pc EXCEPT ![p] = IF todo[p] = {item} THEN "done" ELSE "teardown"]
        /\ UNCHANGED runs
  /\ UNCHANGED <<generation, on, nodes, gen, read, holds, verdict, charges, ran>>

\* No hold, or the file cannot be read: nothing to reconcile.
GetHold(p) ==
  /\ pc[p] = "get"
  /\ \/ /\ holds[cur[p]] # None
        /\ read' = [read EXCEPT ![p] = holds[cur[p]]]
        /\ pc' = [pc EXCEPT ![p] = "reconcile"]
     \/ /\ holds[cur[p]] = None \/ "disk" \in Faults
        /\ Continue(p) /\ UNCHANGED read
  /\ UNCHANGED <<generation, on, nodes, gen, todo, cur, holds, verdict, runs, charges, ran>>

charged(p) == charges' = [charges EXCEPT ![<<read[p], cur[p]>>] = @ + 1]

HoldReconciled(p) ==
  /\ pc[p] = "reconcile"
  /\ charged(p)
  /\ pc' = [pc EXCEPT ![p] = "delete"]
  /\ UNCHANGED <<generation, on, nodes, gen, todo, cur, read, holds, verdict, runs, ran>>

\* Mutant: an error of the service is not looked at.
ReconcileErrorIgnored(p) ==
  /\ pc[p] = "reconcile" /\ "net" \in Faults
  /\ charged(p) \/ UNCHANGED charges
  /\ pc' = [pc EXCEPT ![p] = "delete"]
  /\ UNCHANGED <<generation, on, nodes, gen, todo, cur, read, holds, verdict, runs, ran>>

\* The hold stays where it is; the service may have had the request.
ReconcileFails(p) ==
  /\ pc[p] = "reconcile" /\ "net" \in Faults
  /\ charged(p) \/ UNCHANGED charges
  /\ Continue(p)
  /\ UNCHANGED <<generation, on, nodes, gen, todo, cur, read, holds, verdict, runs, ran>>

\* Mutant: the file is left.
DeleteForgotten(p) ==
  /\ pc[p] = "delete"
  /\ UNCHANGED holds
  /\ Continue(p)
  /\ UNCHANGED <<generation, on, nodes, gen, todo, cur, read, verdict, runs, charges, ran>>

DeleteHold(p) ==
  /\ pc[p] = "delete"
  /\ \/ holds' = [holds EXCEPT ![cur[p]] = None]
     \/ "disk" \in Faults /\ UNCHANGED holds
  /\ Continue(p)
  /\ UNCHANGED <<generation, on, nodes, gen, todo, cur, read, verdict, runs, charges, ran>>

Step(p) ==
  \/ Crash(p)
  \/ AdmitAllows(p) \/ AdmitRefuses(p) \/ AdmitFails(p)
  \/ \E n \in Node : PersistHold(p, n) \/ LaunchNode(p, n)
  \/ \E item \in todo[p] : Teardown(p, item)
  \/ GetHold(p) \/ HoldReconciled(p) \/ ReconcileFails(p) \/ DeleteHold(p)

Next ==
  /\ UNCHANGED deployment
  /\ \/ Apply
     \/ \E p \in Program :
          \/ \E ns \in SUBSET Node : StartResume(p, ns) \/ StartSuspend(p, ns)
          \/ \E stale \in SUBSET runs : StartSweep(p, stale)
          \/ Step(p)

Spec == Init /\ [][Next]_vars

-----------------------------------------------------------------------------
TypeOK ==
  /\ deployment \in Deployments /\ generation \in 1..deployment.generations
  /\ on \in [Node -> BOOLEAN]
  /\ pc \in [Program -> {"idle", "admit", "persist", "launch",
                         "teardown", "get", "reconcile", "delete", "done"}]
  /\ nodes \in [Program -> SUBSET Node] /\ gen \in [Program -> 1..generation]
  /\ todo \in [Program -> SUBSET (Program \X Node)] /\ cur \in [Program -> Node \cup {None}]
  /\ read \in [Program -> Program \cup {None}]
  /\ \A p \in Program : pc[p] \in {"reconcile", "delete"} => read[p] # None
  /\ holds \in [Node -> Program \cup {None}]
  /\ verdict \in [Program -> {"none", "allowed", "free", "refused", "error"}]
  /\ runs \subseteq ran /\ ran \subseteq Program \X Node
  /\ charges \in [Program \X Node -> Nat]

\* A hold leaves the disk only after the service has had its charge, whatever
\* fails on the way and whenever a program dies, as long as the programs for a
\* node take turns (reconcileHold).
DeletedOnlyWhenCharged ==
  [][~Overlap => \A n \in Node :
       holds[n] # None /\ holds'[n] = None => charges[<<holds[n], n>>] > 0]_vars

\* As long as an instance runs whose launch was admitted there is a hold of its
\* node to be charged: the file is there before the launch and goes after the
\* teardown, through crashes and lost requests.  Without sweeps, which close the
\* hold of whatever run the node has, and with a disk and describes one can
\* rely on.
RunHasHold ==
  Faults \subseteq {"crash", "net"} /\ ~Overlap /\ generation = 1 =>
    \A r \in runs : verdict[r[1]] = "allowed" => holds[r[2]] # None

\* Nothing fails, the programs take turns, and there are no orphans to sweep.
Orderly == Faults = {} /\ ~Overlap /\ generation = 1

\* No run is charged twice.
ChargedOnce == Orderly => \A h \in Program \X Node : charges[h] <= 1

\* Once a node is suspended and nobody is at it, each of its admitted runs has
\* been charged.
EveryRunCharged ==
  Orderly => \A r \in ran :
    /\ verdict[r[1]] = "allowed" /\ ~on[r[2]]
    /\ \A p \in Program : active(p) => r[2] \notin nodes[p]
    => charges[r] > 0

=============================================================================
