--------------------------- MODULE ResumeOutcome ----------------------------
(***************************************************************************)
(* What a resume leaves behind: Bridge.Resume finds the partition, builds  *)
(* a cohort, asks for admission, reconciles, and then tells twice how it   *)
(* went: in one record file for each node (recordstore, for `q0 explain`)  *)
(* and in the node's state (scontrol, for slurmctld).  slurmctld starts    *)
(* the program as a process of its own for each set of nodes.              *)
(*                                                                         *)
(* The reconcile itself is Cohort; here it is one of the outcomes Cohort   *)
(* allows.  All the shapes buildCohort makes need all their members.       *)
(*                                                                         *)
(* A behaviour is of one deployment, which says how it is configured, what *)
(* goes wrong in it and how much happens.                                  *)
(***************************************************************************)
EXTENDS Integers, FiniteSets

CONSTANTS
  Node, Program, Partition,
  Exact, Shorter,    \* partitions with the prefix of a node; with one its name begins with
  Collective,        \* partitions of collective jobs
  Deployments,       \* the deployments to consider
  None

\* A process dies; a record cannot be written; an scontrol update fails.
FaultKind == {"crash", "disk", "scontrol"}

\* configured: the partition given or set as the default, None if there is none;
\* assembler: a manifest bucket is configured; overlap: a node may be resumed again
\* while a resume of it that Slurm gave up is still at it; invocations: a bound.
Deployment ==
  [configured : Partition \cup {None}, assembler : BOOLEAN, overlap : BOOLEAN,
   faults : SUBSET FaultKind, invocations : Nat]

ASSUME OutcomeAssumption ==
  /\ Exact \in [Node -> SUBSET Partition] /\ Shorter \in [Node -> SUBSET Partition]
  /\ Collective \subseteq Partition
  /\ Deployments \subseteq Deployment
  /\ None \notin Program \cup Partition \cup Node

VARIABLES
  deployment,        \* which one this behaviour is of
  slurm, by,         \* slurmctld's state of a node; the program that set it
  pc, nodes, sample, part,   \* an invocation, its hostlist, nodes[0] and partition
  outcome,           \* what became of each of its nodes
  todo,              \* the nodes its loop has left
  record,            \* the FileStore: program and result by node
  launched,          \* programs whose instances may be up
  dropped            \* history: nodes of a program whose scontrol update failed

proc == <<pc, nodes, sample, part, outcome, todo>>
vars == <<deployment, slurm, by, proc, record, launched, dropped>>

Configured == deployment.configured
Assembler  == deployment.assembler
Faults     == deployment.faults

Result == {"ready", "terminal", "cancelled"}

Init ==
  /\ deployment \in Deployments
  /\ slurm = [n \in Node |-> "idle"] /\ by = [n \in Node |-> None]
  /\ pc = [p \in Program |-> "none"] /\ nodes = [p \in Program |-> {}]
  /\ sample = [p \in Program |-> None] /\ part = [p \in Program |-> None]
  /\ outcome = [p \in Program |-> [n \in {} |-> "ready"]] /\ todo = [p \in Program |-> {}]
  /\ record = [n \in Node |-> <<None, "ready">>] /\ launched = {}
  /\ dropped = [p \in Program |-> {}]

atWork(p) == pc[p] \notin {"none", "done", "error", "dead"}
alone(ns) == deployment.overlap \/ \A q \in Program : atWork(q) => nodes[q] \cap ns = {}
goes(p, from, to) == pc[p] = from /\ pc' = [pc EXCEPT ![p] = to]

-----------------------------------------------------------------------------
(* slurmctld and the operator.                                              *)

StartResume(p, ns, first) ==
  /\ ns # {} /\ first \in ns /\ \A n \in ns : slurm[n] = "idle"
  /\ alone(ns)
  /\ Cardinality({q \in Program : pc[q] # "none"}) < deployment.invocations
  /\ goes(p, "none", "resolve")
  /\ nodes' = [nodes EXCEPT ![p] = ns] /\ sample' = [sample EXCEPT ![p] = first]
  /\ slurm' = [n \in Node |-> IF n \in ns THEN "CF" ELSE slurm[n]]
  /\ UNCHANGED <<by, part, outcome, todo, record, launched, dropped>>

\* slurmd checks in: the node runs, or did.
CheckIn(n) ==
  /\ slurm[n] = "CF"
  /\ \E p \in launched : n \in nodes[p]
  /\ slurm' = [slurm EXCEPT ![n] = "up"]
  /\ UNCHANGED <<by, proc, record, launched, dropped>>

ResumeTimeout(n) ==
  /\ slurm[n] = "CF" /\ slurm' = [slurm EXCEPT ![n] = "down"]
  /\ UNCHANGED <<by, proc, record, launched, dropped>>

\* Suspended, or returned to service.
BackToIdle(n) ==
  /\ slurm[n] \in {"up", "down", "drain"}
  /\ alone({n})
  /\ slurm' = [slurm EXCEPT ![n] = "idle"] /\ by' = [by EXCEPT ![n] = None]
  /\ UNCHANGED <<proc, record, launched, dropped>>

Crash(p) ==
  /\ "crash" \in Faults /\ atWork(p)
  /\ pc' = [pc EXCEPT ![p] = "dead"]
  /\ UNCHANGED <<slurm, by, nodes, sample, part, outcome, todo, record, launched, dropped>>

-----------------------------------------------------------------------------
(* Resume.                                                                  *)

\* The first match of a walk over a map, which has no order.
ResolveForNode(n) == Exact[n] \cup Shorter[n]

candidates(p) ==
  IF Configured = None THEN ResolveForNode(sample[p]) ELSE Partition \cap {Configured}

resolvePartition(p) ==
  /\ \/ /\ goes(p, "resolve", "build")
        /\ \E q \in candidates(p) : part' = [part EXCEPT ![p] = q]
     \/ /\ goes(p, "resolve", "error") /\ UNCHANGED part
        /\ candidates(p) = {}
  /\ UNCHANGED <<slurm, by, nodes, sample, outcome, todo, record, launched, dropped>>

serial(p) == Cardinality(nodes[p]) = 1

buildCohort(p) ==
  /\ goes(p, "build", IF ~serial(p) /\ part[p] \in Collective /\ ~Assembler THEN "error" ELSE "admit")
  /\ UNCHANGED <<slurm, by, nodes, sample, part, outcome, todo, record, launched, dropped>>

Ends(p, from, out) ==
  /\ goes(p, from, "put")
  /\ outcome' = [outcome EXCEPT ![p] = out] /\ todo' = [todo EXCEPT ![p] = nodes[p]]
  /\ UNCHANGED <<slurm, by, nodes, sample, part, record, launched, dropped>>

AllTerminal(p) == [n \in nodes[p] |-> "terminal"]

Admitted(p) ==
  /\ goes(p, "admit", "reconcile") /\ launched' = launched \cup {p}
  /\ UNCHANGED <<slurm, by, nodes, sample, part, outcome, todo, record, dropped>>

recordRefusal(p) == Ends(p, "admit", AllTerminal(p))

ReconcileReady(p) == Ends(p, "reconcile", [n \in nodes[p] |-> "ready"])

\* Some failed, the rest was cancelled around them; all fail with the assembly.
ReconcileFails(p, failed) ==
  /\ failed # {} /\ failed \subseteq nodes[p]
  /\ Ends(p, "reconcile", [n \in nodes[p] |-> IF n \in failed THEN "terminal" ELSE "cancelled"])

\* finish: PutOutcome, then writeback.
NextNode(p, n, from, after, again) ==
  /\ pc[p] = from /\ n \in todo[p]
  /\ todo' = [todo EXCEPT ![p] = IF @ = {n} THEN again ELSE @ \ {n}]
  /\ pc' = [pc EXCEPT ![p] = IF todo[p] = {n} THEN after ELSE @]
  /\ UNCHANGED <<nodes, sample, part, outcome>>

PutRecord(p, n) ==
  /\ NextNode(p, n, "put", "mark", nodes[p])
  /\ record' = [record EXCEPT ![n] = <<p, outcome[p][n]>>]
  /\ UNCHANGED <<slurm, by, launched, dropped>>

\* PutOutcome returns; finish goes on.
PutFails(p, n) ==
  /\ "disk" \in Faults /\ n \in todo[p]
  /\ goes(p, "put", "mark") /\ todo' = [todo EXCEPT ![p] = nodes[p]]
  /\ UNCHANGED <<slurm, by, nodes, sample, part, outcome, record, launched, dropped>>

marks(r) == r # "ready"

\* Mutant: down and drain swapped.
stateSwapped(r) == IF r = "terminal" THEN "drain" ELSE "down"

stateOf(r) == IF r = "terminal" THEN "down" ELSE "drain"

Update(p, n) ==
  /\ slurm' = [slurm EXCEPT ![n] = stateOf(outcome[p][n])] /\ by' = [by EXCEPT ![n] = p]
  /\ UNCHANGED dropped

UpdateFails(p, n) ==
  /\ "scontrol" \in Faults
  /\ dropped' = [dropped EXCEPT ![p] = @ \cup {n}] /\ UNCHANGED <<slurm, by>>

\* Mutant: an error of UpdateNode ends the loop.
MarkOrReturn(p, n) ==
  /\ \/ /\ NextNode(p, n, "mark", "done", {})
        /\ IF marks(outcome[p][n]) THEN Update(p, n) ELSE UNCHANGED <<slurm, by, dropped>>
     \/ /\ n \in todo[p] /\ marks(outcome[p][n]) /\ UpdateFails(p, n)
        /\ goes(p, "mark", "done") /\ UNCHANGED <<nodes, sample, part, outcome, todo>>
  /\ UNCHANGED <<record, launched>>

\* UpdateNode's error is dropped.
Mark(p, n) ==
  /\ NextNode(p, n, "mark", "done", {})
  /\ IF marks(outcome[p][n]) THEN Update(p, n) \/ UpdateFails(p, n)
                             ELSE UNCHANGED <<slurm, by, dropped>>
  /\ UNCHANGED <<record, launched>>

Step(p) ==
  \/ Crash(p)
  \/ resolvePartition(p) \/ buildCohort(p) \/ Admitted(p) \/ recordRefusal(p)
  \/ ReconcileReady(p)
  \/ \E failed \in SUBSET Node : ReconcileFails(p, failed)
  \/ \E n \in Node : PutRecord(p, n) \/ PutFails(p, n) \/ Mark(p, n)

Next ==
  /\ UNCHANGED deployment
  /\ \/ \E n \in Node : CheckIn(n) \/ ResumeTimeout(n) \/ BackToIdle(n)
     \/ \E p \in Program :
          \/ \E ns \in SUBSET Node, first \in Node : StartResume(p, ns, first)
          \/ Step(p)

Spec == Init /\ [][Next]_vars

-----------------------------------------------------------------------------
TypeOK ==
  /\ deployment \in Deployments
  /\ slurm \in [Node -> {"idle", "CF", "up", "down", "drain"}]
  /\ by \in [Node -> Program \cup {None}]
  /\ pc \in [Program -> {"none", "resolve", "build", "admit", "reconcile", "put", "mark", "done", "error", "dead"}]
  /\ nodes \in [Program -> SUBSET Node] /\ sample \in [Program -> Node \cup {None}]
  /\ part \in [Program -> Partition \cup {None}]
  /\ \A p \in Program : pc[p] \in {"build", "admit", "reconcile", "put", "mark"} => part[p] # None
  /\ \A p \in Program : DOMAIN outcome[p] \in {{}, nodes[p]} /\ \A n \in DOMAIN outcome[p] : outcome[p][n] \in Result
  /\ DOMAIN outcome = Program
  /\ todo \in [Program -> SUBSET Node] /\ \A p \in Program : todo[p] \subseteq nodes[p]
  /\ record \in [Node -> (Program \cup {None}) \X Result]
  /\ launched \subseteq Program /\ dropped \in [Program -> SUBSET Node]

\* What a resume made of a node in Slurm can be looked up, as long as records can
\* be written: there is a record of a resume of the node; and where resumes of a
\* node do not overlap, a node that was marked down has its record with a fault,
\* one that was drained its record as cancelled and a culprit with a record to go
\* to (finish; README, "Every drained entity carries a structured" record).
StateIsExplained ==
  "disk" \notin Faults => \A n \in Node : by[n] # None =>
    /\ record[n][1] \in Program /\ n \in nodes[record[n][1]]
    /\ ~deployment.overlap =>
         /\ record[n] = <<by[n], IF slurm[n] = "down" THEN "terminal" ELSE "cancelled">>
         /\ slurm[n] = "drain" =>
              \E m \in nodes[by[n]] : outcome[by[n]][m] = "terminal"
                                      /\ (by[m] = by[n] => record[m] = <<by[n], "terminal">>)

\* A resume that gets to its end leaves a failed node configuring only if the
\* update of that very node failed, or the node has been resumed again (resume.go:132,
\* "mark failed nodes down/drain NOW rather than letting them sit in CF until
\* ResumeTimeout"; writeback goes on after an error).
FailedLeaveCF ==
  [][\A p \in Program : goes(p, "mark", "done") => \A n \in nodes[p] :
       \/ outcome[p][n] = "ready" \/ slurm'[n] # "CF" \/ n \in dropped'[p]
       \/ deployment.overlap /\ \E q \in Program \ {p} : n \in nodes[q]]_vars

\* "Every drained entity carries a structured record: fault class, verbatim code,
\* phase of death" (README.md:32): the record of a node a resume has drained is not
\* that of a node that came up.  It does not hold where resumes overlap: see PutRecord.
DrainedHasFailureRecord ==
  \A n \in Node : by[n] # None /\ slurm[n] = "drain" => record[n][2] # "ready"

=============================================================================
