----------------------------- MODULE StaticApply -----------------------------
(***************************************************************************)
(* The static substrate: operators who run `q0 apply cluster`, each in a   *)
(* checkout of their own with its cluster.yaml and its workdir, against    *)
(* one state backend (cmdApply of cmd/q0, EnsureBackend and the Executor   *)
(* of internal/tofu), and who may run `q0 preflight` first.                *)
(*                                                                         *)
(* External, from how internal/tofu uses it: tofu holds the state's lock   *)
(* for the length of an apply, looks at it in a plan, and writes down what *)
(* an apply got done even when it fails; a tofu that is killed leaves the  *)
(* lock, and a person takes it away.  Of what is provisioned, the state    *)
(* tells the file systems apart: each is one incarnation, replaced (taken  *)
(* away, then made anew) when what cannot change in place has changed: the *)
(* creation token of an EFS file system, and of an FSx one the deployment  *)
(* type, the subnet, the security group (which goes with its VPC) and a    *)
(* capacity that shrinks, or that changes at all under SCRATCH_1.          *)
(***************************************************************************)
EXTENDS Foundation, Preflight, FiniteSets

CONSTANTS
  Operator,
  Deployments,   \* the deployments to consider, by number
  None

Command == {"approve", "plan", "dry-run", "show-env", "preflight"}

\* Who takes part; the versions of cluster.yaml and the settings of the flags,
\* each by a name; what the region is like to a preflight, and the rungs it is asked about; how
\* often a file is edited, something goes wrong, and a command other than
\* `apply --approve` is run.
ASSUME DeploymentAssumption ==
  /\ None \notin Operator
  /\ \A d \in Range(Deployments) :
       /\ d.operators \subseteq Operator /\ d.commands \subseteq Command
       /\ \A v \in DOMAIN d.clusters : d.clusters[v] \in ClusterYAML /\ v # None
       /\ \A v \in DOMAIN d.flags : d.flags[v] \in FoundationOpts
       /\ None \notin [file : DOMAIN d.clusters, flags : DOMAIN d.flags]
       /\ \A rungs \in d.chains : rungs \in Seq(Range(rungs))
       /\ d.edits \in Nat /\ d.faults \in Nat /\ d.others \in Nat

VARIABLES
  deployment,               \* the number of the one this behaviour is of
  yaml, flags, workdir,     \* the checkouts: the file, the flags, what each rendered file is of
  pc, command, source,      \* the command at work: what it is, what it renders
  bucket, table, lock,      \* the backend: state bucket, lock table, who holds the lock
  fs, dns, config, born,    \* the state: file systems, efs outputs, last complete apply
  env, report,              \* what the last command printed
  done,                     \* history: the cluster.yaml at hand has been applied
  edits, faults, others     \* what the deployment bounds

checkouts == <<yaml, flags, workdir>>
process   == <<pc, command, source>>
backend   == <<bucket, table, lock>>
state     == <<fs, dns, config, born>>
printed   == <<env, report>>
bounds    == <<edits, faults, others>>
vars      == <<deployment, checkouts, process, backend, state, printed, done, bounds>>

D == Deployments[deployment]
Taking == D.operators
\* A rendering is of a version of cluster.yaml under a setting of the flags.
cluster(v) == D.clusters[v.file]
dataOf(v)  == templateData(cluster(v), D.flags[v.flags])

At(o)      == [file |-> yaml[o], flags |-> flags[o]]
Valid(o)   == validate(cluster(At(o)))
data(o)    == dataOf(source[o])

all(x) == [o \in Taking |-> x]
Faulty == faults < D.faults

Init ==
  /\ deployment \in DOMAIN Deployments
  /\ yaml = all(None) /\ flags = all(None)
  /\ workdir = all([f \in File |-> None])
  /\ pc = all("idle") /\ command = all(None) /\ source = all(None)
  /\ bucket = "absent" /\ table = "absent" /\ lock = None
  /\ fs = <<>> /\ dns = <<>> /\ config = None /\ born = 0
  /\ env = all(None) /\ report = all(None)
  /\ done = all(FALSE)
  /\ edits = 0 /\ faults = 0 /\ others = 0

-----------------------------------------------------------------------------
(* The operators.                                                           *)

goto(o, at) == pc' = [pc EXCEPT ![o] = at]

\* The process of the command is gone.
Exit(o) ==
  /\ goto(o, "idle") /\ command' = [command EXCEPT ![o] = None]
  /\ source' = [source EXCEPT ![o] = None]

\* A checkout, and the flags its operator settles on.
Checkout(o) ==
  /\ yaml[o] = None
  /\ \E c \in DOMAIN D.clusters : yaml' = [yaml EXCEPT ![o] = c]
  /\ \E f \in DOMAIN D.flags : flags' = [flags EXCEPT ![o] = f]
  /\ UNCHANGED <<workdir, process, backend, state, printed, done, bounds>>

Start(o, c) ==
  /\ c \in D.commands /\ pc[o] = "idle" /\ yaml[o] # None
  /\ goto(o, "load") /\ command' = [command EXCEPT ![o] = c]
  /\ IF c = "approve" THEN ~done[o] /\ UNCHANGED bounds
     ELSE others < D.others /\ others' = others + 1 /\ UNCHANGED <<edits, faults>>
  /\ env' = [env EXCEPT ![o] = None] /\ report' = [report EXCEPT ![o] = None]
  /\ UNCHANGED <<checkouts, source, backend, state, done>>

\* cluster.yaml is edited, or pulled, at any time.
Edit(o) ==
  /\ edits < D.edits /\ yaml[o] # None
  /\ \E c \in DOMAIN D.clusters : c # yaml[o] /\ yaml' = [yaml EXCEPT ![o] = c]
  /\ done' = [done EXCEPT ![o] = FALSE] /\ edits' = edits + 1
  /\ UNCHANGED <<flags, workdir, process, backend, state, printed, faults, others>>

-----------------------------------------------------------------------------
(* cmdApply: what is rendered, and written.                                 *)

Loaded(o) == pc[o] = "load" /\ command[o] # "preflight"

\* LoadCluster refuses the file.
LoadFails(o) ==
  /\ Loaded(o) /\ ~Valid(o)
  /\ Exit(o)
  /\ UNCHANGED <<checkouts, backend, state, printed, done, bounds>>

Generate(o) ==
  /\ Loaded(o) /\ Valid(o)
  /\ source' = [source EXCEPT ![o] = At(o)]
  /\ goto(o, "write")
  /\ UNCHANGED <<checkouts, command, backend, state, printed, done, bounds>>

\* The workdir of o with its first n files written over.
Overwritten(o, n) ==
  [f \in File |-> IF f \in {FileNames[k] : k \in 1..n} THEN source[o] ELSE workdir[o][f]]

\* Mutant: an empty file does not replace what is there.
WriteFilesWithContent(o) ==
  /\ pc[o] = "write"
  /\ workdir' = [workdir EXCEPT ![o] = [f \in File |->
       IF foundationTemplate(f, data(o)) # {} \/ workdir[o][f] = None THEN source[o] ELSE workdir[o][f]]]
  /\ IF command[o] = "dry-run" THEN Exit(o) ELSE goto(o, "bucket") /\ UNCHANGED <<command, source>>
  /\ UNCHANGED <<yaml, flags, backend, state, printed, done, bounds>>

\* Nobody else reads the workdir, so that the six writes are one step here;
\* --dry-run goes no further.
WriteFiles(o) ==
  /\ pc[o] = "write"
  /\ workdir' = [workdir EXCEPT ![o] = Overwritten(o, 6)]
  /\ IF command[o] = "dry-run" THEN Exit(o) ELSE goto(o, "bucket") /\ UNCHANGED <<command, source>>
  /\ UNCHANGED <<yaml, flags, backend, state, printed, done, bounds>>

-----------------------------------------------------------------------------
(* EnsureBackend: is it there? if not, make it.                             *)

ensureBucket(o) ==
  /\ pc[o] = "bucket"
  /\ goto(o, IF bucket = "absent" THEN "createBucket" ELSE "table")
  /\ UNCHANGED <<checkouts, command, source, backend, state, printed, done, bounds>>

\* Another operator may have made it meanwhile: then the region decides
\* whether the call is an error.
CreateBucket(o) ==
  /\ pc[o] = "createBucket"
  /\ \/ goto(o, "table") /\ bucket' = "exists" /\ UNCHANGED <<command, source>>
     \/ bucket = "exists" /\ Exit(o) /\ UNCHANGED bucket
  /\ UNCHANGED <<checkouts, table, lock, state, printed, done, bounds>>

\* Mutant: the table is made without a look whether it is there.
ensureLockTableBlindly(o) ==
  /\ pc[o] = "table"
  /\ goto(o, "createTable")
  /\ UNCHANGED <<checkouts, command, source, backend, state, printed, done, bounds>>

ensureLockTable(o) ==
  /\ pc[o] = "table"
  /\ goto(o, IF table = "absent" THEN "createTable" ELSE "init")
  /\ UNCHANGED <<checkouts, command, source, backend, state, printed, done, bounds>>

CreateTable(o) ==
  /\ pc[o] = "createTable"
  /\ IF table = "absent"
       THEN goto(o, "init") /\ table' = "creating" /\ UNCHANGED <<command, source>>
       ELSE Exit(o) /\ UNCHANGED table
  /\ UNCHANGED <<checkouts, bucket, lock, state, printed, done, bounds>>

\* DynamoDB is done making the table.
TableActive ==
  /\ table = "creating" /\ table' = "active"
  /\ UNCHANGED <<checkouts, process, bucket, lock, state, printed, done, bounds>>

-----------------------------------------------------------------------------
(* The Executor: tofu init, plan, apply, output.                            *)

InitBackend(o) ==
  /\ pc[o] = "init"
  /\ goto(o, IF command[o] = "show-env" THEN "output" ELSE "plan")
  /\ UNCHANGED <<checkouts, command, source, backend, state, printed, done, bounds>>

\* What tofu finds in the workdir: the blocks of the files that are there.
Configuration(o) ==
  UNION {foundationTemplate(f, dataOf(workdir[o][f])) : f \in {g \in File : workdir[o][g] # None}}

\* The lock can be taken and every reference resolves.
CanPlan(o) == table = "active" /\ lock = None /\ Resolves(Configuration(o))

\* Plan; without --approve that is all.
Plan(o) ==
  /\ pc[o] = "plan"
  /\ IF CanPlan(o) /\ command[o] = "approve"
       THEN goto(o, "apply") /\ UNCHANGED <<command, source>>
       ELSE Exit(o)
  /\ UNCHANGED <<checkouts, backend, state, printed, done, bounds>>

\* Apply: tofu reads the workdir and plans once more, now holding the lock.
ApplyStarts(o) ==
  /\ pc[o] = "apply"
  /\ IF CanPlan(o) THEN goto(o, "applying") /\ lock' = o /\ UNCHANGED <<command, source>>
                   ELSE Exit(o) /\ UNCHANGED lock
  /\ UNCHANGED <<checkouts, bucket, table, state, printed, done, bounds>>

\* The storage entries the files in the workdir declare, by address, and what
\* tofu wants of the file system of each, in the network it is declared with.
entryAt(storage, a) == CHOOSE e \in Range(storage) : fileSystem(e) = a

wantedOf(e, where) ==
  IF e.kind = "efs"
    THEN [path |-> e.path, token |-> e.token, deployment |-> "", place |-> <<>>, capacity |-> 0]
    ELSE [path |-> e.path, token |-> <<>>, deployment |-> e.deployment, place |-> where,
          capacity |-> e.capacity]

Wanted(o) ==
  LET s == dataOf(workdir[o]["storage"]).storage
      where == dataOf(workdir[o]["network"]).place IN
  [a \in {fileSystem(s[i]) : i \in DOMAIN s} |-> wantedOf(entryAt(s, a), where)]

\* An FSx file system may grow, but not shrink.
Fitting(old, new) ==
  old.capacity <= new.capacity /\ (new.deployment = "SCRATCH_1" => old.capacity = new.capacity)

\* A file system is kept, under the path its tag now says.
Kept(a, new) ==
  /\ a \in DOMAIN fs /\ fs[a].token = new.token
  /\ fs[a].deployment = new.deployment /\ fs[a].place = new.place /\ Fitting(fs[a], new)

Provisioned(a, new) ==
  [path |-> new.path, token |-> new.token, deployment |-> new.deployment, place |-> new.place,
   capacity |-> new.capacity, id |-> IF Kept(a, new) THEN fs[a].id ELSE <<born, a>>]

\* tofu has got the file systems in S done: made, changed, or taken away; of those it
\* replaces it has only taken away the ones in lost.
Carry(o, S, lost) ==
  LET want == Wanted(o) IN
  /\ \A a \in lost : a \in DOMAIN want \ S /\ ~Kept(a, want[a])
  /\ fs' = [a \in (DOMAIN fs \ (S \cup lost)) \cup (DOMAIN want \cap S) |->
             IF a \in S THEN Provisioned(a, want[a]) ELSE fs[a]]
  /\ born' = IF \A a \in S \cap DOMAIN want : Kept(a, want[a]) THEN born ELSE born + 1

\* The efs outputs, each of the file system with its index.
Outputs(o) ==
  LET s == dataOf(workdir[o]["outputs"]).storage IN
  [n \in {s[i].index : i \in {j \in DOMAIN s : s[j].kind = "efs"}} |->
    fs'[fileSystem([kind |-> "efs", index |-> n])].id]

ApplySucceeds(o) ==
  /\ pc[o] = "applying"
  /\ Carry(o, DOMAIN fs \cup DOMAIN Wanted(o), {})
  /\ dns' = Outputs(o) /\ config' = source[o]
  /\ done' = [done EXCEPT ![o] = Valid(o) /\ source[o] = At(o)]
  /\ lock' = None /\ goto(o, "output")
  /\ UNCHANGED <<checkouts, command, source, bucket, table, printed, bounds>>

\* Apply fails part of the way, or q0 and tofu are interrupted and tofu has the
\* time to write the state; or tofu is killed outright, and the lock stays.
ApplyFails(o) ==
  /\ pc[o] = "applying" /\ Faulty /\ faults' = faults + 1
  /\ \E S \in SUBSET (DOMAIN fs \cup DOMAIN Wanted(o)), lost \in SUBSET DOMAIN fs : Carry(o, S, lost)
  /\ config' = None /\ lock' \in {None, o} /\ UNCHANGED dns
  /\ Exit(o)
  /\ UNCHANGED <<checkouts, bucket, table, printed, done, edits, others>>

\* A person sees that nobody holds the lock: tofu force-unlock.
ForceUnlock ==
  /\ lock # None /\ pc[lock] # "applying"
  /\ lock' = None
  /\ UNCHANGED <<checkouts, process, bucket, table, state, printed, done, bounds>>

\* Output takes no lock; a failure of it counts as no outputs.
PrintEnv(o) ==
  /\ pc[o] = "output"
  /\ \/ env' = [env EXCEPT ![o] = applyEnvLines(cluster(source[o]).storage, dns)] /\ UNCHANGED faults
     \/ Faulty /\ faults' = faults + 1 /\ env' = [env EXCEPT ![o] = {}]
  /\ Exit(o)
  /\ UNCHANGED <<checkouts, backend, state, report, done, edits, others>>

-----------------------------------------------------------------------------
\* A call fails or the command is interrupted, anywhere but in an apply; the
\* files may be written up to one that is left truncated.
Dies(o) ==
  /\ pc[o] \notin {"idle", "applying"} /\ Faulty /\ faults' = faults + 1
  /\ workdir' \in {workdir} \cup
       IF pc[o] # "write" THEN {}
       ELSE {[workdir EXCEPT ![o] = [Overwritten(o, n) EXCEPT ![FileNames[n]] = None]] : n \in 1..6}
  /\ Exit(o)
  /\ UNCHANGED <<yaml, flags, backend, state, printed, done, edits, others>>

\* q0 preflight, of the cluster.yaml in the checkout.
RunPreflight(o) ==
  /\ pc[o] = "load" /\ command[o] = "preflight"
  /\ IF Valid(o)
       THEN \E region \in D.regions, rungs \in D.chains,
               quota \in BOOLEAN, broken \in D.broken :
              report' = [report EXCEPT ![o] =
                [cluster |-> cluster(At(o)), rungs |-> rungs, quota |-> quota, region |-> region,
                 said |-> Run(cluster(At(o)), rungs, quota, region, broken)]]
       ELSE UNCHANGED report
  /\ Exit(o)
  /\ UNCHANGED <<checkouts, backend, state, env, done, bounds>>

-----------------------------------------------------------------------------
Step(o) ==
  \/ LoadFails(o) \/ Generate(o) \/ WriteFiles(o)
  \/ ensureBucket(o) \/ CreateBucket(o) \/ ensureLockTable(o) \/ CreateTable(o)
  \/ InitBackend(o) \/ Plan(o) \/ ApplyStarts(o) \/ ApplySucceeds(o) \/ PrintEnv(o)
  \/ RunPreflight(o)

Others == TableActive \/ ForceUnlock

Next ==
  /\ \/ \E o \in Taking : Step(o) \/ ApplyFails(o) \/ Dies(o) \/ Edit(o)
     \/ \E o \in Taking : Checkout(o)
     \/ \E o \in Taking, c \in Command : Start(o, c)
     \/ Others
  /\ UNCHANGED deployment

Same == UNCHANGED deployment

\* A command that runs goes on, and an operator whose file is not applied tries
\* again; DynamoDB finishes a table, and a lock that nobody holds is taken away
\* (the two are never there to be done together).
Fairness ==
  /\ \A o \in Operator : WF_vars(Same /\ o \in Taking /\ (Step(o) \/ Start(o, "approve")))
  /\ WF_vars(Same /\ Others)

Spec == Init /\ [][Next]_vars
FairSpec == Spec /\ Fairness
-----------------------------------------------------------------------------
(* Properties.                                                              *)

\* What q0 hands to tofu plan resolves, whatever combination of network,
\* egress, controller and storage was asked for, unless the numbers do not
\* fit: more zones than the region has, or (the templates count the mount
\* targets by --az-count also for a network brought along) fewer subnets
\* than mount targets.
RenderedResolves ==
  \A o \in Taking : pc[o] = "plan" =>
    (Resolves(Configuration(o)) <=> Fits(data(o)))

\* What is applied is one rendering of one cluster.yaml, the one
\* this command loaded, and never a mix with what an earlier command (of
\* another version of the file, or one that died while writing) left behind.
AppliedIsOneRendering ==
  \A o \in Taking : pc[o] = "applying" =>
    Configuration(o) = Foundation(data(o))

\* The mount spec printed for a layer that stands as this cluster.yaml says
\* it pairs each EFS mount path with the file system provisioned for it, and
\* leaves none out: the template and applyEnvLines count alike.
EnvPairsPathWithItsFileSystem ==
  [][\A o \in Taking :
       PrintEnv(o) /\ UNCHANGED faults /\ config # None
       /\ cluster(config).storage = cluster(source[o]).storage
       => env'[o] = {[path |-> fs[a].path, dns |-> fs[a].id] :
                       a \in {b \in DOMAIN fs : b[1] = "aws_efs_file_system"}}]_vars

\* A storage entry that stays where it is in cluster.yaml, with its kind and its path,
\* keeps its file system, whatever becomes of the other entries and of the rest of the
\* file, and also in an apply that fails half way; a Lustre entry, only while its
\* deployment type and the cluster's VPC and first subnet stay too and its capacity
\* does not shrink (generate.go:699-702; under SCRATCH_1 does not change).
EntryKeepsItsFileSystem ==
  [][\A o \in Taking : pc[o] = "applying" /\ (ApplySucceeds(o) \/ ApplyFails(o)) =>
       \A e \in Range(data(o).storage) : LET a == fileSystem(e) IN
         a \in DOMAIN fs /\ fs[a].path = e.path
         /\ \/ e.kind = "efs"
            \/ /\ fs[a].deployment = e.deployment /\ fs[a].place = data(o).place
               /\ Fitting(fs[a], e)
         => a \in DOMAIN fs' /\ fs'[a].id = fs[a].id]_vars

\* Once an apply is complete, there is a file system of the cluster for the path of the
\* controller's save-state directory (validateStateDir; that the controller mounts it
\* there nothing in the layer sees to: generate.go:601-603).
StateDirIsProvisioned ==
  config # None /\ cluster(config).type /\ cluster(config).stateDir # <<>> =>
    \E a \in DOMAIN fs : IsPrefix(fs[a].path, cluster(config).stateDir)

\* An operator who retries gets a sound cluster.yaml applied, past the races
\* of a first apply, a table that is still being made, the lock of another
\* operator, and interruptions that leave files, resources and locks behind.
Sound(o) == Valid(o) /\ Fits(dataOf(At(o)))

ApplyConverges == \A o \in Operator : <>[](o \in Taking /\ yaml[o] # None /\ Sound(o)
                                             /\ "approve" \in D.commands => done[o])

\* A preflight that got its answers passes exactly when the region serves the
\* cluster and every rung can be launched on, and when it does not, it names
\* each rung that cannot be.
PreflightExact ==
  \A o \in Taking :
    LET r == report[o] IN
    r # None /\ ~r.said.err /\ r.quota /\ PlainlySpelled(r.rungs) =>
      /\ OK(r.said) <=> Serves(r.region, r.cluster, r.rungs)
      /\ \A n \in DOMAIN r.rungs : ~Launchable(r.region, r.rungs[n]) =>
           \E x \in Range(r.said.results) :
             /\ x.check \in {"az-valid", "instance-type-offered", "service-quota"}
             /\ x.target = r.rungs[n] /\ ~x.ok
=============================================================================
