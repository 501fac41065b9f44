---------------------------- MODULE PeerAssembly ----------------------------
(***************************************************************************)
(* The wire-up of collective cohorts: after the barrier mpi.Assembler      *)
(* sorts the members by name, gives them ranks and publishes the manifest  *)
(* to S3, under a key made from the lowest name.  Each cohort is the work  *)
(* of one process; a node is in one cohort at a time but in many one after *)
(* the other, and all of them share the bucket.                            *)
(*                                                                         *)
(* A member's Address is what the Enroller said as its detail when the     *)
(* member was enrolled.  The Enroller that is wired reads it from the tag  *)
(* q0:detail, where q0-spored has put "all probes ok"; one that would say  *)
(* the address of the member's instance is considered beside it.           *)
(* A behaviour is of one deployment, which bounds what happens in it.      *)
(***************************************************************************)
EXTENDS Integers, Sequences, FiniteSets, SequencesExt

CONSTANTS
  Node,        \* names are numbers, in the order of the names
  Program,
  Deployments, \* the deployments to consider
  None

\* A request that failed lands when its process is gone.
FaultKind == {"late"}

\* What goes wrong; what the Enroller says ("tags" as it is wired); whether a node
\* may be resumed again while a resume that Slurm gave up is still at it; the highest
\* name, and how many instances a node has in time.
Deployment ==
  [faults : SUBSET FaultKind, enroller : {"tags", "address"}, overlap : BOOLEAN,
   nodes : Nat, launches : Nat]

ASSUME AssemblyAssumption ==
  Node \subseteq Nat /\ None \notin Program /\ Deployments \subseteq Deployment

VARIABLES
  deployment,  \* which one this behaviour is of
  owner,       \* the program whose cohort a node is in
  ip,          \* the address of a node's instance: which of its instances it is
  pc, hosts,   \* a program, and its cohort in the order of the hostlist
  members,     \* the Observations Assemble gets
  bucket,      \* S3: manifest by key, of the keys it has
  inflight,    \* requests that failed and may still land
  published    \* history: what was published, of which members, for which cohort

vars == <<deployment, owner, ip, pc, hosts, members, bucket, inflight, published>>

NoAddress == 0

\* "all probes ok", in the place of an address.
AllProbesOK == -1

\* What the Enroller says of a node that is ready.
Detail(n) == IF deployment.enroller = "tags" THEN AllProbesOK ELSE ip[n]

Obs == [ID : Node, Address : (0..deployment.launches) \cup {AllProbesOK}]

Init ==
  /\ deployment \in Deployments
  /\ owner = [n \in Node |-> None] /\ ip = [n \in Node |-> NoAddress]
  /\ pc = [p \in Program |-> "none"]
  /\ hosts = [p \in Program |-> <<>>] /\ members = [p \in Program |-> <<>>]
  /\ bucket = [k \in {} |-> None] /\ inflight = {} /\ published = {}

goes(p, from, to) == pc[p] \in from /\ pc' = [pc EXCEPT ![p] = to]

\* The process is gone; a cohort that came up is remembered.
exits(p, from, to) ==
  /\ goes(p, from, to) /\ members' = [members EXCEPT ![p] = <<>>]
  /\ hosts' = [hosts EXCEPT ![p] = IF to = "ready" THEN @ ELSE <<>>]

-----------------------------------------------------------------------------
\* A cohort of two or more; a node that still has an instance may get it again.
Resume(p, ns, fresh) ==
  /\ goes(p, {"none"}, "reconcile")
  /\ Cardinality(ns) >= 2 /\ ns \subseteq 1..deployment.nodes /\ fresh \subseteq ns
  /\ \A n \in ns : (owner[n] = None \/ deployment.overlap) /\ (ip[n] = NoAddress => n \in fresh)
  /\ \A n \in fresh : ip[n] < deployment.launches
  /\ \E order \in SetToSeqs(ns) : hosts' = [hosts EXCEPT ![p] = order]
  /\ owner' = [n \in Node |-> IF n \in ns THEN p ELSE owner[n]]
  /\ ip' = [n \in Node |-> IF n \in fresh THEN ip[n] + 1 ELSE ip[n]]
  /\ UNCHANGED <<members, bucket, inflight, published>>

\* The barrier is down; of some members the detail may not have been read (the tags
\* of an instance do not appear all at once).
IsEnrolled(p, silent) ==
  /\ goes(p, {"reconcile"}, "assemble")
  /\ members' = [members EXCEPT ![p] =
       [i \in DOMAIN hosts[p] |->
          [ID |-> hosts[p][i],
           Address |-> IF hosts[p][i] \in silent THEN NoAddress ELSE Detail(hosts[p][i])]]]
  /\ UNCHANGED <<owner, ip, hosts, bucket, inflight, published>>

\* Mutant: ranks in the order in which the members come.
unordered(ms) == ms

\* sort.Slice.
ordered(ms) ==
  CHOOSE s \in [DOMAIN ms -> Range(ms)] :
    Range(s) = Range(ms) /\ \A i, j \in DOMAIN s : i < j => s[i].ID < s[j].ID

\* Mutant: no name in the key.
commonKey(ms) == CHOOSE n \in Node : \A m \in Node : n <= m

cohortKey(ms) == ordered(ms)[1].ID

Manifest(ms) ==
  [Cohort |-> cohortKey(ms),
   Peers |-> [i \in DOMAIN ms |->
                [Rank |-> i - 1, Entity |-> ordered(ms)[i].ID, Address |-> ordered(ms)[i].Address]]]

addressed(ms) == \A i \in DOMAIN ms : ms[i].Address # NoAddress

Put(manifest) ==
  bucket' = [k \in DOMAIN bucket \cup {manifest.Cohort} |->
               IF k = manifest.Cohort THEN manifest ELSE bucket[k]]

\* Assemble up to the request, and the answer to it.
Publish(p) ==
  /\ addressed(members[p])
  /\ published' = published \cup
       {[cohort |-> hosts[p], of |-> Range(members[p]), manifest |-> Manifest(members[p])]}
  /\ UNCHANGED <<owner, ip>>

PublishOK(p) ==
  /\ exits(p, {"assemble"}, "ready") /\ Publish(p)
  /\ Put(Manifest(members[p])) /\ UNCHANGED inflight

PublishFails(p) ==
  /\ exits(p, {"assemble"}, "failed") /\ Publish(p)
  /\ \/ Put(Manifest(members[p])) /\ UNCHANGED inflight
     \/ UNCHANGED <<bucket, inflight>>
     \/ /\ "late" \in deployment.faults /\ UNCHANGED bucket
        /\ inflight' = inflight \cup {Manifest(members[p])}

AssembleRefuses(p) ==
  /\ exits(p, {"assemble"}, "failed") /\ ~addressed(members[p])
  /\ UNCHANGED <<owner, ip, bucket, inflight, published>>

\* The reconcile fails before assembly, or the process dies.
Fails(p) ==
  /\ exits(p, {"reconcile", "assemble"}, "failed")
  /\ UNCHANGED <<owner, ip, bucket, inflight, published>>

Lands(m) ==
  /\ m \in inflight /\ inflight' = inflight \ {m} /\ Put(m)
  /\ UNCHANGED <<owner, ip, pc, hosts, members, published>>

\* Suspended, or never come up: node by node.
Leave(n) ==
  /\ owner[n] # None /\ pc[owner[n]] \in {"ready", "failed"}
  /\ owner' = [owner EXCEPT ![n] = None]
  /\ UNCHANGED <<ip, pc, hosts, members, bucket, inflight, published>>

Next ==
  /\ UNCHANGED deployment
  /\ \/ \E p \in Program :
          \/ \E ns \in SUBSET Node : \E fresh \in SUBSET ns : Resume(p, ns, fresh)
          \/ \E silent \in SUBSET Range(hosts[p]) : IsEnrolled(p, silent)
          \/ PublishOK(p) \/ PublishFails(p) \/ AssembleRefuses(p) \/ Fails(p)
     \/ \E m \in inflight : Lands(m)
     \/ \E n \in Node : Leave(n)

Spec == Init /\ [][Next]_vars

-----------------------------------------------------------------------------
Peer == [Rank : Nat, Entity : Node, Address : (1..deployment.launches) \cup {AllProbesOK}]

TypeOK ==
  /\ deployment \in Deployments
  /\ owner \in [Node -> Program \cup {None}] /\ ip \in [Node -> 0..deployment.launches]
  /\ pc \in [Program -> {"none", "reconcile", "assemble", "ready", "failed"}]
  /\ \A p \in Program : IsInjective(hosts[p]) /\ Range(hosts[p]) \subseteq Node
                        /\ Range(members[p]) \subseteq Obs
  /\ \A x \in published : Range(x.manifest.Peers) \subseteq Peer
  /\ DOMAIN bucket \subseteq Node /\ Range(bucket) \subseteq {x.manifest : x \in published}
  /\ inflight \subseteq {x.manifest : x \in published}

\* Where no request lands late and resumes of a node do not overlap, and as long as
\* all members of a cohort that assembled are in it, its manifest can be fetched and
\* is its own: each member once, ranks from zero in the order of the names, with what
\* the Enroller says of the instances that run (Assemble, manifestKey,
\* S3Publisher.Publish).
OwnManifest ==
  \A p \in Program :
    LET ms == Range(hosts[p]) IN
    deployment.faults = {} /\ ~deployment.overlap /\ pc[p] = "ready" /\ (\A n \in ms : owner[n] = p) =>
      \E k \in ms :
        /\ (\A n \in ms : k <= n) /\ k \in DOMAIN bucket /\ bucket[k].Cohort = k
        /\ Len(bucket[k].Peers) = Cardinality(ms)
        /\ \A n \in ms :
             [Rank |-> Cardinality({m \in ms : m < n}), Entity |-> n, Address |-> Detail(n)]
               \in Range(bucket[k].Peers)

\* A wire-up repeated over the same members, in whatever order they come, gives
\* the same manifest (assembler.go:65, "a re-issued assembly produces the
\* identical manifest").
ReissueIsIdentical ==
  \A x, y \in published : x.of = y.of => x.manifest = y.manifest

\* "private address, once Running - domain may need it" (entity.go:126): what a
\* manifest gives as the address of a peer is that of an instance of the node.  It does
\* not hold: see Detail.
ManifestHasAddresses ==
  \A x \in published : \A peer \in Range(x.manifest.Peers) : peer.Address \in 1..ip[peer.Entity]

=============================================================================
