------------------------------ MODULE Preflight ------------------------------
(***************************************************************************)
(* `q0 preflight` (internal/preflight, and internal/preflight/truffleck    *)
(* for the quotas): the read-only questions it asks of the provider about  *)
(* cluster.yaml and the rungs of partitions.yaml, and the report it makes  *)
(* of the answers.                                                         *)
(*                                                                         *)
(* region is the provider's truth: its zones, the types it offers and      *)
(* where, whether the AMI exists, which of the subnets do, and whether the *)
(* vCPU quota has room under either purchase model.  broken is the set of  *)
(* the questions whose call fails; EC2 may answer so also about an AMI or  *)
(* a subnet it does not know.                                              *)
(***************************************************************************)
EXTENDS Integers, SequencesExt, FiniteSetsExt

\* What partitions.yaml may say of a rung's purchase, and what it means; Spot
\* stands for the words that are not in lower case.
capacityModelFromString(word) ==
  CASE word \in {"ondemand", "on-demand", ""}            -> "ondemand"
    [] word \in {"spot", "Spot"}                         -> "spot"
    [] word \in {"reserved", "odcr", "capacity-block"}   -> "reserved"

\* ServiceQuotaOK: truffleck reads the word as it is spelled.
ServiceQuotaOK(region, rung) ==
  CASE rung.model = "reserved" -> TRUE
    [] rung.model = "spot"     -> region.spot
    [] OTHER                   -> region.ondemand

Result(check, target, ok) == [check |-> check, target |-> target, ok |-> ok]

\* A rung in a zone the region has not is not asked about any further.
rungResults(region, quota, rung) ==
  IF rung.az \notin region.zones THEN <<Result("az-valid", rung, FALSE)>>
  ELSE <<Result("instance-type-offered", rung, <<rung.type, rung.az>> \in region.offered)>>
       \o (IF quota THEN <<Result("service-quota", rung, ServiceQuotaOK(region, rung))>> ELSE <<>>)

\* Every question, in the order of Run; quota is false under --no-quota.
questions(cluster, rungs, quota, region) ==
  (IF cluster.ami THEN <<Result("ami-exists", "ami", region.image)>> ELSE <<>>)
  \o (IF cluster.byo
        THEN [k \in 1..cluster.subnets |-> Result("subnet-exists", k, k \in region.subnets)]
        ELSE <<>>)
  \o FlattenSeq([r \in DOMAIN rungs |-> rungResults(region, quota, rungs[r])])

\* Mutant: a question that got no answer is passed over.
RunPassingOver(cluster, rungs, quota, region, broken) ==
  [results |-> SelectSeq(questions(cluster, rungs, quota, region),
                         LAMBDA r : r.check \notin broken),
   err |-> "zones" \in broken]

\* A question that gets no answer: its call fails, or it is about the vCPUs of
\* a type that the region has nowhere.  Nobody is asked about the quota of a
\* reserved rung.
Unanswered(r, region, broken) ==
  IF r.check # "service-quota" THEN r.check \in broken
  ELSE /\ r.target.model # "reserved"
       /\ r.check \in broken \/ r.target.type \notin {o[1] : o \in region.offered}

\* Run: the first call that fails ends it.
Run(cluster, rungs, quota, region, broken) ==
  LET q == questions(cluster, rungs, quota, region)
      failing == {i \in DOMAIN q : Unanswered(q[i], region, broken)} IN
  IF "zones" \in broken THEN [results |-> <<>>, err |-> TRUE]
  ELSE IF failing # {} THEN [results |-> SubSeq(q, 1, Min(failing) - 1), err |-> TRUE]
  ELSE [results |-> q, err |-> FALSE]

\* Report.OK.
OK(report) == \A i \in DOMAIN report.results : report.results[i].ok

-----------------------------------------------------------------------------
(* What the report is about: can the region serve this cluster?             *)

\* The reconciler can launch on a rung.
Launchable(region, rung) ==
  /\ rung.az \in region.zones /\ <<rung.type, rung.az>> \in region.offered
  /\ CASE capacityModelFromString(rung.model) = "reserved" -> TRUE
       [] capacityModelFromString(rung.model) = "spot"     -> region.spot
       [] OTHER                                            -> region.ondemand

Serves(region, cluster, rungs) ==
  /\ cluster.ami => region.image
  /\ cluster.byo => 1..cluster.subnets \subseteq region.subnets
  /\ \A r \in DOMAIN rungs : Launchable(region, rungs[r])

\* The words truffleck and internal/spec agree on.
PlainlySpelled(rungs) ==
  \A r \in DOMAIN rungs : rungs[r].model \in {"ondemand", "on-demand", "", "spot", "reserved"}
=============================================================================
