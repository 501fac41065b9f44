----------------------------- MODULE Foundation -----------------------------
(***************************************************************************)
(* What `q0 apply cluster` makes of cluster.yaml: the validation of        *)
(* internal/spec, the six files internal/tofu renders, and the environment *)
(* cmd/q0 prints from the outputs of the applied layer.                    *)
(*                                                                         *)
(* A cluster is the record cluster.yaml is parsed into; a Boolean stands   *)
(* for a field that only has to be set, a path is the sequence of its      *)
(* segments after filepath.Clean, <<>> the empty string.  Of subnetIds     *)
(* there are the number and the first; a cidr that does not parse is "".   *)
(* The name and the region of a cluster (identity) are never edited: with  *)
(* another name everything it has would be another's.                      *)
(* A file is the set of blocks it declares.  An address is a triple: type, *)
(* name, and the element of a counted resource or of a list, 0 when there  *)
(* is none; what names an address that no block declares is an error of    *)
(* `tofu plan`, an index past the end of a list included.                  *)
(***************************************************************************)
EXTENDS Integers, SequencesExt

CONSTANT Zones   \* availability zones of the region (the provider's answer)

ASSUME ZonesAssumption == Zones \in Nat \ {0}

StorageSpec ==
  [kind : STRING, path : Seq(STRING), deployment : STRING, capacity : Int, linked : BOOLEAN]

\* What cluster.yaml may be parsed into, and the flags of the command.
ClusterYAML ==
  [identity : BOOLEAN, byo : BOOLEAN, vpcId : STRING, subnets : Nat, firstSubnet : STRING,
   cidr : STRING, egress : STRING, type : BOOLEAN, ami : BOOLEAN, standby : BOOLEAN,
   accountingDb : BOOLEAN, stateDir : Seq(STRING), storage : Seq(StorageSpec)]

FoundationOpts == [manifest : BOOLEAN, azCount : Int]

-----------------------------------------------------------------------------
(* internal/spec: validation.                                               *)

validNetwork(c) ==
  /\ c.egress \in {"", "nat-gateway", "nat-instance", "endpoints-only"}
  /\ IF c.byo THEN c.vpcId # "" /\ c.subnets > 0 ELSE c.cidr # ""

validEntry(s) ==
  /\ s.path # <<>> /\ s.kind \in {"efs", "fsx-lustre"}
  /\ s.kind = "fsx-lustre" =>
       /\ s.deployment \in {"", "SCRATCH_1", "SCRATCH_2", "PERSISTENT_1", "PERSISTENT_2"}
       /\ s.capacity >= 0 /\ s.capacity % 1200 = 0

validStorage(c) ==
  /\ \A i \in DOMAIN c.storage : validEntry(c.storage[i])
  /\ \A i, j \in DOMAIN c.storage : c.storage[i].path = c.storage[j].path => i = j

validController(c) ==
  c.type \/ c.ami \/ c.standby \/ c.accountingDb \/ c.stateDir # <<>> => c.type /\ c.ami

\* Mutant: the two arguments change places.
mountUnder(path, mount) == IsPrefix(path, mount)

underMount(path, mount) == IsPrefix(mount, path)

validStateDir(c) ==
  c.type /\ c.stateDir # <<>> =>
    \E i \in DOMAIN c.storage : underMount(c.stateDir, c.storage[i].path)

validate(c) ==
  c.identity /\ validNetwork(c) /\ validStorage(c) /\ validController(c) /\ validStateDir(c)

-----------------------------------------------------------------------------
(* What the templates are given.                                            *)

\* Mutants: the index counts the entries of the same kind; the token also
\* says how many entries there are.
buildStorageByKind(c) ==
  [i \in DOMAIN c.storage |->
    LET s == c.storage[i]
        at == Len(SelectSeq(SubSeq(c.storage, 1, i), LAMBDA t : t.kind = s.kind)) IN
    [index |-> at, kind |-> s.kind, path |-> s.path, token |-> <<s.kind, at>>,
     capacity |-> IF s.capacity = 0 THEN 1200 ELSE s.capacity,
     deployment |-> IF s.deployment = "" THEN "SCRATCH_2" ELSE s.deployment,
     linked |-> s.linked]]
buildStorageCounted(c) ==
  [i \in DOMAIN c.storage |->
    LET s == c.storage[i] IN
    [index |-> i, kind |-> s.kind, path |-> s.path, token |-> <<s.kind, i, Len(c.storage)>>,
     capacity |-> IF s.capacity = 0 THEN 1200 ELSE s.capacity,
     deployment |-> IF s.deployment = "" THEN "SCRATCH_2" ELSE s.deployment,
     linked |-> s.linked]]

\* One entry of the template's Storage per entry of the spec, numbered by its
\* position there; the capacity, the deployment type and the link count for
\* fsx-lustre only.
buildStorage(c) ==
  [i \in DOMAIN c.storage |->
    LET s == c.storage[i] IN
    [index |-> i, kind |-> s.kind, path |-> s.path, token |-> <<s.kind, i>>,
     capacity |-> IF s.capacity = 0 THEN 1200 ELSE s.capacity,
     deployment |-> IF s.deployment = "" THEN "SCRATCH_2" ELSE s.deployment,
     linked |-> s.linked]]

\* The VPC a cluster is in and the first subnet there.
place(c) == IF c.byo THEN <<"byo", c.vpcId, c.firstSubnet>> ELSE <<"generated", c.cidr>>

resolveEgressMode(mode) == IF mode = "" THEN "nat-gateway" ELSE mode

\* Mutant: the flag is assigned by every entry, and the last one wins.
LastIs(storage, kind) == storage # <<>> /\ storage[Len(storage)].kind = kind

\* HasEFS and HasLustre.
Has(storage, kind) == \E i \in DOMAIN storage : storage[i].kind = kind

\* flags: what the command line gives, a manifest bucket and --az-count.
templateData(c, flags) ==
  [byo |-> c.byo, subnets |-> c.subnets, place |-> place(c), egress |-> resolveEgressMode(c.egress),
   controller |-> c.type, standby |-> c.standby,
   storage |-> buildStorage(c), manifest |-> flags.manifest,
   azCount |-> IF flags.azCount <= 0 THEN 2 ELSE flags.azCount]

-----------------------------------------------------------------------------
(* The templates.                                                           *)

Address(type, name) == <<type, name, 0>>

Block(declared, used) == [declares |-> {declared}, uses |-> used]
Resource(type, name, used) == Block(Address(type, name), used)

When(condition, blocks) == IF condition THEN blocks ELSE {}

vpcId == Address("local", "vpc_id")
subnetId(k) == <<"local", "subnet_ids", k>>
group(name) == Address("aws_security_group", name)

mainTF(d) ==
  {Resource("aws_s3_bucket", "scripts", {}),
   Resource("aws_s3_bucket_versioning", "scripts", {Address("aws_s3_bucket", "scripts")}),
   Resource("aws_s3_bucket_public_access_block", "scripts",
            {Address("aws_s3_bucket", "scripts")}),
   Resource("aws_iam_role", "node", {}),
   Resource("aws_iam_role_policy", "node_scripts_read",
            {Address("aws_iam_role", "node"), Address("aws_s3_bucket", "scripts")}),
   Resource("aws_iam_instance_profile", "node", {Address("aws_iam_role", "node")})}
  \cup When(d.manifest,
    {Resource("aws_s3_bucket", "manifest", {}),
     Resource("aws_s3_bucket_public_access_block", "manifest",
              {Address("aws_s3_bucket", "manifest")})})

\* The network brought along: its VPC and its subnets are literals.
byoNetwork(d) ==
  {[declares |-> {vpcId} \cup {subnetId(k) : k \in 1..d.subnets}, uses |-> {}]}

vpc == Address("aws_vpc", "this")
public(k) == <<"aws_subnet", "public", k>>
private(k) == <<"aws_subnet", "private", k>>
zone(k) == <<"data.aws_availability_zones", "available", k>>
routes(name) == Address("aws_route_table", name)

\* The way out of the private subnets: one resource that is the target of
\* their default route, or none at all.
egressBlocks(d) ==
  When(d.egress = "nat-gateway",
    {Resource("aws_eip", "nat", {}),
     Resource("aws_nat_gateway", "this",
              {Address("aws_eip", "nat"), public(1), Address("aws_internet_gateway", "this")}),
     Resource("aws_route", "private_default",
              {routes("private"), Address("aws_nat_gateway", "this")})})
  \cup When(d.egress = "nat-instance",
    {Resource("data.aws_ssm_parameter", "nat_ami", {}),
     Resource("aws_security_group", "nat", {vpc}),
     Resource("aws_instance", "nat",
              {Address("data.aws_ssm_parameter", "nat_ami"), public(1), group("nat")}),
     Resource("aws_route", "private_default",
              {routes("private"), Address("aws_instance", "nat")})})

generatedNetwork(d) ==
  {[declares |-> {zone(k) : k \in 1..Zones}, uses |-> {}],
   Block(vpc, {}),
   Resource("aws_internet_gateway", "this", {vpc}),
   Block(routes("public"), {vpc, Address("aws_internet_gateway", "this")}),
   Block(routes("private"), {vpc}),
   Resource("aws_vpc_endpoint", "s3", {vpc, routes("private")}),
   Resource("aws_vpc_endpoint", "dynamodb", {vpc, routes("private")}),
   [declares |-> {vpcId} \cup {subnetId(k) : k \in 1..d.azCount},
    uses |-> {vpc} \cup {private(k) : k \in 1..d.azCount}]}
  \cup {Block(public(k), {vpc, zone(k)}) : k \in 1..d.azCount}
  \cup {Block(private(k), {vpc, zone(k)}) : k \in 1..d.azCount}
  \cup {Block(<<"aws_route_table_association", "public", k>>, {public(k), routes("public")})
          : k \in 1..d.azCount}
  \cup {Block(<<"aws_route_table_association", "private", k>>, {private(k), routes("private")})
          : k \in 1..d.azCount}
  \cup egressBlocks(d)

networkTF(d) ==
  (IF d.byo THEN byoNetwork(d) ELSE generatedNetwork(d))
  \cup {Resource("aws_security_group", "compute", {vpcId}),
        Resource("aws_security_group", "controller", {vpcId, group("compute")})}

\* The pet, and its standby.
pet(name) ==
  Resource("aws_instance", name,
    {subnetId(1), group("controller"), Address("aws_iam_instance_profile", "controller")})

controllerTF(d) ==
  When(d.controller,
    {Resource("aws_iam_role", "controller", {}),
     Resource("aws_iam_role_policy", "controller_ec2", {Address("aws_iam_role", "controller")}),
     Resource("aws_iam_instance_profile", "controller",
              {Address("aws_iam_role", "controller")}),
     pet("controller")}
    \cup When(d.standby, {pet("controller_standby")}))

fileSystem(s) ==
  <<IF s.kind = "efs" THEN "aws_efs_file_system" ELSE "aws_fsx_lustre_file_system", "", s.index>>

\* A file system, and what hangs on it: a mount target in each of the first
\* AZCount subnets, or the association with S3.
storageBlocks(d, s) ==
  IF s.kind = "efs"
    THEN {Block(fileSystem(s), {})}
         \cup {Block(<<"aws_efs_mount_target", s.index, k>>,
                     {fileSystem(s), subnetId(k), group("nfs")}) : k \in 1..d.azCount}
    ELSE {Block(fileSystem(s), {subnetId(1), group("lustre")})}
         \cup When(s.linked,
           {Block(<<"aws_fsx_data_repository_association", "", s.index>>, {fileSystem(s)})})

storageTF(d) ==
  When(Has(d.storage, "efs"),
    {Resource("aws_security_group", "nfs", {vpcId, group("compute"), group("controller")})})
  \cup When(Has(d.storage, "fsx-lustre"),
    {Resource("aws_security_group", "lustre", {vpcId, group("compute"), group("controller")})})
  \cup UNION {storageBlocks(d, d.storage[i]) : i \in DOMAIN d.storage}

\* One output of those that refer to the same block stands for them all.
output(name) == Address("output", name)
efsDNS(i) == <<"output", "efs_dns", i>>

outputsTF(d) ==
  {Block(output("node_instance_profile_arn"), {Address("aws_iam_instance_profile", "node")}),
   Block(output("scripts_bucket"), {Address("aws_s3_bucket", "scripts")}),
   Block(output("vpc_id"), {vpcId}),
   Block(output("subnet_ids"), {subnetId(1)}),
   Block(output("controller_sg_id"), {group("controller")}),
   Block(output("compute_sg_id"), {group("compute")})}
  \cup When(d.manifest,
    {Block(output("manifest_bucket"), {Address("aws_s3_bucket", "manifest")})})
  \cup When(d.controller,
    {Block(output("controller_private_ip"), {Address("aws_instance", "controller")})}
    \cup When(d.standby,
      {Block(output("controller_standby_private_ip"),
             {Address("aws_instance", "controller_standby")})}))
  \cup {Block(IF d.storage[i].kind = "efs" THEN efsDNS(d.storage[i].index)
                                           ELSE <<"output", "fsx_dns", d.storage[i].index>>,
              {fileSystem(d.storage[i])}) : i \in DOMAIN d.storage}

\* WriteFiles writes them in the order of their names.
FileNames == <<"controller", "main", "network", "outputs", "storage", "variables">>
File == {FileNames[n] : n \in 1..6}

foundationTemplate(f, d) ==
  CASE f = "controller" -> controllerTF(d)
    [] f = "main"       -> mainTF(d)
    [] f = "network"    -> networkTF(d)
    [] f = "outputs"    -> outputsTF(d)
    [] f = "storage"    -> storageTF(d)
    [] f = "variables"  -> {}

\* GenerateClusterFoundation, as tofu reads it: one configuration.
Foundation(d) == UNION {foundationTemplate(f, d) : f \in File}

Declared(blocks) == UNION {b.declares : b \in blocks}
Used(blocks)     == UNION {b.uses : b \in blocks}

\* Every reference is to something declared: the configuration can be planned.
Resolves(blocks) == Used(blocks) \subseteq Declared(blocks)

\* When a rendering can be planned: the zones it spreads over exist, and an
\* EFS file system finds the subnets its mount targets go to.
Fits(d) ==
  IF d.byo THEN Has(d.storage, "efs") => d.azCount <= d.subnets ELSE d.azCount <= Zones

-----------------------------------------------------------------------------
(* cmd/q0: the mount spec that is printed.                                  *)

\* applyEnvLines: the mount paths of the cluster.yaml at hand, zipped by
\* position with the efs outputs of the layer.  dns: those outputs, as a
\* function from the index in the output's name.
applyEnvLines(storage, dns) ==
  {[path |-> storage[i].path, dns |-> dns[i]] : i \in DOMAIN storage \cap DOMAIN dns}
=============================================================================
