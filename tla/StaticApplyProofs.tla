--------------------------- MODULE StaticApplyProofs ---------------------------
(***************************************************************************)
(* That what q0 renders for a valid cluster.yaml can be planned exactly    *)
(* when the numbers fit, whatever is asked for; then that what is applied  *)
(* is one rendering of one valid cluster.yaml, and what follows from it    *)
(* for the file systems and the printed environment: for any operators,    *)
(* versions of cluster.yaml, flags, edits and faults.                      *)
(***************************************************************************)
EXTENDS StaticApply, WellFoundedInduction, SequenceTheorems, TLAPS

\* What the templates can be given.
Data(d) ==
  /\ d.byo \in BOOLEAN /\ d.subnets \in Nat /\ (d.byo => d.subnets # 0)
  /\ d.egress \in {"nat-gateway", "nat-instance", "endpoints-only"}
  /\ d.azCount \in Nat \ {0}
  /\ \A i \in DOMAIN d.storage :
       d.storage[i].kind \in {"efs", "fsx-lustre"} /\ d.storage[i].index = i

\* A valid file gives the templates what they count on.
LEMMA DataOfValid ==
  ASSUME NEW c \in ClusterYAML, NEW opts \in FoundationOpts, validate(c)
  PROVE  Data(templateData(c, opts))
<1> DEFINE d == templateData(c, opts)
<1>1. d.byo \in BOOLEAN /\ d.subnets \in Nat /\ (d.byo => d.subnets # 0)
  <2>1. d.byo = c.byo /\ d.subnets = c.subnets
    BY DEF templateData
  <2>2. c.byo \in BOOLEAN /\ c.subnets \in Nat
    BY DEF ClusterYAML
  <2>3. c.byo => c.subnets # 0
    <3>1. validNetwork(c)
      BY DEF validate
    <3>2. c.byo => c.subnets > 0
      BY <3>1 DEF validNetwork
    <3> QED BY <3>2, <2>2
  <2> QED BY <2>1, <2>2, <2>3
<1>2. d.egress \in {"nat-gateway", "nat-instance", "endpoints-only"}
  BY DEF templateData, validate, validNetwork, resolveEgressMode
<1>3. d.azCount \in Nat \ {0}
  BY DEF templateData, FoundationOpts
<1>4. ASSUME NEW i \in DOMAIN d.storage
      PROVE  d.storage[i].kind \in {"efs", "fsx-lustre"} /\ d.storage[i].index = i
  <2>1. i \in DOMAIN c.storage
    BY <1>4 DEF templateData, buildStorage
  <2>2. d.storage[i].kind = c.storage[i].kind /\ d.storage[i].index = i
    BY <2>1 DEF templateData, buildStorage
  <2> QED BY <2>1, <2>2 DEF validate, validStorage, validEntry
<1> QED BY <1>1, <1>2, <1>3, <1>4 DEF Data

-----------------------------------------------------------------------------
\* What a file declares, the configuration declares.
LEMMA Declares ==
  ASSUME NEW d, NEW f \in File, NEW b \in foundationTemplate(f, d), NEW a \in b.declares
  PROVE  a \in Declared(Foundation(d))
BY DEF Declared, Foundation

\* The six files and their templates.
LEMMA Files ==
  /\ File = {"controller", "main", "network", "outputs", "storage", "variables"}
  /\ \A d : /\ foundationTemplate("controller", d) = controllerTF(d)
            /\ foundationTemplate("main", d) = mainTF(d)
            /\ foundationTemplate("network", d) = networkTF(d)
            /\ foundationTemplate("outputs", d) = outputsTF(d)
            /\ foundationTemplate("storage", d) = storageTF(d)
            /\ foundationTemplate("variables", d) = {}
<1>1. File = {"controller", "main", "network", "outputs", "storage", "variables"}
  BY DEF File, FileNames
<1>2. \A d : /\ foundationTemplate("controller", d) = controllerTF(d)
             /\ foundationTemplate("main", d) = mainTF(d)
             /\ foundationTemplate("network", d) = networkTF(d)
             /\ foundationTemplate("outputs", d) = outputsTF(d)
             /\ foundationTemplate("storage", d) = storageTF(d)
             /\ foundationTemplate("variables", d) = {}
  BY DEF foundationTemplate
<1> QED BY <1>1, <1>2

\* The subnets there are to refer to.
Subnets(d) == IF d.byo THEN d.subnets ELSE d.azCount

\* The fields of a block.
LEMMA BlockFields ==
  /\ \A a, u : Block(a, u).declares = {a} /\ Block(a, u).uses = u
  /\ \A t, n, u : Resource(t, n, u).declares = {Address(t, n)} /\ Resource(t, n, u).uses = u
BY DEF Block, Resource

\* What main.tf gives the others to refer to.
MainGives(d, S) ==
  /\ {Address("aws_s3_bucket", "scripts"), Address("aws_iam_role", "node"),
      Address("aws_iam_instance_profile", "node")} \subseteq S
  /\ d.manifest => Address("aws_s3_bucket", "manifest") \in S

\* main.tf declares what it gives.
LEMMA MainDeclares == \A d : MainGives(d, Declared(Foundation(d)))
<1> SUFFICES ASSUME NEW d PROVE MainGives(d, Declared(Foundation(d)))
  OBVIOUS
<1>1. \A b \in mainTF(d) : b.declares \subseteq Declared(Foundation(d))
  <2>1. "main" \in File /\ foundationTemplate("main", d) = mainTF(d)
    BY Files
  <2> QED BY <2>1, Declares
<1>2. \A t, n, u : Resource(t, n, u) \in mainTF(d) => Address(t, n) \in Declared(Foundation(d))
  BY <1>1, BlockFields
<1>3. /\ Resource("aws_s3_bucket", "scripts", {}) \in mainTF(d)
      /\ Resource("aws_iam_role", "node", {}) \in mainTF(d)
      /\ Resource("aws_iam_instance_profile", "node", {Address("aws_iam_role", "node")})
           \in mainTF(d)
      /\ d.manifest => Resource("aws_s3_bucket", "manifest", {}) \in mainTF(d)
  BY DEF mainTF, When
<1> QED BY <1>2, <1>3 DEF MainGives

\* What network.tf gives them.
NetworkGives(d, S) ==
  /\ {vpcId, group("compute"), group("controller")} \subseteq S
  /\ \A k \in 1..Subnets(d) : subnetId(k) \in S
  /\ ~d.byo =>
       /\ {vpc, Address("aws_internet_gateway", "this"), routes("public"), routes("private")}
            \subseteq S
       /\ \A k \in 1..d.azCount : public(k) \in S /\ private(k) \in S
       /\ \A k \in 1..Zones : zone(k) \in S
       /\ d.egress = "nat-gateway" =>
            {Address("aws_eip", "nat"), Address("aws_nat_gateway", "this")} \subseteq S
       /\ d.egress = "nat-instance" =>
            {Address("data.aws_ssm_parameter", "nat_ami"), group("nat"),
             Address("aws_instance", "nat")} \subseteq S

\* network.tf declares what it gives, brought along or generated.
LEMMA NetworkDeclares == \A d : NetworkGives(d, Declared(Foundation(d)))
<1> SUFFICES ASSUME NEW d PROVE NetworkGives(d, Declared(Foundation(d)))
  OBVIOUS
<1> DEFINE S == Declared(Foundation(d))
<1>1. \A b \in networkTF(d) : b.declares \subseteq S
  <2>1. "network" \in File /\ foundationTemplate("network", d) = networkTF(d)
    BY Files
  <2> QED BY <2>1, Declares
<1>2. /\ \A a, u : Block(a, u) \in networkTF(d) => a \in S
      /\ \A t, n, u : Resource(t, n, u) \in networkTF(d) => Address(t, n) \in S
  BY <1>1, BlockFields
<1>3. \A ds, u : [declares |-> ds, uses |-> u] \in networkTF(d) => ds \subseteq S
  BY <1>1
<1> HIDE DEF S
<1>4. group("compute") \in S /\ group("controller") \in S
  BY <1>2 DEF networkTF, group
<1>5. CASE d.byo
  <2>1. byoNetwork(d) \subseteq networkTF(d)
    BY <1>5 DEF networkTF
  <2>2. {vpcId} \cup {subnetId(k) : k \in 1..d.subnets} \subseteq S
    BY <1>3, <2>1 DEF byoNetwork
  <2> QED BY <1>4, <1>5, <2>2 DEF NetworkGives, Subnets, S
<1>6. CASE ~d.byo
  <2>1. generatedNetwork(d) \subseteq networkTF(d)
    BY <1>6 DEF networkTF
  <2>2. {vpcId} \cup {subnetId(k) : k \in 1..d.azCount} \subseteq S
    BY <1>3, <2>1 DEF generatedNetwork
  <2>3. {vpc, Address("aws_internet_gateway", "this"), routes("public"), routes("private")}
          \subseteq S
    BY <1>2, <2>1 DEF generatedNetwork
  <2>4. \A k \in 1..d.azCount : public(k) \in S /\ private(k) \in S
    <3>1. \A k \in 1..d.azCount : /\ Block(public(k), {vpc, zone(k)}) \in generatedNetwork(d)
                                  /\ Block(private(k), {vpc, zone(k)}) \in generatedNetwork(d)
      BY DEF generatedNetwork
    <3> QED BY <3>1, <2>1, <1>2
  <2>5. \A k \in 1..Zones : zone(k) \in S
    <3>1. {zone(k) : k \in 1..Zones} \subseteq S
      BY <1>3, <2>1 DEF generatedNetwork
    <3> QED BY <3>1
  <2>6. egressBlocks(d) \subseteq networkTF(d)
    BY <2>1 DEF generatedNetwork
  <2>7. d.egress = "nat-gateway" =>
          {Address("aws_eip", "nat"), Address("aws_nat_gateway", "this")} \subseteq S
    BY <1>2, <2>6 DEF egressBlocks, When
  <2>8. d.egress = "nat-instance" =>
          {Address("data.aws_ssm_parameter", "nat_ami"), group("nat"),
           Address("aws_instance", "nat")} \subseteq S
    BY <1>2, <2>6 DEF egressBlocks, When, group
  <2> QED BY <1>4, <1>6, <2>2, <2>3, <2>4, <2>5, <2>7, <2>8 DEF NetworkGives, Subnets, S
<1> QED BY <1>5, <1>6

\* What controller.tf and storage.tf give.
ControllerGives(d, S) ==
  d.controller =>
    /\ {Address("aws_iam_role", "controller"), Address("aws_iam_instance_profile", "controller"),
        Address("aws_instance", "controller")} \subseteq S
    /\ d.standby => Address("aws_instance", "controller_standby") \in S

\* controller.tf declares the pets there are.
LEMMA ControllerDeclares == \A d : ControllerGives(d, Declared(Foundation(d)))
<1> SUFFICES ASSUME NEW d, d.controller PROVE ControllerGives(d, Declared(Foundation(d)))
  BY DEF ControllerGives
<1> DEFINE S == Declared(Foundation(d))
<1>1. \A b \in controllerTF(d) : b.declares \subseteq S
  <2>1. "controller" \in File /\ foundationTemplate("controller", d) = controllerTF(d)
    BY Files
  <2> QED BY <2>1, Declares
<1>2. \A t, n, u : Resource(t, n, u) \in controllerTF(d) => Address(t, n) \in S
  BY <1>1, BlockFields
<1> HIDE DEF S
<1>3. {Address("aws_iam_role", "controller"), Address("aws_iam_instance_profile", "controller"),
       Address("aws_instance", "controller")} \subseteq S
  BY <1>2 DEF controllerTF, When, pet
<1>4. d.standby => Address("aws_instance", "controller_standby") \in S
  BY <1>2 DEF controllerTF, When, pet
<1> QED BY <1>3, <1>4 DEF ControllerGives, S

StorageGives(d, S) ==
  /\ Has(d.storage, "efs") => group("nfs") \in S
  /\ Has(d.storage, "fsx-lustre") => group("lustre") \in S
  /\ \A i \in DOMAIN d.storage : fileSystem(d.storage[i]) \in S

\* storage.tf declares a file system for each entry, and the groups of its kind.
LEMMA StorageDeclares == \A d : StorageGives(d, Declared(Foundation(d)))
<1> SUFFICES ASSUME NEW d PROVE StorageGives(d, Declared(Foundation(d)))
  OBVIOUS
<1> DEFINE S == Declared(Foundation(d))
<1>1. \A b \in storageTF(d) : b.declares \subseteq S
  <2>1. "storage" \in File /\ foundationTemplate("storage", d) = storageTF(d)
    BY Files
  <2> QED BY <2>1, Declares
<1>2. /\ \A a, u : Block(a, u) \in storageTF(d) => a \in S
      /\ \A t, n, u : Resource(t, n, u) \in storageTF(d) => Address(t, n) \in S
  BY <1>1, BlockFields
<1> HIDE DEF S
<1>3. Has(d.storage, "efs") => group("nfs") \in S
  BY <1>2 DEF storageTF, When, group
<1>4. Has(d.storage, "fsx-lustre") => group("lustre") \in S
  BY <1>2 DEF storageTF, When, group
<1>5. ASSUME NEW i \in DOMAIN d.storage
      PROVE  fileSystem(d.storage[i]) \in S
  <2>1. storageBlocks(d, d.storage[i]) \subseteq storageTF(d)
    BY DEF storageTF
  <2>2. \E u : Block(fileSystem(d.storage[i]), u) \in storageBlocks(d, d.storage[i])
    BY DEF storageBlocks
  <2> QED BY <2>1, <2>2, <1>2
<1> QED BY <1>3, <1>4, <1>5 DEF StorageGives, S

-----------------------------------------------------------------------------
(* One direction: when the numbers fit, every reference resolves.           *)

\* main.tf uses only what it gives.
LEMMA MainUses ==
  ASSUME NEW d, NEW S, MainGives(d, S)
  PROVE  \A b \in mainTF(d) : b.uses \subseteq S
BY BlockFields DEF MainGives, mainTF, When

\* network.tf uses only what it gives, if the zones suffice.
LEMMA NetworkUses ==
  ASSUME NEW d, NEW S, Data(d), Fits(d), NetworkGives(d, S)
  PROVE  \A b \in networkTF(d) : b.uses \subseteq S
<1>1. ASSUME d.byo, NEW b \in byoNetwork(d) PROVE b.uses \subseteq S
  BY <1>1 DEF byoNetwork
<1>2. ASSUME ~d.byo, NEW b \in generatedNetwork(d) PROVE b.uses \subseteq S
  <2>0. 1..d.azCount \subseteq 1..Zones /\ 1 \in 1..d.azCount
    BY <1>2, ZonesAssumption DEF Data, Fits
  <2>1. CASE b \in egressBlocks(d)
    BY <1>2, <2>0, <2>1, BlockFields DEF egressBlocks, When, NetworkGives
  <2>2. CASE \/ \E k \in 1..d.azCount : b = Block(public(k), {vpc, zone(k)})
             \/ \E k \in 1..d.azCount : b = Block(private(k), {vpc, zone(k)})
             \/ \E k \in 1..d.azCount :
                  b = Block(<<"aws_route_table_association", "public", k>>,
                            {public(k), routes("public")})
             \/ \E k \in 1..d.azCount :
                  b = Block(<<"aws_route_table_association", "private", k>>,
                            {private(k), routes("private")})
    <3>1. \A k \in 1..d.azCount : public(k) \in S /\ private(k) \in S /\ zone(k) \in S
      BY <1>2, <2>0 DEF NetworkGives
    <3>2. vpc \in S /\ routes("public") \in S /\ routes("private") \in S
      BY <1>2 DEF NetworkGives
    <3>3. \E k \in 1..d.azCount : b.uses \in {{vpc, zone(k)}, {public(k), routes("public")},
                                             {private(k), routes("private")}}
      BY <2>2 DEF Block
    <3> QED BY <3>1, <3>2, <3>3
  <2>3. CASE \/ b = [declares |-> {zone(k) : k \in 1..Zones}, uses |-> {}]
             \/ b = [declares |-> {vpcId} \cup {subnetId(k) : k \in 1..d.azCount},
                     uses |-> {vpc} \cup {private(k) : k \in 1..d.azCount}]
    BY <1>2, <2>3 DEF NetworkGives
  <2>4. CASE \/ b = Block(vpc, {})
             \/ b = Resource("aws_internet_gateway", "this", {vpc})
             \/ b = Block(routes("public"), {vpc, Address("aws_internet_gateway", "this")})
             \/ b = Block(routes("private"), {vpc})
             \/ b = Resource("aws_vpc_endpoint", "s3", {vpc, routes("private")})
             \/ b = Resource("aws_vpc_endpoint", "dynamodb", {vpc, routes("private")})
    BY <1>2, <2>4, BlockFields DEF NetworkGives
  <2> QED BY <1>2, <2>1, <2>2, <2>3, <2>4 DEF generatedNetwork
<1>3. ASSUME NEW b, \/ b = Resource("aws_security_group", "compute", {vpcId})
                    \/ b = Resource("aws_security_group", "controller", {vpcId, group("compute")})
      PROVE  b.uses \subseteq S
  BY <1>3, BlockFields DEF NetworkGives
<1> QED BY <1>1, <1>2, <1>3 DEF networkTF

\* There is a first subnet.
LEMMA FirstSubnet ==
  ASSUME NEW d, NEW S, Data(d), NetworkGives(d, S)
  PROVE  subnetId(1) \in S
<1>1. 1 \in 1..Subnets(d)
  BY DEF Data, Subnets
<1> QED BY <1>1 DEF NetworkGives

\* controller.tf uses what itself and network.tf give.
LEMMA ControllerUses ==
  ASSUME NEW d, NEW S, Data(d), NetworkGives(d, S), ControllerGives(d, S)
  PROVE  \A b \in controllerTF(d) : b.uses \subseteq S
BY FirstSubnet, BlockFields DEF NetworkGives, ControllerGives, controllerTF, When, pet

\* storage.tf uses what itself and network.tf give, if the subnets suffice.
LEMMA StorageUses ==
  ASSUME NEW d, NEW S, Data(d), Fits(d), NetworkGives(d, S), StorageGives(d, S)
  PROVE  \A b \in storageTF(d) : b.uses \subseteq S
<1>1. ASSUME NEW i \in DOMAIN d.storage, NEW b \in storageBlocks(d, d.storage[i])
      PROVE  b.uses \subseteq S
  <2>1. CASE d.storage[i].kind = "efs"
    <3>1. group("nfs") \in S /\ fileSystem(d.storage[i]) \in S
      BY <2>1 DEF StorageGives, Has
    <3>2. 1..d.azCount \subseteq 1..Subnets(d)
      BY <2>1 DEF Data, Fits, Has, Subnets
    <3>3. \A k \in 1..d.azCount : subnetId(k) \in S
      BY <3>2 DEF NetworkGives
    <3>4. \/ b = Block(fileSystem(d.storage[i]), {})
          \/ \E k \in 1..d.azCount :
               b = Block(<<"aws_efs_mount_target", d.storage[i].index, k>>,
                         {fileSystem(d.storage[i]), subnetId(k), group("nfs")})
      BY <1>1, <2>1 DEF storageBlocks
    <3> QED BY <3>1, <3>3, <3>4 DEF Block
  <2>2. CASE d.storage[i].kind # "efs"
    <3>1. d.storage[i].kind = "fsx-lustre"
      BY <2>2 DEF Data
    <3>2. group("lustre") \in S /\ fileSystem(d.storage[i]) \in S
      BY <3>1 DEF StorageGives, Has
    <3>3. \/ b = Block(fileSystem(d.storage[i]), {subnetId(1), group("lustre")})
          \/ \E a : b = Block(a, {fileSystem(d.storage[i])})
      BY <1>1, <2>2 DEF storageBlocks, When
    <3>4. subnetId(1) \in S
      BY FirstSubnet
    <3>5. b.uses \in {{subnetId(1), group("lustre")}, {fileSystem(d.storage[i])}}
      BY <3>3 DEF Block
    <3> QED BY <3>2, <3>4, <3>5
  <2> QED BY <2>1, <2>2
<1>2. ASSUME NEW b, \E n : b = Resource("aws_security_group", n,
                                        {vpcId, group("compute"), group("controller")})
      PROVE  b.uses \subseteq S
  BY <1>2, BlockFields DEF NetworkGives
<1> QED BY <1>1, <1>2 DEF storageTF, When

\* outputs.tf uses what the others give.
LEMMA OutputsUses ==
  ASSUME NEW d, NEW S, Data(d), MainGives(d, S), NetworkGives(d, S), ControllerGives(d, S),
         StorageGives(d, S)
  PROVE  \A b \in outputsTF(d) : b.uses \subseteq S
<1>1. ASSUME NEW b, \E i \in DOMAIN d.storage : \E a : b = Block(a, {fileSystem(d.storage[i])})
      PROVE  b.uses \subseteq S
  BY <1>1, BlockFields DEF StorageGives
<1>2. /\ {Address("aws_iam_instance_profile", "node"), Address("aws_s3_bucket", "scripts"),
           vpcId, subnetId(1), group("controller"), group("compute")} \subseteq S
      /\ d.manifest => Address("aws_s3_bucket", "manifest") \in S
      /\ d.controller => Address("aws_instance", "controller") \in S
      /\ d.controller /\ d.standby => Address("aws_instance", "controller_standby") \in S
  BY FirstSubnet DEF MainGives, NetworkGives, ControllerGives
<1>3. ASSUME NEW b, NEW a, NEW u \in S, b = Block(a, {u})
      PROVE  b.uses \subseteq S
  BY <1>3, BlockFields
<1>4. ASSUME NEW b \in outputsTF(d)
      PROVE  \/ \E i \in DOMAIN d.storage : \E a : b = Block(a, {fileSystem(d.storage[i])})
             \/ \E a : \E u \in S : b = Block(a, {u})
  <2>1. CASE \E i \in DOMAIN d.storage : \E a : b = Block(a, {fileSystem(d.storage[i])})
    BY <2>1
  <2>2. CASE b \in {Block(output("node_instance_profile_arn"),
                          {Address("aws_iam_instance_profile", "node")}),
                    Block(output("scripts_bucket"), {Address("aws_s3_bucket", "scripts")}),
                    Block(output("vpc_id"), {vpcId}),
                    Block(output("subnet_ids"), {subnetId(1)}),
                    Block(output("controller_sg_id"), {group("controller")}),
                    Block(output("compute_sg_id"), {group("compute")})}
    BY <1>2, <2>2
  <2>3. CASE \/ d.manifest /\ b = Block(output("manifest_bucket"),
                                        {Address("aws_s3_bucket", "manifest")})
             \/ d.controller /\ b = Block(output("controller_private_ip"),
                                          {Address("aws_instance", "controller")})
             \/ /\ d.controller /\ d.standby
                /\ b = Block(output("controller_standby_private_ip"),
                             {Address("aws_instance", "controller_standby")})
    BY <1>2, <2>3
  <2> QED BY <2>1, <2>2, <2>3 DEF outputsTF, When
<1> QED BY <1>1, <1>3, <1>4

\* If the numbers fit, every reference resolves.
LEMMA FitsResolves ==
  ASSUME NEW d, Data(d), Fits(d)
  PROVE  Resolves(Foundation(d))
<1> DEFINE S == Declared(Foundation(d))
<1>1. MainGives(d, S) /\ NetworkGives(d, S) /\ ControllerGives(d, S) /\ StorageGives(d, S)
  BY MainDeclares, NetworkDeclares, ControllerDeclares, StorageDeclares
<1> HIDE DEF S
<1>2. ASSUME NEW f \in File, NEW b \in foundationTemplate(f, d)
      PROVE  b.uses \subseteq S
  BY <1>1, <1>2, Files, MainUses, NetworkUses, ControllerUses, StorageUses, OutputsUses
<1> QED BY <1>2 DEF Resolves, Used, Foundation, S

-----------------------------------------------------------------------------
(* The other direction: nothing but network.tf declares subnets and zones,  *)
(* and only as many as there are.                                           *)

Given == {"local", "data.aws_availability_zones"}

\* The blocks that declare one address of another type.
Other(b) == \E t, n, k, u : b = Block(<<t, n, k>>, u) /\ t \notin Given

\* Such a block declares no subnet and no zone.
LEMMA OtherDeclares ==
  ASSUME NEW b, Other(b), NEW k
  PROVE  subnetId(k) \notin b.declares /\ zone(k) \notin b.declares
<1>1. PICK t, n, j, u : b = Block(<<t, n, j>>, u) /\ t \notin Given
  BY DEF Other
<1>2. b.declares = {<<t, n, j>>}
  BY <1>1 DEF Block
<1>3. t # "local" /\ t # "data.aws_availability_zones"
  BY <1>1 DEF Given
<1> QED BY <1>2, <1>3 DEF subnetId, zone

\* A resource of another type is such a block.
LEMMA OtherResource ==
  ASSUME NEW t, NEW n, NEW u, t \notin Given PROVE Other(Resource(t, n, u))
BY DEF Other, Resource, Address

\* So is an element of a counted one.
LEMMA OtherBlock ==
  ASSUME NEW t, NEW n, NEW k, NEW u, t \notin Given PROVE Other(Block(<<t, n, k>>, u))
BY DEF Other

\* main.tf declares neither subnets nor zones,
LEMMA MainOther == \A d : \A b \in mainTF(d) : Other(b)
BY OtherResource DEF mainTF, When, Given

\* nor does controller.tf,
LEMMA ControllerOther == \A d : \A b \in controllerTF(d) : Other(b)
BY OtherResource DEF controllerTF, When, pet, Given

\* nor outputs.tf,
LEMMA OutputsOther == \A d : \A b \in outputsTF(d) : Other(b)
<1> SUFFICES ASSUME NEW d, NEW b \in outputsTF(d) PROVE Other(b)
  OBVIOUS
<1>1. ASSUME NEW n, NEW u, b = Block(output(n), u)
      PROVE  Other(b)
  BY <1>1, OtherBlock DEF output, Address, Given
<1>2. ASSUME NEW i \in DOMAIN d.storage,
             b = Block(IF d.storage[i].kind = "efs"
                         THEN efsDNS(d.storage[i].index)
                         ELSE <<"output", "fsx_dns", d.storage[i].index>>,
                       {fileSystem(d.storage[i])})
      PROVE  Other(b)
  <2> DEFINE u == {fileSystem(d.storage[i])}
  <2>1. Other(Block(efsDNS(d.storage[i].index), u))
    BY OtherBlock DEF efsDNS, Given
  <2>2. Other(Block(<<"output", "fsx_dns", d.storage[i].index>>, u))
    BY OtherBlock DEF Given
  <2> QED BY <1>2, <2>1, <2>2
<1>3. \/ \E n, u : b = Block(output(n), u)
      \/ \E i \in DOMAIN d.storage :
           b = Block(IF d.storage[i].kind = "efs"
                       THEN efsDNS(d.storage[i].index)
                       ELSE <<"output", "fsx_dns", d.storage[i].index>>,
                     {fileSystem(d.storage[i])})
  BY DEF outputsTF, When
<1> QED BY <1>1, <1>2, <1>3

\* nor storage.tf,
LEMMA StorageOther == \A d : \A b \in storageTF(d) : Other(b)
<1> SUFFICES ASSUME NEW d, NEW b \in storageTF(d) PROVE Other(b)
  OBVIOUS
<1>1. ASSUME NEW i \in DOMAIN d.storage, b \in storageBlocks(d, d.storage[i])
      PROVE  Other(b)
  <2> DEFINE s == d.storage[i]
  <2>1. ASSUME NEW u PROVE Other(Block(fileSystem(s), u))
    <3>1. \E t : fileSystem(s) = <<t, "", s.index>> /\ t \notin Given
      BY DEF fileSystem, Given
    <3> QED BY <3>1, OtherBlock
  <2>2. ASSUME NEW k, NEW u PROVE Other(Block(<<"aws_efs_mount_target", s.index, k>>, u))
    BY OtherBlock DEF Given
  <2>3. ASSUME NEW u
        PROVE  Other(Block(<<"aws_fsx_data_repository_association", "", s.index>>, u))
    BY OtherBlock DEF Given
  <2>4. \/ \E u : b = Block(fileSystem(s), u)
        \/ \E k, u : b = Block(<<"aws_efs_mount_target", s.index, k>>, u)
        \/ \E u : b = Block(<<"aws_fsx_data_repository_association", "", s.index>>, u)
    <3>1. CASE s.kind = "efs"
      BY <1>1, <3>1 DEF storageBlocks
    <3>2. CASE s.kind # "efs"
      BY <1>1, <3>2 DEF storageBlocks, When
    <3> QED BY <3>1, <3>2
  <2> QED BY <2>1, <2>2, <2>3, <2>4
<1>2. ASSUME NEW n, NEW u, b = Resource("aws_security_group", n, u)
      PROVE  Other(b)
  BY <1>2, OtherResource DEF Given
<1> QED BY <1>1, <1>2 DEF storageTF, When

\* nor the way out of a generated network.
LEMMA EgressOther == \A d : \A b \in egressBlocks(d) : Other(b)
BY OtherResource DEF egressBlocks, When, Given

\* network.tf declares as many subnets and zones as there are, and no more.
LEMMA NetworkCounts ==
  ASSUME NEW d, NEW b \in networkTF(d), NEW k
  PROVE  /\ subnetId(k) \in b.declares => k \in 1..Subnets(d)
         /\ zone(k) \in b.declares => k \in 1..Zones
<1>1. CASE Other(b)
  BY <1>1, OtherDeclares
<1>2. CASE b.declares = {zone(j) : j \in 1..Zones}
  BY <1>2 DEF zone, subnetId
<1>3. CASE b.declares = {vpcId} \cup {subnetId(j) : j \in 1..Subnets(d)}
  BY <1>3 DEF zone, subnetId, vpcId, Address
<1>4. CASE d.byo /\ b \in byoNetwork(d)
  BY <1>3, <1>4 DEF byoNetwork, Subnets
<1>5. CASE ~d.byo /\ b \in generatedNetwork(d) /\ b \notin egressBlocks(d)
  <2>1. CASE b \in {Block(vpc, {}),
                    Resource("aws_internet_gateway", "this", {vpc}),
                    Block(routes("public"), {vpc, Address("aws_internet_gateway", "this")}),
                    Block(routes("private"), {vpc}),
                    Resource("aws_vpc_endpoint", "s3", {vpc, routes("private")}),
                    Resource("aws_vpc_endpoint", "dynamodb", {vpc, routes("private")})}
    BY <1>1, <2>1, OtherBlock, OtherResource DEF vpc, routes, Address, Given
  <2>2. ASSUME NEW t \in {"aws_subnet", "aws_route_table_association"}, NEW n, NEW j, NEW u,
               b = Block(<<t, n, j>>, u)
        PROVE  Other(b)
    BY <2>2, OtherBlock DEF Given
  <2>3. CASE b = [declares |-> {zone(j) : j \in 1..Zones}, uses |-> {}]
    BY <1>2, <2>3
  <2>4. CASE b = [declares |-> {vpcId} \cup {subnetId(j) : j \in 1..d.azCount},
                  uses |-> {vpc} \cup {private(j) : j \in 1..d.azCount}]
    BY <1>3, <1>5, <2>4 DEF Subnets
  <2>5. CASE \/ \E j \in 1..d.azCount : b = Block(public(j), {vpc, zone(j)})
             \/ \E j \in 1..d.azCount : b = Block(private(j), {vpc, zone(j)})
    <3>1. \E j, n, u : b = Block(<<"aws_subnet", n, j>>, u)
      BY <2>5 DEF public, private
    <3> QED BY <1>1, <2>2, <3>1
  <2>6. CASE \/ \E j \in 1..d.azCount : b = Block(<<"aws_route_table_association", "public", j>>,
                                                {public(j), routes("public")})
             \/ \E j \in 1..d.azCount : b = Block(<<"aws_route_table_association", "private", j>>,
                                                {private(j), routes("private")})
    <3>1. \E j, n, u : b = Block(<<"aws_route_table_association", n, j>>, u)
      BY <2>6
    <3> QED BY <1>1, <2>2, <3>1
  <2> QED BY <1>5, <2>1, <2>3, <2>4, <2>5, <2>6 DEF generatedNetwork
<1>6. CASE b \in {Resource("aws_security_group", "compute", {vpcId}),
                  Resource("aws_security_group", "controller", {vpcId, group("compute")})}
  BY <1>1, <1>6, OtherResource DEF Given
<1>7. CASE b \in egressBlocks(d)
  BY <1>1, <1>7, EgressOther
<1> QED BY <1>4, <1>5, <1>6, <1>7 DEF networkTF

\* Nor does the whole configuration.
LEMMA Counts ==
  ASSUME NEW d, NEW k
  PROVE  /\ subnetId(k) \in Declared(Foundation(d)) => k \in 1..Subnets(d)
         /\ zone(k) \in Declared(Foundation(d)) => k \in 1..Zones
<1>1. ASSUME NEW f \in File, NEW b \in foundationTemplate(f, d)
      PROVE  Other(b) \/ b \in networkTF(d)
  BY <1>1, Files, MainOther, ControllerOther, OutputsOther, StorageOther
<1>2. ASSUME NEW f \in File, NEW b \in foundationTemplate(f, d)
      PROVE  /\ subnetId(k) \in b.declares => k \in 1..Subnets(d)
             /\ zone(k) \in b.declares => k \in 1..Zones
  BY <1>1, NetworkCounts, OtherDeclares
<1> QED BY <1>2 DEF Declared, Foundation

\* If every reference resolves, the numbers fit.
LEMMA ResolvesFits ==
  ASSUME NEW d, Data(d), Resolves(Foundation(d))
  PROVE  Fits(d)
<1>1. ASSUME NEW f \in File, NEW b \in foundationTemplate(f, d), NEW a \in b.uses
      PROVE  a \in Declared(Foundation(d))
  BY <1>1 DEF Resolves, Used, Foundation
<1>2. d.azCount \in 1..d.azCount
  BY DEF Data
<1>3. CASE d.byo
  <2>1. SUFFICES ASSUME Has(d.storage, "efs") PROVE d.azCount <= d.subnets
    BY <1>3 DEF Fits
  <2>2. PICK i \in DOMAIN d.storage : d.storage[i].kind = "efs"
    BY <2>1 DEF Has
  <2> DEFINE b == Block(<<"aws_efs_mount_target", d.storage[i].index, d.azCount>>,
                        {fileSystem(d.storage[i]), subnetId(d.azCount), group("nfs")})
  <2>3. b \in storageBlocks(d, d.storage[i])
    BY <1>2, <2>2 DEF storageBlocks
  <2>4. b \in foundationTemplate("storage", d) /\ "storage" \in File
    BY <2>3, Files DEF storageTF
  <2>5. subnetId(d.azCount) \in b.uses
    BY DEF Block
  <2>6. d.azCount \in 1..Subnets(d)
    BY <1>1, <2>4, <2>5, Counts
  <2> QED BY <1>3, <2>6 DEF Subnets, Data
<1>4. CASE ~d.byo
  <2> DEFINE b == Block(public(d.azCount), {vpc, zone(d.azCount)})
  <2>1. b \in foundationTemplate("network", d) /\ "network" \in File
    <3>1. b \in generatedNetwork(d)
      BY <1>2 DEF generatedNetwork
    <3>2. b \in networkTF(d)
      BY <1>4, <3>1 DEF networkTF
    <3> QED BY <3>2, Files
  <2>2. zone(d.azCount) \in b.uses
    BY DEF Block
  <2>3. d.azCount \in 1..Zones
    BY <1>1, <2>1, <2>2, Counts
  <2> QED BY <1>4, <2>3, ZonesAssumption DEF Fits, Data
<1> QED BY <1>3, <1>4

\* What q0 renders for a cluster.yaml that LoadCluster lets through can be
\* planned exactly when the numbers fit (GenerateClusterFoundation): no choice
\* of network, egress, controller, standby and storage leaves a reference of
\* one file to something that no file declares.
THEOREM ValidRenderingResolves ==
  ASSUME NEW c \in ClusterYAML, NEW opts \in FoundationOpts, validate(c)
  PROVE  LET d == templateData(c, opts) IN Resolves(Foundation(d)) <=> Fits(d)
BY DataOfValid, FitsResolves, ResolvesFits

-----------------------------------------------------------------------------
\* What a command can render.
Version == [file : DOMAIN D.clusters, flags : DOMAIN D.flags]

Sourced(v) == v \in Version /\ validate(cluster(v))

TypeInv ==
  /\ deployment \in DOMAIN Deployments
  /\ yaml \in [Taking -> DOMAIN D.clusters \cup {None}]
  /\ flags \in [Taking -> DOMAIN D.flags \cup {None}]
  /\ DOMAIN workdir = Taking
  /\ DOMAIN pc = Taking /\ DOMAIN source = Taking

\* A checkout has both its file and its flags, and no command runs without.
CheckedOut ==
  \A o \in Taking : /\ pc[o] # "idle" => yaml[o] # None
                    /\ yaml[o] # None => flags[o] \in DOMAIN D.flags

\* Past the load, the command renders a valid file; past the write, the
\* workdir holds that rendering and nothing else.
Rendering ==
  \A o \in Taking :
    /\ pc[o] \notin {"idle", "load"} => Sourced(source[o])
    /\ pc[o] \notin {"idle", "load", "write"} => workdir[o] = [f \in File |-> source[o]]

\* The layer stands as `config` says.
Standing ==
  config # None =>
    LET s == dataOf(config).storage IN
    /\ Sourced(config)
    /\ DOMAIN fs = {fileSystem(s[i]) : i \in DOMAIN s}
    /\ \A i \in DOMAIN s : fs[fileSystem(s[i])].path = s[i].path
    /\ DOMAIN dns = {i \in DOMAIN s : s[i].kind = "efs"}
    /\ \A i \in DOMAIN dns : dns[i] = fs[fileSystem(s[i])].id

\* An EFS file system's creation token is given by its address, and nothing else of it
\* can call for another.
TokenOf(a) == <<IF a[1] = "aws_efs_file_system" THEN "efs" ELSE "fsx-lustre", a[3]>>

Tokens ==
  \A a \in DOMAIN fs :
    IF a[1] = "aws_efs_file_system"
      THEN fs[a].token = TokenOf(a) /\ fs[a].deployment = "" /\ fs[a].place = <<>> /\ fs[a].capacity = 0
      ELSE fs[a].token = <<>>

IInv == TypeInv /\ CheckedOut /\ Rendering /\ Standing /\ Tokens

-----------------------------------------------------------------------------
\* A version renders to data of the kind the templates count on.
LEMMA VersionData ==
  ASSUME deployment \in DOMAIN Deployments, NEW v, Sourced(v)
  PROVE  /\ cluster(v) \in ClusterYAML /\ D.flags[v.flags] \in FoundationOpts
         /\ Data(dataOf(v)) /\ v # None
<1>1. D \in Range(Deployments)
  BY DEF D, Range
<1>2. v.file \in DOMAIN D.clusters /\ v.flags \in DOMAIN D.flags
  BY DEF Sourced, Version
<1>3. cluster(v) \in ClusterYAML /\ D.flags[v.flags] \in FoundationOpts
  BY <1>1, <1>2, DeploymentAssumption DEF cluster
<1>4. None \notin Version
  BY <1>1, DeploymentAssumption DEF Version
<1>5. v # None
  BY <1>4 DEF Sourced
<1>6. Data(dataOf(v))
  BY <1>3, DataOfValid DEF dataOf, Sourced
<1> QED BY <1>3, <1>5, <1>6

\* What a command finds in its checkout is a version.
LEMMA AtIsVersion ==
  ASSUME TypeInv, CheckedOut, NEW o \in Taking, pc[o] # "idle"
  PROVE  At(o) \in Version
<1>1. yaml[o] \in DOMAIN D.clusters
  BY DEF TypeInv, CheckedOut
<1>2. flags[o] \in DOMAIN D.flags
  BY DEF CheckedOut
<1> QED BY <1>1, <1>2 DEF At, Version

\* The address tells the entries of a rendering apart.
LEMMA AddressIsInjective ==
  ASSUME NEW d, Data(d), NEW i \in DOMAIN d.storage, NEW x \in Range(d.storage),
         fileSystem(x) = fileSystem(d.storage[i])
  PROVE  x = d.storage[i]
<1>1. PICK j \in DOMAIN d.storage : x = d.storage[j]
  BY DEF Range
<1>2. x.index = d.storage[i].index
  BY DEF fileSystem
<1>3. d.storage[j].index = j /\ d.storage[i].index = i
  BY DEF Data
<1> QED BY <1>1, <1>2, <1>3

\* What an apply wants of the file systems.
LEMMA WantedEntries ==
  ASSUME NEW o \in Taking, NEW s, s = dataOf(workdir[o]["storage"]).storage,
         NEW where, where = dataOf(workdir[o]["network"]).place, Data(dataOf(workdir[o]["storage"]))
  PROVE  /\ DOMAIN Wanted(o) = {fileSystem(s[i]) : i \in DOMAIN s}
         /\ \A i \in DOMAIN s : Wanted(o)[fileSystem(s[i])] = wantedOf(s[i], where)
<1>1. DOMAIN Wanted(o) = {fileSystem(s[i]) : i \in DOMAIN s}
  BY DEF Wanted
<1>2. ASSUME NEW i \in DOMAIN s
      PROVE  Wanted(o)[fileSystem(s[i])] = wantedOf(s[i], where)
  <2>1. s[i] \in Range(s)
    BY DEF Range
  <2>2. /\ entryAt(s, fileSystem(s[i])) \in Range(s)
        /\ fileSystem(entryAt(s, fileSystem(s[i]))) = fileSystem(s[i])
    BY <2>1 DEF entryAt
  <2>3. entryAt(s, fileSystem(s[i])) = s[i]
    BY <2>2, AddressIsInjective
  <2>4. Wanted(o)[fileSystem(s[i])] = wantedOf(entryAt(s, fileSystem(s[i])), where)
    BY DEF Wanted
  <2> QED BY <2>3, <2>4
<1> QED BY <1>1, <1>2

\* An entry's creation token is its kind and position (buildStorage).
LEMMA BuiltToken ==
  ASSUME NEW c, NEW i \in DOMAIN c.storage
  PROVE  LET e == buildStorage(c)[i] IN e.token = <<e.kind, i>>
<1> DEFINE s == c.storage[i]
           t == <<s.kind, i>>
           g == IF s.capacity = 0 THEN 1200 ELSE s.capacity
           w == IF s.deployment = "" THEN "SCRATCH_2" ELSE s.deployment
           e == [index |-> i, kind |-> s.kind, path |-> s.path, token |-> t, capacity |-> g,
                 deployment |-> w, linked |-> s.linked]
<1>1. buildStorage(c)[i] = e
  BY Zenon DEF buildStorage
<1>2. e.token = t /\ e.kind = s.kind
  <2> HIDE DEF t, g, w, s
  <2> QED OBVIOUS
<1> HIDE DEF e
<1> QED BY <1>1, <1>2

\* What a rendering asks for carries the token of its address.
LEMMA WantedTokens ==
  ASSUME deployment \in DOMAIN Deployments, NEW v, Sourced(v),
         NEW i \in DOMAIN dataOf(v).storage
  PROVE  LET e == dataOf(v).storage[i] IN
         /\ e.token = TokenOf(fileSystem(e))
         /\ fileSystem(e)[1] = "aws_efs_file_system" <=> e.kind = "efs"
         /\ fileSystem(e)[3] = i
<1> DEFINE e == dataOf(v).storage[i]
<1>1. e.kind \in {"efs", "fsx-lustre"} /\ e.index = i
  BY VersionData DEF Data
<1>2. dataOf(v).storage = buildStorage(cluster(v))
  BY DEF dataOf, templateData
<1>3. e.token = <<e.kind, i>>
  <2>1. i \in DOMAIN cluster(v).storage
    BY <1>2 DEF buildStorage
  <2>2. e = buildStorage(cluster(v))[i]
    BY <1>2
  <2> QED BY <2>1, <2>2, BuiltToken
<1>4. fileSystem(e)[1] = "aws_efs_file_system" <=> e.kind = "efs"
  BY DEF fileSystem
<1>5. fileSystem(e)[3] = i
  BY <1>1 DEF fileSystem
<1> QED BY <1>1, <1>3, <1>4, <1>5 DEF TokenOf

-----------------------------------------------------------------------------
(* The invariant holds.                                                     *)

\* Nothing is checked out, and nothing there, at first.
LEMMA InitIInv == Init => IInv
<1> SUFFICES ASSUME Init PROVE IInv
  OBVIOUS
<1> USE DEF Init, all
<1>1. TypeInv
  BY DEF TypeInv
<1>2. CheckedOut
  BY DEF CheckedOut
<1>3. Rendering
  BY DEF Rendering
<1>4. Standing
  BY DEF Standing
<1>5. Tokens
  <2>1. DOMAIN fs = {}
    OBVIOUS
  <2> QED BY <2>1 DEF Tokens
<1> QED BY <1>1, <1>2, <1>3, <1>4, <1>5 DEF IInv

\* The versions are those of the deployment, which never changes.
LEMMA SameVersions ==
  ASSUME UNCHANGED deployment
  PROVE  /\ D' = D /\ Taking' = Taking
         /\ \A v : Sourced(v)' <=> Sourced(v)
         /\ \A v : dataOf(v)' = dataOf(v)
BY DEF D, Taking, Sourced, Version, cluster, dataOf

\* How a command moves on: it ends, or goes to another step with the same
\* source, its workdir untouched.
LEMMA MovesOn ==
  ASSUME IInv, UNCHANGED <<deployment, yaml, flags>>, NEW o \in Taking, pc[o] # "idle",
         DOMAIN workdir' = Taking, \A x \in Taking \ {o} : workdir'[x] = workdir[x],
         NEW at,
         \/ Exit(o)
         \/ /\ goto(o, at) /\ UNCHANGED <<source, workdir>>
            /\ pc[o] \notin {"idle", "load", "write"} /\ at \notin {"idle", "load", "write"}
  PROVE  TypeInv' /\ CheckedOut' /\ Rendering'
<1> USE SameVersions
<1>1. TypeInv'
  BY DEF IInv, TypeInv, Exit, goto
<1>2. CheckedOut'
  BY DEF IInv, TypeInv, CheckedOut, Exit, goto
<1>3. ASSUME NEW x \in Taking
      PROVE  /\ pc'[x] \notin {"idle", "load"} => Sourced(source'[x])
             /\ pc'[x] \notin {"idle", "load", "write"} =>
                  workdir'[x] = [f \in File |-> source'[x]]
  <2>1. CASE x # o
    <3>1. pc'[x] = pc[x] /\ source'[x] = source[x] /\ workdir'[x] = workdir[x]
      BY <2>1 DEF IInv, TypeInv, Exit, goto
    <3> QED BY <3>1 DEF IInv, Rendering
  <2>2. CASE x = o /\ Exit(o)
    BY <2>2 DEF IInv, TypeInv, Exit, goto
  <2>3. CASE x = o /\ ~Exit(o)
    BY <2>3 DEF IInv, TypeInv, Rendering, goto
  <2> QED BY <2>1, <2>2, <2>3
<1>4. Rendering'
  BY <1>3 DEF Rendering
<1> QED BY <1>1, <1>2, <1>4

\* What is applied stays as it is while no apply is at work.
LEMMA StateStays ==
  ASSUME IInv, UNCHANGED <<deployment, state>>
  PROVE  Standing' /\ Tokens'
<1>1. Standing'
  BY SameVersions DEF IInv, Standing, state
<1>2. Tokens'
  BY DEF IInv, Tokens, TokenOf, state
<1> QED BY <1>1, <1>2

\* The operator is left in peace: so are the commands.
LEMMA Undisturbed ==
  ASSUME IInv, UNCHANGED <<deployment, checkouts, process>>
  PROVE  TypeInv' /\ CheckedOut' /\ Rendering'
<1>1. TypeInv'
  BY SameVersions DEF IInv, TypeInv, checkouts, process
<1>2. CheckedOut'
  BY SameVersions DEF IInv, CheckedOut, checkouts, process
<1>3. Rendering'
  BY SameVersions DEF IInv, Rendering, checkouts, process
<1> QED BY <1>1, <1>2, <1>3

\* A rendering stays what it is while commands and workdirs do.
LEMMA RenderingStays ==
  ASSUME IInv, UNCHANGED <<deployment, workdir, pc, source>> PROVE Rendering'
BY SameVersions DEF IInv, Rendering

\* The steps that bring a checkout, a version or a rendering.
LEMMA CheckoutStep ==
  ASSUME IInv, UNCHANGED deployment, NEW o \in Taking, Checkout(o) PROVE IInv'
<1> USE SameVersions
<1>1. TypeInv'
  <2>1. /\ yaml' \in [Taking -> DOMAIN D.clusters \cup {None}]
        /\ flags' \in [Taking -> DOMAIN D.flags \cup {None}]
    BY DEF Checkout, IInv, TypeInv
  <2> QED BY <2>1 DEF Checkout, IInv, TypeInv, process
<1>2. CheckedOut'
  BY DEF Checkout, IInv, TypeInv, CheckedOut, process
<1>3. Rendering'
  BY RenderingStays DEF Checkout, process
<1> QED BY <1>1, <1>2, <1>3, StateStays DEF Checkout, IInv

\* A command starts.
LEMMA StartStep ==
  ASSUME IInv, UNCHANGED deployment, NEW o \in Taking, NEW c, Start(o, c) PROVE IInv'
<1> USE SameVersions
<1>1. TypeInv'
  BY DEF Start, goto, IInv, TypeInv, checkouts
<1>2. CheckedOut'
  BY DEF Start, goto, IInv, TypeInv, CheckedOut, checkouts
<1>3. Rendering'
  BY DEF Start, goto, IInv, TypeInv, Rendering, checkouts
<1> QED BY <1>1, <1>2, <1>3, StateStays DEF Start, IInv

\* An edit is of the file, not of what was rendered.
LEMMA EditStep ==
  ASSUME IInv, UNCHANGED deployment, NEW o \in Taking, Edit(o) PROVE IInv'
<1>1. PICK c \in DOMAIN D.clusters : yaml' = [yaml EXCEPT ![o] = c]
  BY DEF Edit
<1>2. yaml[o] # None /\ UNCHANGED <<flags, workdir, pc, source, state>>
  BY DEF Edit, process
<1>3. TypeInv'
  BY <1>1, <1>2, SameVersions DEF IInv, TypeInv
<1>4. CheckedOut'
  <2>1. D \in Range(Deployments)
    BY DEF IInv, TypeInv, D, Range
  <2>2. c # None
    BY <2>1, DeploymentAssumption
  <2> QED BY <1>1, <1>2, <2>2, SameVersions DEF IInv, TypeInv, CheckedOut
<1> QED BY <1>2, <1>3, <1>4, RenderingStays, StateStays DEF IInv

\* What is rendered from here on is a valid version.
LEMMA GenerateStep ==
  ASSUME IInv, UNCHANGED deployment, NEW o \in Taking, Generate(o) PROVE IInv'
<1> USE SameVersions
<1>1. Sourced(At(o))
  BY AtIsVersion DEF Generate, Loaded, Valid, IInv, Sourced
<1>2. TypeInv'
  BY DEF Generate, goto, IInv, TypeInv, checkouts
<1>3. CheckedOut'
  BY DEF Generate, Loaded, goto, IInv, TypeInv, CheckedOut, checkouts
<1>4. Rendering'
  <2>1. source'[o] = At(o) /\ pc'[o] = "write"
    BY DEF Generate, goto, IInv, TypeInv
  <2>2. \A x \in Taking \ {o} : /\ source'[x] = source[x] /\ pc'[x] = pc[x]
                                /\ workdir'[x] = workdir[x]
    BY DEF Generate, goto, IInv, TypeInv, checkouts
  <2>3. \A x \in Taking :
          /\ pc'[x] \notin {"idle", "load"} => Sourced(source'[x])
          /\ pc'[x] \notin {"idle", "load", "write"} => workdir'[x] = [f \in File |-> source'[x]]
    BY <1>1, <2>1, <2>2 DEF IInv, Rendering
  <2> QED BY <2>3 DEF Rendering
<1> QED BY <1>2, <1>3, <1>4, StateStays DEF Generate, IInv

\* All six files are written.
LEMMA OverwrittenAll ==
  ASSUME NEW o PROVE Overwritten(o, 6) = [f \in File |-> source[o]]
BY DEF Overwritten, File

\* All six files are of the source.
LEMMA WriteFilesStep ==
  ASSUME IInv, UNCHANGED deployment, NEW o \in Taking, WriteFiles(o) PROVE IInv'
<1> USE SameVersions
<1>1. DOMAIN workdir' = Taking /\ workdir'[o] = [f \in File |-> source[o]]
      /\ \A x \in Taking \ {o} : workdir'[x] = workdir[x]
  BY OverwrittenAll DEF WriteFiles, IInv, TypeInv
<1>2. CASE Exit(o)
  BY <1>1, <1>2, MovesOn, StateStays DEF WriteFiles, IInv
<1>3. CASE goto(o, "bucket") /\ UNCHANGED source
  <2>1. TypeInv'
    BY <1>1, <1>3 DEF WriteFiles, goto, IInv, TypeInv
  <2>2. CheckedOut'
    BY <1>3 DEF WriteFiles, goto, IInv, TypeInv, CheckedOut
  <2>3. Rendering'
    BY <1>1, <1>3 DEF WriteFiles, goto, IInv, TypeInv, Rendering
  <2> QED BY <2>1, <2>2, <2>3, StateStays DEF WriteFiles, IInv
<1> QED BY <1>2, <1>3 DEF WriteFiles

-----------------------------------------------------------------------------
\* The steps of an apply.
LEMMA Applying ==
  ASSUME IInv, NEW o \in Taking, pc[o] = "applying"
  PROVE  LET s == data(o).storage IN
         /\ deployment \in DOMAIN Deployments /\ Sourced(source[o]) /\ Data(data(o))
         /\ workdir[o] = [f \in File |-> source[o]]
         /\ dataOf(workdir[o]["storage"]).storage = s
         /\ dataOf(workdir[o]["outputs"]).storage = s
         /\ DOMAIN Wanted(o) = {fileSystem(s[i]) : i \in DOMAIN s}
         /\ \A i \in DOMAIN s : Wanted(o)[fileSystem(s[i])] = wantedOf(s[i], data(o).place)
<1>1. deployment \in DOMAIN Deployments
  BY DEF IInv, TypeInv
<1>2. Sourced(source[o]) /\ workdir[o] = [f \in File |-> source[o]]
  BY DEF IInv, Rendering
<1>3. Data(data(o))
  BY <1>1, <1>2, VersionData DEF data
<1>4. \A f \in {"storage", "network", "outputs"} : workdir[o][f] = source[o]
  BY <1>2, Files
<1>5. /\ dataOf(workdir[o]["storage"]) = data(o) /\ dataOf(workdir[o]["outputs"]) = data(o)
      /\ dataOf(workdir[o]["network"]) = data(o)
  BY <1>4 DEF data
<1> DEFINE s == data(o).storage
           where == data(o).place
<1>6. /\ DOMAIN Wanted(o) = {fileSystem(s[i]) : i \in DOMAIN s}
      /\ \A i \in DOMAIN s : Wanted(o)[fileSystem(s[i])] = wantedOf(s[i], where)
  <2>1. /\ s = dataOf(workdir[o]["storage"]).storage /\ where = dataOf(workdir[o]["network"]).place
        /\ Data(dataOf(workdir[o]["storage"]))
    BY <1>3, <1>5
  <2> HIDE DEF s, where
  <2> QED BY <2>1, WantedEntries
<1> QED BY <1>1, <1>2, <1>3, <1>5, <1>6

\* The token and the kind of each entry are those of its address.
LEMMA ApplyingTokens ==
  ASSUME IInv, NEW o \in Taking, pc[o] = "applying", NEW i \in DOMAIN data(o).storage
  PROVE  LET x == data(o).storage[i] IN
         /\ x.token = TokenOf(fileSystem(x))
         /\ fileSystem(x)[1] = "aws_efs_file_system" <=> x.kind = "efs"
<1>1. deployment \in DOMAIN Deployments /\ Sourced(source[o])
  BY Applying
<1> QED BY <1>1, WantedTokens DEF data

\* Whatever part of an apply gets done, tokens go with addresses.
LEMMA CarryTokens ==
  ASSUME IInv, NEW o \in Taking, pc[o] = "applying", NEW S, NEW lost, Carry(o, S, lost)
  PROVE  Tokens'
<1> DEFINE s == data(o).storage
           want == Wanted(o)
<1>1. fs' = [a \in (DOMAIN fs \ (S \cup lost)) \cup (DOMAIN want \cap S) |->
               IF a \in S THEN Provisioned(a, want[a]) ELSE fs[a]]
  BY DEF Carry
<1>2. /\ DOMAIN want = {fileSystem(s[i]) : i \in DOMAIN s}
      /\ \A i \in DOMAIN s : want[fileSystem(s[i])] = wantedOf(s[i], data(o).place)
  BY Applying
<1>3. ASSUME NEW i \in DOMAIN s
      PROVE  /\ s[i].token = TokenOf(fileSystem(s[i]))
             /\ fileSystem(s[i])[1] = "aws_efs_file_system" <=> s[i].kind = "efs"
  BY ApplyingTokens
<1>4. ASSUME NEW a \in DOMAIN fs', a \in S
      PROVE  /\ fs'[a].token = want[a].token /\ fs'[a].deployment = want[a].deployment
             /\ fs'[a].place = want[a].place /\ fs'[a].capacity = want[a].capacity
  BY <1>1, <1>4 DEF Provisioned
<1> HIDE DEF s, want
<1>5. ASSUME NEW a \in DOMAIN fs'
      PROVE  IF a[1] = "aws_efs_file_system"
               THEN fs'[a].token = TokenOf(a) /\ fs'[a].deployment = "" /\ fs'[a].place = <<>>
                    /\ fs'[a].capacity = 0
               ELSE fs'[a].token = <<>>
  <2>1. CASE a \in S
    <3>1. PICK i \in DOMAIN s : a = fileSystem(s[i])
      BY <1>1, <1>2, <2>1
    <3>2. want[a] = wantedOf(s[i], data(o).place)
      BY <1>2, <3>1
    <3>3. /\ s[i].kind = "efs" => /\ want[a].token = s[i].token /\ want[a].deployment = ""
                                  /\ want[a].place = <<>> /\ want[a].capacity = 0
          /\ s[i].kind # "efs" => want[a].token = <<>>
      <4> DEFINE e == s[i]
                 where == data(o).place
                 w == want[a]
      <4>1. w = wantedOf(e, where)
        BY <3>2
      <4> HIDE DEF e, where, w
      <4>2. /\ e.kind = "efs" => w.token = e.token /\ w.deployment = "" /\ w.place = <<>> /\ w.capacity = 0
            /\ e.kind # "efs" => w.token = <<>>
        BY <4>1 DEF wantedOf
      <4> QED BY <4>2 DEF e, w
    <3>4. s[i].token = TokenOf(a) /\ (a[1] = "aws_efs_file_system" <=> s[i].kind = "efs")
      BY <1>3, <3>1
    <3> QED BY <1>4, <2>1, <3>3, <3>4
  <2>2. CASE a \notin S
    BY <1>1, <2>2 DEF IInv, Tokens
  <2> QED BY <2>1, <2>2
<1> QED BY <1>5 DEF Tokens, TokenOf

\* After a complete apply the layer is as its rendering says.
LEMMA ApplySucceedsStep ==
  ASSUME IInv, UNCHANGED deployment, NEW o \in Taking, ApplySucceeds(o) PROVE IInv'
<1> DEFINE s == data(o).storage
           want == Wanted(o)
<1>1. pc[o] = "applying" /\ UNCHANGED <<yaml, flags, workdir, source>>
  BY DEF ApplySucceeds, checkouts
<1>2. TypeInv' /\ CheckedOut' /\ Rendering'
  <2>1. DOMAIN workdir' = Taking /\ \A x \in Taking \ {o} : workdir'[x] = workdir[x]
    BY <1>1 DEF IInv, TypeInv
  <2>2. goto(o, "output")
    BY DEF ApplySucceeds
  <2> QED BY <1>1, <2>1, <2>2, MovesOn
<1>3. Tokens'
  BY <1>1, CarryTokens DEF ApplySucceeds
<1>4. fs' = [a \in DOMAIN want |-> Provisioned(a, want[a])]
  BY DEF ApplySucceeds, Carry
<1>5. /\ DOMAIN want = {fileSystem(s[i]) : i \in DOMAIN s}
      /\ \A i \in DOMAIN s : want[fileSystem(s[i])] = wantedOf(s[i], data(o).place)
  BY <1>1, Applying
<1>6. Sourced(source[o]) /\ s = dataOf(workdir[o]["outputs"]).storage
      /\ \A i \in DOMAIN s : s[i].index = i
  BY <1>1, Applying DEF Data
<1>7. config' = source[o] /\ dataOf(config)' = data(o)
  BY SameVersions DEF ApplySucceeds, data
<1>8. DOMAIN fs' = {fileSystem(s[i]) : i \in DOMAIN s}
  BY <1>4, <1>5
<1>9. ASSUME NEW i \in DOMAIN s
      PROVE  fs'[fileSystem(s[i])].path = s[i].path
  <2> HIDE DEF s, want
  <2> DEFINE a == fileSystem(s[i])
  <2>1. a \in DOMAIN want /\ want[a] = wantedOf(s[i], data(o).place)
    BY <1>5
  <2> HIDE DEF a
  <2>2. fs'[a].path = want[a].path
    BY <1>4, <2>1 DEF Provisioned
  <2>3. want[a].path = s[i].path
    <3> DEFINE e == s[i]
               where == data(o).place
               w == want[a]
    <3>1. w = wantedOf(e, where)
      BY <2>1
    <3> HIDE DEF e, where, w
    <3>2. w.path = e.path
      BY <3>1 DEF wantedOf
    <3> QED BY <3>2 DEF e, w
  <2> QED BY <2>2, <2>3 DEF a
<1>10. DOMAIN dns' = {i \in DOMAIN s : s[i].kind = "efs"}
  BY <1>6 DEF ApplySucceeds, Outputs
<1>11. ASSUME NEW i \in DOMAIN dns'
       PROVE  dns'[i] = fs'[fileSystem(s[i])].id
  <2>1. i \in DOMAIN s /\ s[i].kind = "efs" /\ s[i].index = i
    BY <1>6, <1>10
  <2>2. fileSystem([kind |-> "efs", index |-> i]) = fileSystem(s[i])
    BY <2>1 DEF fileSystem
  <2>3. dns'[i] = fs'[fileSystem([kind |-> "efs", index |-> i])].id
    BY DEF ApplySucceeds, Outputs
  <2> QED BY <2>2, <2>3
<1>12. Standing'
  <2> HIDE DEF s
  <2>1. dataOf(config)'.storage = s
    BY <1>7 DEF s
  <2>2. Sourced(config)'
    BY <1>6, <1>7, SameVersions
  <2> QED BY <1>8, <1>9, <1>10, <1>11, <2>1, <2>2 DEF Standing
<1> QED BY <1>2, <1>3, <1>12 DEF IInv

\* After another one nothing is claimed of it.
LEMMA ApplyFailsStep ==
  ASSUME IInv, UNCHANGED deployment, NEW o \in Taking, ApplyFails(o) PROVE IInv'
<1>1. pc[o] = "applying" /\ Exit(o) /\ UNCHANGED <<yaml, flags, workdir>>
  BY DEF ApplyFails, checkouts
<1>2. TypeInv' /\ CheckedOut' /\ Rendering'
  <2>1. DOMAIN workdir' = Taking /\ \A x \in Taking \ {o} : workdir'[x] = workdir[x]
    BY <1>1 DEF IInv, TypeInv
  <2> QED BY <1>1, <2>1, MovesOn
<1>3. Tokens'
  <2>1. PICK S, lost : Carry(o, S, lost)
    BY DEF ApplyFails
  <2> QED BY <1>1, <2>1, CarryTokens
<1>4. Standing'
  BY DEF ApplyFails, Standing
<1> QED BY <1>2, <1>3, <1>4 DEF IInv

-----------------------------------------------------------------------------
\* The steps that leave the state as it is.
Quiet(o) ==
  \/ LoadFails(o) \/ ensureBucket(o) \/ CreateBucket(o) \/ ensureLockTable(o) \/ CreateTable(o)
  \/ InitBackend(o) \/ Plan(o) \/ ApplyStarts(o) \/ PrintEnv(o) \/ Dies(o) \/ RunPreflight(o)

\* The steps that change neither a rendering nor the layer.
LEMMA QuietStep ==
  ASSUME IInv, UNCHANGED deployment, NEW o \in Taking, Quiet(o) PROVE IInv'
<1>1. CASE LoadFails(o) \/ PrintEnv(o) \/ RunPreflight(o)
  <2>1. pc[o] # "idle" /\ Exit(o) /\ UNCHANGED <<yaml, flags, workdir, state>>
    BY <1>1 DEF LoadFails, Loaded, PrintEnv, RunPreflight, checkouts
  <2>2. DOMAIN workdir' = Taking /\ \A x \in Taking \ {o} : workdir'[x] = workdir[x]
    BY <2>1 DEF IInv, TypeInv
  <2> QED BY <2>1, <2>2, MovesOn, StateStays DEF IInv
<1>2. CASE Dies(o)
  <2>1. pc[o] # "idle" /\ Exit(o) /\ UNCHANGED <<yaml, flags, state>>
    BY <1>2 DEF Dies
  <2>2. DOMAIN workdir' = Taking /\ \A x \in Taking \ {o} : workdir'[x] = workdir[x]
    <3>1. workdir' = workdir \/ \E w : workdir' = [workdir EXCEPT ![o] = w]
      BY <1>2 DEF Dies
    <3> QED BY <3>1 DEF IInv, TypeInv
  <2> QED BY <2>1, <2>2, MovesOn, StateStays DEF IInv
<1>3. CASE ensureBucket(o) \/ CreateBucket(o) \/ ensureLockTable(o) \/ CreateTable(o)
           \/ InitBackend(o) \/ Plan(o) \/ ApplyStarts(o)
  <2>1. /\ pc[o] \notin {"idle", "load", "write"} /\ UNCHANGED <<yaml, flags, workdir, state>>
        /\ \/ Exit(o)
           \/ \E at \in {"createBucket", "table", "createTable", "init", "plan", "apply",
                         "applying", "output"} : goto(o, at) /\ UNCHANGED source
    <3>1. CASE ensureBucket(o)
      BY <3>1 DEF ensureBucket, checkouts
    <3>2. CASE CreateBucket(o)
      BY <3>2 DEF CreateBucket, checkouts
    <3>3. CASE ensureLockTable(o)
      BY <3>3 DEF ensureLockTable, checkouts
    <3>4. CASE CreateTable(o)
      BY <3>4 DEF CreateTable, checkouts
    <3>5. CASE InitBackend(o)
      BY <3>5 DEF InitBackend, checkouts
    <3>6. CASE Plan(o)
      BY <3>6 DEF Plan, checkouts
    <3>7. CASE ApplyStarts(o)
      BY <3>7 DEF ApplyStarts, checkouts
    <3> QED BY <1>3, <3>1, <3>2, <3>3, <3>4, <3>5, <3>6, <3>7
  <2>2. DOMAIN workdir' = Taking /\ \A x \in Taking \ {o} : workdir'[x] = workdir[x]
    BY <2>1 DEF IInv, TypeInv
  <2>3. CASE Exit(o)
    BY <2>1, <2>2, <2>3, MovesOn, StateStays DEF IInv
  <2>4. ASSUME NEW at \in {"createBucket", "table", "createTable", "init", "plan", "apply",
                           "applying", "output"}, goto(o, at), UNCHANGED source
        PROVE  IInv'
    <3>1. TypeInv' /\ CheckedOut' /\ Rendering'
      BY <2>1, <2>2, <2>4, MovesOn
    <3> QED BY <2>1, <3>1, StateStays DEF IInv
  <2> QED BY <2>1, <2>3, <2>4
<1> QED BY <1>1, <1>2, <1>3 DEF Quiet

\* DynamoDB and the person with the lock.
LEMMA OthersStep == ASSUME IInv, UNCHANGED deployment, Others PROVE IInv'
<1>1. UNCHANGED <<checkouts, process, state>>
  BY DEF Others, TableActive, ForceUnlock
<1> QED BY <1>1, Undisturbed, StateStays DEF IInv

\* The invariant is inductive.
LEMMA StepIInv == IInv /\ [Next]_vars => IInv'
<1> SUFFICES ASSUME IInv, [Next]_vars PROVE IInv'
  OBVIOUS
<1>1. CASE UNCHANGED vars
  BY <1>1, Undisturbed, StateStays DEF vars, IInv
<1>2. CASE Next
  <2>1. UNCHANGED deployment
    BY <1>2 DEF Next
  <2>2. ASSUME NEW o \in Taking, Step(o) \/ ApplyFails(o) \/ Dies(o) \/ Edit(o) \/ Checkout(o)
        PROVE  IInv'
    <3>1. \/ Quiet(o) \/ Generate(o) \/ WriteFiles(o) \/ ApplySucceeds(o) \/ ApplyFails(o)
          \/ Edit(o) \/ Checkout(o)
      BY <2>2 DEF Step, Quiet
    <3> QED BY <2>1, <3>1, QuietStep, GenerateStep, WriteFilesStep, ApplySucceedsStep,
               ApplyFailsStep, EditStep, CheckoutStep
  <2>3. ASSUME NEW o \in Taking, NEW c, Start(o, c) PROVE IInv'
    BY <2>1, <2>3, StartStep
  <2> QED BY <1>2, <2>1, <2>2, <2>3, OthersStep DEF Next
<1> QED BY <1>1, <1>2

\* What the commands and the state keep to, in every reachable state.
THEOREM Invariant == Spec => []IInv
BY InitIInv, StepIInv, PTL DEF Spec

-----------------------------------------------------------------------------
(* What follows from it.                                                    *)

\* Past the write, what tofu finds is the rendering of the command's source.
LEMMA ConfigurationIs ==
  ASSUME IInv, NEW o \in Taking, pc[o] \notin {"idle", "load", "write"}
  PROVE  Configuration(o) = Foundation(data(o))
<1>1. Sourced(source[o]) /\ workdir[o] = [f \in File |-> source[o]]
  BY DEF IInv, Rendering
<1>2. source[o] # None
  BY <1>1, VersionData DEF IInv, TypeInv
<1>3. \A f \in File : workdir[o][f] = source[o]
  BY <1>1
<1>4. {g \in File : workdir[o][g] # None} = File
  BY <1>2, <1>3
<1>5. \A f \in File : foundationTemplate(f, dataOf(workdir[o][f])) = foundationTemplate(f, data(o))
  BY <1>3 DEF data
<1>6. {foundationTemplate(f, dataOf(workdir[o][f])) : f \in File}
        = {foundationTemplate(f, data(o)) : f \in File}
  BY <1>5
<1> QED BY <1>4, <1>6 DEF Configuration, Foundation

\* What is applied is the source, rendered.
LEMMA InvAppliedIsOneRendering == IInv => AppliedIsOneRendering
BY ConfigurationIs DEF AppliedIsOneRendering

\* What is planned is a valid rendering, which resolves when it fits.
LEMMA InvRenderedResolves == IInv => RenderedResolves
<1> SUFFICES ASSUME IInv, NEW o \in Taking, pc[o] = "plan"
             PROVE  Resolves(Configuration(o)) <=> Fits(data(o))
  BY DEF RenderedResolves
<1>1. Sourced(source[o])
  BY DEF IInv, Rendering
<1>2. /\ cluster(source[o]) \in ClusterYAML /\ D.flags[source[o].flags] \in FoundationOpts
      /\ validate(cluster(source[o]))
  BY <1>1, VersionData DEF IInv, TypeInv, Sourced
<1>3. Configuration(o) = Foundation(data(o))
  BY ConfigurationIs
<1> QED BY <1>2, <1>3, ValidRenderingResolves DEF data, dataOf

\* What the templates are given of an entry.
LEMMA BuiltEntry ==
  ASSUME NEW v
  PROVE  LET s == dataOf(v).storage IN
         /\ DOMAIN s = DOMAIN cluster(v).storage
         /\ \A i \in DOMAIN s : /\ s[i].path = cluster(v).storage[i].path
                                /\ s[i].kind = cluster(v).storage[i].kind
<1>1. dataOf(v).storage = buildStorage(cluster(v))
  BY DEF dataOf, templateData
<1>2. DOMAIN buildStorage(cluster(v)) = DOMAIN cluster(v).storage
  BY DEF buildStorage
<1>3. ASSUME NEW i \in DOMAIN cluster(v).storage
      PROVE  /\ buildStorage(cluster(v))[i].path = cluster(v).storage[i].path
             /\ buildStorage(cluster(v))[i].kind = cluster(v).storage[i].kind
  BY DEF buildStorage
<1> QED BY <1>1, <1>2, <1>3

\* The entry over the state directory has its file system.
LEMMA InvStateDirIsProvisioned == IInv => StateDirIsProvisioned
<1> SUFFICES ASSUME IInv, config # None, cluster(config).type, cluster(config).stateDir # <<>>
             PROVE  \E a \in DOMAIN fs : IsPrefix(fs[a].path, cluster(config).stateDir)
  BY DEF StateDirIsProvisioned
<1> DEFINE s == dataOf(config).storage
<1>1. /\ validate(cluster(config))
      /\ DOMAIN fs = {fileSystem(s[i]) : i \in DOMAIN s}
      /\ \A i \in DOMAIN s : fs[fileSystem(s[i])].path = s[i].path
  BY DEF IInv, Standing, Sourced
<1>2. PICK i \in DOMAIN cluster(config).storage :
        IsPrefix(cluster(config).storage[i].path, cluster(config).stateDir)
  BY <1>1 DEF validate, validStateDir, underMount
<1>3. i \in DOMAIN s /\ s[i].path = cluster(config).storage[i].path
  BY BuiltEntry
<1>4. fileSystem(s[i]) \in DOMAIN fs /\ fs[fileSystem(s[i])].path = cluster(config).storage[i].path
  BY <1>1, <1>3
<1> QED BY <1>2, <1>4

\* What is handed to `tofu plan` resolves exactly when the numbers fit, for
\* any number of operators, versions, edits and faults (cmdApply).
THEOREM RenderedResolvesHolds == Spec => []RenderedResolves
BY Invariant, InvRenderedResolves, PTL

\* An apply is of one rendering of one valid cluster.yaml (WriteFiles, Apply).
THEOREM AppliedIsOneRenderingHolds == Spec => []AppliedIsOneRendering
BY Invariant, InvAppliedIsOneRendering, PTL

\* There is a file system for the path of a controller's save-state directory
\* (validateStateDir, underMount, and what an apply makes of the entries).
THEOREM StateDirIsProvisionedHolds == Spec => []StateDirIsProvisioned
BY Invariant, InvStateDirIsProvisioned, PTL

\* A step of tofu keeps the file system of an entry that stays.
LEMMA CarryKeeps ==
  ASSUME IInv, NEW o \in Taking, pc[o] = "applying", NEW S, NEW lost, Carry(o, S, lost),
         NEW e \in Range(data(o).storage), NEW a, a = fileSystem(e), a \in DOMAIN fs,
         \/ e.kind = "efs"
         \/ /\ fs[a].deployment = e.deployment /\ fs[a].place = data(o).place
            /\ Fitting(fs[a], e)
  PROVE  a \in DOMAIN fs' /\ fs'[a].id = fs[a].id
<1> DEFINE s == data(o).storage
           want == Wanted(o)
<1>1. /\ fs' = [b \in (DOMAIN fs \ (S \cup lost)) \cup (DOMAIN want \cap S) |->
                  IF b \in S THEN Provisioned(b, want[b]) ELSE fs[b]]
      /\ a \in lost => ~Kept(a, want[a])
  BY DEF Carry
<1>2. PICK i \in DOMAIN s : e = s[i]
  BY DEF Range
<1>3. a \in DOMAIN want /\ want[a] = wantedOf(e, data(o).place)
  BY <1>2, Applying
<1>4. e.token = TokenOf(a) /\ (a[1] = "aws_efs_file_system" <=> e.kind = "efs")
  <2>1. /\ s[i].token = TokenOf(fileSystem(s[i]))
        /\ fileSystem(s[i])[1] = "aws_efs_file_system" <=> s[i].kind = "efs"
    BY <1>2, ApplyingTokens
  <2> HIDE DEF s
  <2> QED BY <1>2, <2>1
<1> HIDE DEF s, want
<1>5. IF e.kind = "efs"
        THEN fs[a].token = TokenOf(a) /\ fs[a].deployment = "" /\ fs[a].place = <<>> /\ fs[a].capacity = 0
        ELSE fs[a].token = <<>>
  BY <1>4 DEF IInv, Tokens
<1>6. /\ e.kind = "efs" => /\ want[a].token = e.token /\ want[a].deployment = ""
                           /\ want[a].place = <<>> /\ want[a].capacity = 0
      /\ e.kind # "efs" => /\ want[a].token = <<>> /\ want[a].deployment = e.deployment
                           /\ want[a].place = data(o).place /\ want[a].capacity = e.capacity
  <2> DEFINE where == data(o).place
             w == want[a]
  <2>1. w = wantedOf(e, where)
    BY <1>3
  <2> HIDE DEF where, w
  <2>2. /\ e.kind = "efs" => w.token = e.token /\ w.deployment = "" /\ w.place = <<>> /\ w.capacity = 0
        /\ e.kind # "efs" => /\ w.token = <<>> /\ w.deployment = e.deployment
                             /\ w.place = where /\ w.capacity = e.capacity
    BY <2>1 DEF wantedOf
  <2> QED BY <2>2 DEF where, w
<1>7. Fitting(fs[a], want[a])
  <2>1. CASE e.kind = "efs"
    <3>1. fs[a].capacity = 0 /\ want[a].capacity = 0
      BY <1>5, <1>6, <2>1
    <3>2. \A old, new : old.capacity = 0 /\ new.capacity = 0 => Fitting(old, new)
      BY DEF Fitting
    <3> QED BY <3>1, <3>2
  <2>2. CASE e.kind # "efs"
    BY <1>6, <2>2 DEF Fitting
  <2> QED BY <2>1, <2>2
<1>8. Kept(a, want[a])
  BY <1>4, <1>5, <1>6, <1>7 DEF Kept
<1>9. CASE a \in S
  <2>1. a \in DOMAIN fs' /\ fs'[a] = Provisioned(a, want[a])
    BY <1>1, <1>3, <1>9
  <2> QED BY <1>8, <2>1 DEF Provisioned
<1>10. CASE a \notin S
  BY <1>1, <1>8, <1>10
<1> QED BY <1>9, <1>10

\* So does an apply, complete or not.
LEMMA StepEntryKeeps ==
  ASSUME IInv
  PROVE  \A o \in Taking : pc[o] = "applying" /\ (ApplySucceeds(o) \/ ApplyFails(o)) =>
           \A e \in Range(data(o).storage) : LET a == fileSystem(e) IN
             a \in DOMAIN fs /\ fs[a].path = e.path
             /\ \/ e.kind = "efs"
                \/ /\ fs[a].deployment = e.deployment /\ fs[a].place = data(o).place
                   /\ Fitting(fs[a], e)
             => a \in DOMAIN fs' /\ fs'[a].id = fs[a].id
<1> SUFFICES ASSUME NEW o \in Taking, pc[o] = "applying", ApplySucceeds(o) \/ ApplyFails(o)
             PROVE  \A e \in Range(data(o).storage) :
                      fileSystem(e) \in DOMAIN fs
                      /\ \/ e.kind = "efs"
                         \/ /\ fs[fileSystem(e)].deployment = e.deployment
                            /\ fs[fileSystem(e)].place = data(o).place
                            /\ Fitting(fs[fileSystem(e)], e)
                      => fileSystem(e) \in DOMAIN fs'
                         /\ fs'[fileSystem(e)].id = fs[fileSystem(e)].id
  OBVIOUS
<1>1. \E S, lost : Carry(o, S, lost)
  BY DEF ApplySucceeds, ApplyFails
<1> QED BY <1>1, CarryKeeps

\* What is counted, and what is printed.
Printed == faults \in Nat /\ DOMAIN env = Taking

\* What the printing of the environment needs of its variables is kept.
LEMMA StepPrinted == Printed /\ [Next]_vars => Printed'
<1> SUFFICES ASSUME Printed, [Next]_vars PROVE Printed'
  OBVIOUS
<1>1. CASE UNCHANGED vars
  BY <1>1, SameVersions DEF vars, printed, bounds, Printed
<1>2. CASE Next
  <2>1. Taking' = Taking
    BY <1>2, SameVersions DEF Next
  <2>2. /\ faults' = faults \/ faults' = faults + 1
        /\ env' = env \/ \E o, e : env' = [env EXCEPT ![o] = e]
    <3>1. ASSUME NEW o, Step(o) \/ ApplyFails(o) \/ Dies(o)
          PROVE  <2>2!:
      <4>1. CASE \/ LoadFails(o) \/ Generate(o) \/ WriteFiles(o) \/ ensureBucket(o)
                 \/ CreateBucket(o) \/ ensureLockTable(o) \/ CreateTable(o)
        BY <4>1 DEF LoadFails, Generate, WriteFiles, ensureBucket, CreateBucket,
                    ensureLockTable, CreateTable, printed, bounds
      <4>2. CASE \/ InitBackend(o) \/ Plan(o) \/ ApplyStarts(o) \/ ApplySucceeds(o)
                 \/ RunPreflight(o)
        BY <4>2 DEF InitBackend, Plan, ApplyStarts, ApplySucceeds, RunPreflight, printed, bounds
      <4>3. CASE PrintEnv(o) \/ ApplyFails(o) \/ Dies(o)
        BY <4>3 DEF PrintEnv, ApplyFails, Dies, printed
      <4> QED BY <3>1, <4>1, <4>2, <4>3 DEF Step
    <3>2. ASSUME NEW o, NEW c, Start(o, c) \/ Edit(o) \/ Checkout(o)
          PROVE  <2>2!:
      BY <3>2 DEF Start, Edit, Checkout, printed, bounds
    <3>3. CASE Others
      BY <3>3 DEF Others, TableActive, ForceUnlock, printed, bounds
    <3> QED BY <1>2, <3>1, <3>2, <3>3 DEF Next
  <2> QED BY <2>1, <2>2 DEF Printed
<1> QED BY <1>1, <1>2

\* And holds always.
LEMMA PrintedHolds == Spec => []Printed
<1>1. Init => Printed
  BY DEF Init, Printed, all
<1> QED BY <1>1, StepPrinted, PTL DEF Spec

\* What is printed of a layer that stands pairs paths with file systems.
LEMMA StepEnvPairs ==
  ASSUME IInv, Printed, NEW o \in Taking, PrintEnv(o), UNCHANGED faults, config # None,
         cluster(config).storage = cluster(source[o]).storage
  PROVE  env'[o] = {[path |-> fs[a].path, dns |-> fs[a].id] :
                      a \in {b \in DOMAIN fs : b[1] = "aws_efs_file_system"}}
<1> DEFINE s == dataOf(config).storage
           c == cluster(source[o]).storage
<1>1. env'[o] = applyEnvLines(c, dns)
  BY DEF PrintEnv, Printed
<1>2. /\ Sourced(config)
      /\ DOMAIN fs = {fileSystem(s[i]) : i \in DOMAIN s}
      /\ \A i \in DOMAIN s : fs[fileSystem(s[i])].path = s[i].path
      /\ DOMAIN dns = {i \in DOMAIN s : s[i].kind = "efs"}
      /\ \A i \in DOMAIN dns : dns[i] = fs[fileSystem(s[i])].id
  BY DEF IInv, Standing
<1>3. DOMAIN c = DOMAIN s /\ \A i \in DOMAIN s : s[i].path = c[i].path
  BY BuiltEntry
<1>4. \A i \in DOMAIN s : fileSystem(s[i])[1] = "aws_efs_file_system" <=> s[i].kind = "efs"
  BY <1>2, WantedTokens DEF IInv, TypeInv
<1> HIDE DEF s, c
<1>5. DOMAIN c \cap DOMAIN dns = DOMAIN dns
  BY <1>2, <1>3
<1>6. applyEnvLines(c, dns) = {[path |-> c[i].path, dns |-> dns[i]] : i \in DOMAIN dns}
  BY <1>5 DEF applyEnvLines
<1>7. \A i \in DOMAIN dns :
        /\ c[i].path = fs[fileSystem(s[i])].path /\ dns[i] = fs[fileSystem(s[i])].id
  BY <1>2, <1>3
<1>8. {b \in DOMAIN fs : b[1] = "aws_efs_file_system"} = {fileSystem(s[i]) : i \in DOMAIN dns}
  BY <1>2, <1>4
<1>9. {[path |-> c[i].path, dns |-> dns[i]] : i \in DOMAIN dns}
        = {[path |-> fs[a].path, dns |-> fs[a].id] : a \in {fileSystem(s[i]) : i \in DOMAIN dns}}
  BY <1>7
<1> QED BY <1>1, <1>6, <1>8, <1>9

\* The mount spec printed pairs each path with its own file system: the index
\* of the template and the position in applyEnvLines agree (buildStorage).
THEOREM EnvPairsHolds == Spec => EnvPairsPathWithItsFileSystem
<1>1. IInv /\ Printed /\ [Next]_vars =>
        [\A o \in Taking :
          PrintEnv(o) /\ UNCHANGED faults /\ config # None
          /\ cluster(config).storage = cluster(source[o]).storage
          => env'[o] = {[path |-> fs[a].path, dns |-> fs[a].id] :
                          a \in {b \in DOMAIN fs : b[1] = "aws_efs_file_system"}}]_vars
  BY StepEnvPairs
<1> QED BY <1>1, Invariant, PrintedHolds, PTL DEF Spec, EnvPairsPathWithItsFileSystem

\* An entry that stays where it is keeps its file system through any apply, one that
\* fails half way included; a Lustre entry, while its own settings and its network allow.
THEOREM EntryKeepsHolds == Spec => EntryKeepsItsFileSystem
<1>1. IInv /\ [Next]_vars =>
        [\A o \in Taking : pc[o] = "applying" /\ (ApplySucceeds(o) \/ ApplyFails(o)) =>
           \A e \in Range(data(o).storage) : LET a == fileSystem(e) IN
             a \in DOMAIN fs /\ fs[a].path = e.path
             /\ \/ e.kind = "efs"
                \/ /\ fs[a].deployment = e.deployment /\ fs[a].place = data(o).place
                   /\ Fitting(fs[a], e)
             => a \in DOMAIN fs' /\ fs'[a].id = fs[a].id]_vars
  BY StepEntryKeeps
<1> QED BY <1>1, Invariant, PTL DEF Spec, EntryKeepsItsFileSystem

-----------------------------------------------------------------------------
(* The report of a preflight.                                               *)

\* What is in two sequences put together (\o).
LEMMA ConcatRange ==
  ASSUME NEW S, NEW s \in Seq(S), NEW t \in Seq(S)
  PROVE  s \o t \in Seq(S) /\ Range(s \o t) = Range(s) \cup Range(t)
<1>1. /\ s \o t \in Seq(S) /\ Len(s) \in Nat /\ Len(t) \in Nat
      /\ DOMAIN (s \o t) = 1..(Len(s) + Len(t)) /\ DOMAIN s = 1..Len(s) /\ DOMAIN t = 1..Len(t)
      /\ \A i \in 1..(Len(s) + Len(t)) :
           (s \o t)[i] = IF i <= Len(s) THEN s[i] ELSE t[i - Len(s)]
  BY ConcatProperties, LenProperties
<1>2. ASSUME NEW i \in DOMAIN (s \o t) PROVE (s \o t)[i] \in Range(s) \cup Range(t)
  <2>1. CASE i <= Len(s)
    BY <1>1, <1>2, <2>1 DEF Range
  <2>2. CASE ~(i <= Len(s))
    <3>1. i - Len(s) \in DOMAIN t /\ (s \o t)[i] = t[i - Len(s)]
      BY <1>1, <1>2, <2>2
    <3> QED BY <3>1 DEF Range
  <2> QED BY <2>1, <2>2
<1>3. ASSUME NEW i \in DOMAIN s PROVE s[i] \in Range(s \o t)
  <2>1. i \in DOMAIN (s \o t) /\ (s \o t)[i] = s[i]
    BY <1>1, <1>3
  <2> QED BY <2>1 DEF Range
<1>4. ASSUME NEW i \in DOMAIN t PROVE t[i] \in Range(s \o t)
  <2>1. Len(s) + i \in DOMAIN (s \o t) /\ (s \o t)[Len(s) + i] = t[i]
    BY <1>1, <1>4
  <2> QED BY <2>1 DEF Range
<1>5. Range(s \o t) \subseteq Range(s) \cup Range(t)
  BY <1>2 DEF Range
<1>6. Range(s) \cup Range(t) \subseteq Range(s \o t)
  BY <1>3, <1>4 DEF Range
<1> QED BY <1>1, <1>5, <1>6

\* The first number at which something does not hold (in place of induction).
LEMMA Least ==
  ASSUME NEW T, T \subseteq Nat, T # {}
  PROVE  \E n \in T : \A m \in T : n <= m
<1> DEFINE before == {p \in Nat \X Nat : p[1] < p[2]}
<1>1. IsWellFoundedOn(before, Nat)
  BY NatLessThanWellFounded DEF OpToRel
<1>2. PICK n \in T : \A m \in T : <<m, n>> \notin before
  <2> HIDE DEF before
  <2> QED BY <1>1, WFMin
<1>3. ASSUME NEW m \in T PROVE n <= m
  <2>1. <<m, n>> \in Nat \X Nat /\ <<m, n>>[1] = m /\ <<m, n>>[2] = n /\ m \in Nat /\ n \in Nat
    OBVIOUS
  <2>2. ~ (<<m, n>>[1] < <<m, n>>[2])
    BY <1>2, <2>1, Zenon
  <2> QED BY <2>1, <2>2
<1> QED BY <1>3

\* The recursion of FlattenSeq, up to m.
flat(f, seqs, m) == f = [i \in 1..m |-> IF i = 1 THEN seqs[i] ELSE f[i-1] \o seqs[i]]

\* It has a solution, however far it goes.
LEMMA FlatExists ==
  ASSUME NEW seqs, NEW n \in Nat
  PROVE  \E f : flat(f, seqs, n)
<1> DEFINE bad == {m \in Nat : ~ \E f : flat(f, seqs, m)}
<1>1. SUFFICES ASSUME bad # {} PROVE FALSE
  OBVIOUS
<1>2. PICK m \in bad : \A k \in bad : m <= k
  BY <1>1, Least
<1>3. CASE m = 0
  <2>1. flat([i \in 1..0 |-> seqs[i]], seqs, 0)
    BY DEF flat
  <2> QED BY <1>3, <2>1
<1>4. CASE m # 0
  <2>1. m - 1 \in Nat /\ m \in Nat /\ m - 1 \notin bad
    BY <1>2, <1>4
  <2>2. PICK g : flat(g, seqs, m - 1)
    BY <2>1
  <2> DEFINE h == [i \in 1..m |-> IF i = 1 THEN seqs[i] ELSE g[i-1] \o seqs[i]]
  <2>3. ASSUME NEW i \in 1..m, i # 1 PROVE h[i-1] = g[i-1]
    <3>1. i - 1 \in 1..(m - 1) /\ i - 1 \in 1..m
      BY <2>1, <2>3
    <3>2. g[i-1] = IF i - 1 = 1 THEN seqs[i-1] ELSE g[i-1-1] \o seqs[i-1]
      BY <2>2, <3>1 DEF flat
    <3> QED BY <3>1, <3>2
  <2>4. h = [i \in 1..m |-> IF i = 1 THEN seqs[i] ELSE h[i-1] \o seqs[i]]
    <3> HIDE DEF h
    <3>1. h = [i \in 1..m |-> IF i = 1 THEN seqs[i] ELSE g[i-1] \o seqs[i]]
      BY DEF h
    <3> QED BY <3>1, <2>3
  <2>5. flat(h, seqs, m)
    <3> HIDE DEF h
    <3> QED BY <2>4 DEF flat
  <2> QED BY <2>5
<1> QED BY <1>3, <1>4

\* FlattenSeq keeps the members of its sequences and adds none.
LEMMA FlattenRange ==
  ASSUME NEW S, NEW seqs \in Seq(Seq(S))
  PROVE  /\ FlattenSeq(seqs) \in Seq(S)
         /\ Range(FlattenSeq(seqs)) = UNION {Range(seqs[i]) : i \in DOMAIN seqs}
<1> DEFINE n == Len(seqs)
<1>1. n \in Nat /\ DOMAIN seqs = 1..n /\ \A i \in 1..n : seqs[i] \in Seq(S)
  BY LenProperties, ElementOfSeq
<1>2. CASE n = 0
  <2>1. seqs = << >>
    BY <1>2, EmptySeq
  <2>2. FlattenSeq(seqs) = << >>
    BY <2>1, <1>2 DEF FlattenSeq
  <2>3. << >> \in Seq(S) /\ Range(<< >>) = {} /\ DOMAIN seqs = {}
    BY <1>1, <1>2 DEF Range
  <2>4. UNION {Range(seqs[i]) : i \in DOMAIN seqs} = {}
    BY <2>3
  <2> QED BY <2>2, <2>3, <2>4
<1>3. CASE n # 0
  <2> DEFINE flatten[i \in 1..Len(seqs)] ==
               IF i = 1 THEN seqs[i] ELSE flatten[i-1] \o seqs[i]
  <2>1. FlattenSeq(seqs) = flatten[n]
    BY <1>3 DEF FlattenSeq
  <2>2. flatten = CHOOSE f : flat(f, seqs, n)
    BY Zenon DEF flat
  <2>3. flat(flatten, seqs, n)
    <3>1. \E f : flat(f, seqs, n)
      BY <1>1, FlatExists
    <3> HIDE DEF flatten
    <3> QED BY <2>2, <3>1
  <2> HIDE DEF flatten
  <2> DEFINE upTo(m) == UNION {Range(seqs[i]) : i \in 1..m}
             bad == {m \in 1..n : ~(flatten[m] \in Seq(S) /\ Range(flatten[m]) = upTo(m))}
  <2>4. ASSUME bad # {} PROVE FALSE
    <3>1. PICK m \in bad : \A k \in bad : m <= k
      <4>1. bad \subseteq Nat
        BY <1>1
      <4> HIDE DEF bad
      <4> QED BY <2>4, <4>1, Least
    <3>0. m \in 1..n
      OBVIOUS
    <3>2. CASE m = 1
      <4>1. flatten[1] = seqs[1]
        BY <1>1, <1>3, <2>3 DEF flat
      <4>2. upTo(1) = Range(seqs[1])
        OBVIOUS
      <4> QED BY <1>1, <1>3, <3>2, <4>1, <4>2
    <3>3. CASE m # 1
      <4>1. m \in 1..n /\ m - 1 \in 1..n /\ m - 1 \notin bad
        <5>1. m - 1 \in 1..n /\ ~(m <= m - 1)
          BY <1>1, <3>0, <3>3
        <5> HIDE DEF bad
        <5> QED BY <3>0, <3>1, <5>1
      <4>2. flatten[m] = flatten[m-1] \o seqs[m]
        BY <1>1, <2>3, <3>3, <4>1 DEF flat
      <4>3. flatten[m-1] \in Seq(S) /\ Range(flatten[m-1]) = upTo(m - 1)
        BY <4>1
      <4>4. seqs[m] \in Seq(S)
        BY <1>1, <4>1
      <4>5. flatten[m] \in Seq(S) /\ Range(flatten[m]) = Range(flatten[m-1]) \cup Range(seqs[m])
        BY <4>2, <4>3, <4>4, ConcatRange
      <4>6. 1..m = 1..(m - 1) \cup {m}
        BY <1>1, <4>1
      <4>7. upTo(m) = upTo(m - 1) \cup Range(seqs[m])
        BY <4>6
      <4> QED BY <3>1, <4>3, <4>5, <4>7
    <3> QED BY <3>2, <3>3
  <2>5. flatten[n] \in Seq(S) /\ Range(flatten[n]) = upTo(n)
    <3>1. n \in 1..n
      BY <1>1, <1>3
    <3> HIDE DEF n, upTo
    <3> QED BY <2>4, <3>1
  <2> QED BY <1>1, <2>1, <2>5
<1> QED BY <1>2, <1>3

\* What a preflight asks is about the AMI, the subnets and the rungs, and
\* nothing else.
LEMMA QuestionsAre ==
  ASSUME NEW c, c.subnets \in Nat, NEW rungs, rungs \in Seq(Range(rungs)), NEW quota \in BOOLEAN, NEW region
  PROVE  LET q == questions(c, rungs, quota, region) IN
         Range(q) = (IF c.ami THEN {Result("ami-exists", "ami", region.image)} ELSE {})
                    \cup (IF c.byo THEN {Result("subnet-exists", k, k \in region.subnets) : k \in 1..c.subnets} ELSE {})
                    \cup UNION {Range(rungResults(region, quota, rungs[r])) : r \in DOMAIN rungs}
<1> DEFINE A == IF c.ami THEN <<Result("ami-exists", "ami", region.image)>> ELSE <<>>
           B == IF c.byo THEN [k \in 1..c.subnets |-> Result("subnet-exists", k, k \in region.subnets)] ELSE <<>>
           C == [r \in DOMAIN rungs |-> rungResults(region, quota, rungs[r])]
           ra == IF c.ami THEN {Result("ami-exists", "ami", region.image)} ELSE {}
           rb == IF c.byo THEN {Result("subnet-exists", k, k \in region.subnets) : k \in 1..c.subnets} ELSE {}
           rc == UNION {Range(rungResults(region, quota, rungs[r])) : r \in DOMAIN rungs}
           S == ra \cup rb \cup rc
<1>1. Range(A) = ra /\ A \in Seq(S)
  <2>1. CASE c.ami
    <3>1. A = <<Result("ami-exists", "ami", region.image)>> /\ ra = {Result("ami-exists", "ami", region.image)}
      BY <2>1
    <3> HIDE DEF A, ra, rb, rc
    <3>2. Result("ami-exists", "ami", region.image) \in S
      BY <3>1
    <3> QED BY <3>1, <3>2 DEF Range
  <2>2. CASE ~c.ami
    BY <2>2 DEF Range
  <2> QED BY <2>1, <2>2
<1>2. Range(B) = rb /\ B \in Seq(S)
  <2>1. CASE c.byo
    <3>1. B = [k \in 1..c.subnets |-> Result("subnet-exists", k, k \in region.subnets)]
          /\ rb = {Result("subnet-exists", k, k \in region.subnets) : k \in 1..c.subnets}
      BY <2>1
    <3> HIDE DEF A, B, ra, rb, rc
    <3>2. \A k \in 1..c.subnets : Result("subnet-exists", k, k \in region.subnets) \in S
      BY <3>1
    <3>3. B \in Seq(S)
      BY <3>1, <3>2
    <3> QED BY <3>1, <3>3 DEF Range
  <2>2. CASE ~c.byo
    BY <2>2 DEF Range
  <2> QED BY <2>1, <2>2
<1>3. C \in Seq(Seq(S)) /\ DOMAIN C = DOMAIN rungs
  <2>1. ASSUME NEW r \in DOMAIN rungs PROVE rungResults(region, quota, rungs[r]) \in Seq(S)
    <3> DEFINE x == rungResults(region, quota, rungs[r])
    <3>1. \E m \in Nat : DOMAIN x = 1..m /\ x = [i \in 1..m |-> x[i]]
      <4>1. CASE rungs[r].az \notin region.zones
        BY <4>1 DEF rungResults
      <4>2. CASE rungs[r].az \in region.zones /\ ~quota
        BY <4>2 DEF rungResults
      <4>3. CASE rungs[r].az \in region.zones /\ quota
        BY <4>3 DEF rungResults
      <4> QED BY <4>1, <4>2, <4>3
    <3> HIDE DEF x
    <3>2. \A i \in DOMAIN x : x[i] \in S
      BY DEF Range, x
    <3>3. x \in Seq(S)
      BY <3>1, <3>2
    <3> QED BY <3>3 DEF x
  <2>2. Len(rungs) \in Nat /\ DOMAIN rungs = 1..Len(rungs)
    BY LenProperties
  <2> HIDE DEF S
  <2> QED BY <2>1, <2>2
<1>4. FlattenSeq(C) \in Seq(S) /\ Range(FlattenSeq(C)) = rc
  <2>1. /\ FlattenSeq(C) \in Seq(S)
        /\ Range(FlattenSeq(C)) = UNION {Range(C[r]) : r \in DOMAIN C}
    <3> HIDE DEF C, S
    <3> QED BY <1>3, FlattenRange
  <2>2. {Range(C[r]) : r \in DOMAIN C} = {Range(rungResults(region, quota, rungs[r])) : r \in DOMAIN rungs}
    OBVIOUS
  <2> HIDE DEF C
  <2> QED BY <2>1, <2>2
<1>5. questions(c, rungs, quota, region) = A \o B \o FlattenSeq(C)
  BY DEF questions
<1> HIDE DEF A, B, C, S
<1>6. A \o B \in Seq(S) /\ Range(A \o B) = Range(A) \cup Range(B)
  BY <1>1, <1>2, ConcatRange
<1>7. Range((A \o B) \o FlattenSeq(C)) = Range(A \o B) \cup Range(FlattenSeq(C))
  <2> DEFINE s == A \o B
             t == FlattenSeq(C)
  <2>1. s \in Seq(S) /\ t \in Seq(S)
    BY <1>4, <1>6
  <2> HIDE DEF s, t
  <2>2. Range(s \o t) = Range(s) \cup Range(t)
    BY <2>1, ConcatRange
  <2> QED BY <2>2 DEF s, t
<1> QED BY <1>1, <1>2, <1>4, <1>5, <1>6, <1>7

\* A report that got its answers is of all the questions (Run).
LEMMA AllAnswered ==
  ASSUME NEW c, NEW rungs, NEW quota, NEW region, NEW broken,
         ~Run(c, rungs, quota, region, broken).err
  PROVE  Run(c, rungs, quota, region, broken).results = questions(c, rungs, quota, region)
<1> DEFINE q == questions(c, rungs, quota, region)
           failing == {i \in DOMAIN q : Unanswered(q[i], region, broken)}
<1>1. Run(c, rungs, quota, region, broken) =
        IF "zones" \in broken THEN [results |-> <<>>, err |-> TRUE]
        ELSE IF failing # {} THEN [results |-> SubSeq(q, 1, Min(failing) - 1), err |-> TRUE]
        ELSE [results |-> q, err |-> FALSE]
  BY DEF Run
<1> HIDE DEF q, failing
<1>2. "zones" \notin broken /\ failing = {}
  BY <1>1
<1>3. Run(c, rungs, quota, region, broken).results = q
  BY <1>1, <1>2
<1> QED BY <1>3 DEF q

\* The members of a sequence of one, and of two.
LEMMA RangeOfFew ==
  ASSUME NEW v, NEW w
  PROVE  Range(<<v>>) = {v} /\ Range(<<v>> \o <<w>>) = {v, w}
<1>1. ASSUME NEW u PROVE Range(<<u>>) = {u}
  <2>1. DOMAIN <<u>> = {1} /\ <<u>>[1] = u
    OBVIOUS
  <2> QED BY <2>1 DEF Range
<1>2. <<v>> \in Seq({v, w}) /\ <<w>> \in Seq({v, w})
  OBVIOUS
<1>3. Range(<<v>> \o <<w>>) = Range(<<v>>) \cup Range(<<w>>)
  BY <1>2, ConcatRange
<1> QED BY <1>1, <1>3

\* A result that blames a rung.
NamesRung(x, rung) ==
  /\ x.check \in {"az-valid", "instance-type-offered", "service-quota"}
  /\ x.target = rung /\ ~x.ok

\* The words for a purchase of PlainlySpelled.
Plain == {"ondemand", "on-demand", "", "spot", "reserved"}

\* What is asked about a rung, plainly spelled, says whether it can be launched on.
LEMMA RungAnswers ==
  ASSUME NEW region, NEW rung, rung.model \in Plain
  PROVE  /\ Launchable(region, rung) =>
              \A x \in Range(rungResults(region, TRUE, rung)) : x.ok
         /\ ~Launchable(region, rung) =>
              \E x \in Range(rungResults(region, TRUE, rung)) : NamesRung(x, rung)
<1> DEFINE offered == <<rung.type, rung.az>> \in region.offered
           a == Result("instance-type-offered", rung, offered)
           b == Result("service-quota", rung, ServiceQuotaOK(region, rung))
           x == rungResults(region, TRUE, rung)
<1>1. ServiceQuotaOK(region, rung) <=>
        CASE capacityModelFromString(rung.model) = "reserved" -> TRUE
          [] capacityModelFromString(rung.model) = "spot"     -> region.spot
          [] OTHER                                            -> region.ondemand
  BY DEF ServiceQuotaOK, capacityModelFromString, Plain
<1>2. CASE rung.az \notin region.zones
  <2>1. x = <<Result("az-valid", rung, FALSE)>>
    BY <1>2 DEF rungResults
  <2> DEFINE no == Result("az-valid", rung, FALSE)
  <2>2. no.check = "az-valid" /\ no.target = rung /\ ~no.ok
    BY DEF Result
  <2>3. ~Launchable(region, rung)
    BY <1>2 DEF Launchable
  <2> HIDE DEF x, no
  <2>4. Range(x) = {no}
    BY <2>1, RangeOfFew DEF no
  <2>5. NamesRung(no, rung)
    BY <2>2 DEF NamesRung
  <2> QED BY <2>3, <2>4, <2>5 DEF x
<1>3. CASE rung.az \in region.zones
  <2>1. x = <<a>> \o <<b>>
    BY <1>3 DEF rungResults
  <2>2. Range(x) = {a, b}
    <3> HIDE DEF x, a, b
    <3> QED BY <2>1, RangeOfFew
  <2>3. a.ok = offered /\ b.ok = ServiceQuotaOK(region, rung)
        /\ a.target = rung /\ b.target = rung
        /\ a.check = "instance-type-offered" /\ b.check = "service-quota"
    BY DEF Result
  <2>4. Launchable(region, rung) <=> (offered /\ ServiceQuotaOK(region, rung))
    BY <1>1, <1>3 DEF Launchable
  <2> HIDE DEF x, a, b, offered
  <2>5. Launchable(region, rung) <=> (a.ok /\ b.ok)
    BY <2>3, <2>4
  <2>6. ~Launchable(region, rung) => ~a.ok \/ ~b.ok
    BY <2>5
  <2>7. Launchable(region, rung) => \A y \in Range(x) : y.ok
    BY <2>2, <2>5
  <2>8. ~Launchable(region, rung) => \E y \in Range(x) : NamesRung(y, rung)
    BY <2>2, <2>3, <2>6 DEF NamesRung
  <2> QED BY <2>7, <2>8 DEF x
<1> QED BY <1>2, <1>3

\* A report that got its answers is right about the region (Run, Report.OK).
LEMMA ReportIsExact ==
  ASSUME NEW c, c.subnets \in Nat, NEW rungs, rungs \in Seq(Range(rungs)),
         NEW region, NEW broken, PlainlySpelled(rungs),
         NEW said, said = Run(c, rungs, TRUE, region, broken), ~said.err
  PROVE  /\ OK(said) <=> Serves(region, c, rungs)
         /\ \A n \in DOMAIN rungs : ~Launchable(region, rungs[n]) =>
              \E x \in Range(said.results) : NamesRung(x, rungs[n])
<1> DEFINE asked == Range(said.results)
           image == Result("ami-exists", "ami", region.image)
           subnet(k) == Result("subnet-exists", k, k \in region.subnets)
           of(n) == Range(rungResults(region, TRUE, rungs[n]))
<1>1. asked = (IF c.ami THEN {image} ELSE {})
              \cup (IF c.byo THEN {subnet(k) : k \in 1..c.subnets} ELSE {})
              \cup UNION {of(n) : n \in DOMAIN rungs}
  <2>1. said.results = questions(c, rungs, TRUE, region)
    BY AllAnswered
  <2>2. Range(questions(c, rungs, TRUE, region))
          = (IF c.ami THEN {image} ELSE {})
            \cup (IF c.byo THEN {subnet(k) : k \in 1..c.subnets} ELSE {})
            \cup UNION {of(n) : n \in DOMAIN rungs}
    BY QuestionsAre
  <2> HIDE DEF image, subnet, of
  <2> QED BY <2>1, <2>2
<1>2. OK(said) <=> \A x \in asked : x.ok
  BY DEF OK, Range
<1>3. image.ok = region.image /\ \A k : subnet(k).ok = (k \in region.subnets)
  BY DEF Result
<1>4. ASSUME NEW n \in DOMAIN rungs
      PROVE  /\ Launchable(region, rungs[n]) => \A x \in of(n) : x.ok
             /\ ~Launchable(region, rungs[n]) =>
                  \E x \in of(n) : NamesRung(x, rungs[n])
  <2>1. rungs[n].model \in Plain
    BY <1>4 DEF PlainlySpelled, Plain
  <2> QED BY <2>1, RungAnswers
<1> HIDE DEF asked, image, subnet, of
<1>5. ASSUME NEW n \in DOMAIN rungs, ~Launchable(region, rungs[n])
      PROVE  \E x \in asked : NamesRung(x, rungs[n])
  BY <1>1, <1>4, <1>5
<1>6. ASSUME Serves(region, c, rungs), NEW x \in asked PROVE x.ok
  <2>1. CASE c.ami /\ x = image
    BY <1>3, <1>6, <2>1 DEF Serves
  <2>2. ASSUME c.byo, NEW k \in 1..c.subnets, x = subnet(k) PROVE x.ok
    BY <1>3, <1>6, <2>2 DEF Serves
  <2>3. ASSUME NEW n \in DOMAIN rungs, x \in of(n) PROVE x.ok
    BY <1>4, <1>6, <2>3 DEF Serves
  <2> QED BY <1>1, <1>6, <2>1, <2>2, <2>3
<1>7. ASSUME \A x \in asked : x.ok PROVE Serves(region, c, rungs)
  <2>1. c.ami => region.image
    BY <1>1, <1>3, <1>7
  <2>2. ASSUME c.byo, NEW k \in 1..c.subnets PROVE k \in region.subnets
    BY <1>1, <1>3, <1>7, <2>2
  <2>3. ASSUME NEW n \in DOMAIN rungs PROVE Launchable(region, rungs[n])
    BY <1>5, <1>7 DEF NamesRung
  <2> QED BY <2>1, <2>2, <2>3 DEF Serves
<1>8. OK(said) <=> Serves(region, c, rungs)
  BY <1>2, <1>6, <1>7
<1> QED BY <1>5, <1>8 DEF asked

-----------------------------------------------------------------------------
\* A report is what Run says of a cluster.yaml that LoadCluster let through.
ReportOf(r) ==
  /\ r.cluster \in ClusterYAML /\ r.rungs \in Seq(Range(r.rungs)) /\ r.quota \in BOOLEAN
  /\ \E broken \in D.broken : r.said = Run(r.cluster, r.rungs, r.quota, r.region, broken)

Reported ==
  /\ DOMAIN report = Taking
  /\ \A o \in Taking : report[o] # None => ReportOf(report[o])

\* Nothing has been reported at the start.
LEMMA InitReported == Init => Reported
BY DEF Init, Reported, all

\* A preflight reports on the cluster.yaml it has loaded (RunPreflight).
LEMMA PreflightReports ==
  ASSUME IInv, Reported, UNCHANGED deployment, NEW o \in Taking, RunPreflight(o)
  PROVE  Reported'
<1>1. CASE ~Valid(o)
  BY <1>1, SameVersions DEF RunPreflight, Reported, ReportOf
<1>2. CASE Valid(o)
  <2>1. PICK region \in D.regions, rungs \in D.chains, quota \in BOOLEAN, broken \in D.broken :
          report' = [report EXCEPT ![o] =
            [cluster |-> cluster(At(o)), rungs |-> rungs, quota |-> quota, region |-> region,
             said |-> Run(cluster(At(o)), rungs, quota, region, broken)]]
    BY <1>2 DEF RunPreflight
  <2>2. cluster(At(o)) \in ClusterYAML
    <3>1. deployment \in DOMAIN Deployments /\ Sourced(At(o))
      BY <1>2, AtIsVersion DEF RunPreflight, Valid, IInv, TypeInv, Sourced
    <3> QED BY <3>1, VersionData
  <2>3. rungs \in Seq(Range(rungs))
    <3>1. D \in Range(Deployments)
      BY DEF IInv, TypeInv, D, Range
    <3> QED BY <3>1, DeploymentAssumption
  <2>4. PICK r :
          r = [cluster |-> cluster(At(o)), rungs |-> rungs, quota |-> quota, region |-> region,
               said |-> Run(cluster(At(o)), rungs, quota, region, broken)]
    OBVIOUS
  <2>5. ReportOf(r)
    <3>1. /\ r.cluster = cluster(At(o)) /\ r.rungs = rungs /\ r.quota = quota
          /\ r.said = Run(r.cluster, r.rungs, r.quota, r.region, broken)
      BY <2>4
    <3> QED BY <2>2, <2>3, <3>1 DEF ReportOf
  <2>6. report' = [report EXCEPT ![o] = r]
    BY <2>1, <2>4
  <2>7. \A x \in Taking : report'[x] # None => ReportOf(report'[x])
    <3> HIDE DEF ReportOf
    <3> QED BY <2>5, <2>6 DEF Reported
  <2> QED BY <2>6, <2>7, SameVersions DEF Reported, ReportOf
<1> QED BY <1>1, <1>2

\* A report stays until the next command of its operator.
LEMMA StepReported == IInv /\ Reported /\ [Next]_vars => Reported'
<1> SUFFICES ASSUME IInv, Reported, [Next]_vars PROVE Reported'
  OBVIOUS
<1>1. UNCHANGED deployment
  BY DEF Next, vars
<1>2. CASE UNCHANGED report
  BY <1>1, <1>2, SameVersions DEF Reported, ReportOf
<1>3. ASSUME NEW o \in Taking, NEW c, Start(o, c) PROVE Reported'
  BY <1>1, <1>3, SameVersions DEF Start, Reported, ReportOf
<1>4. ASSUME NEW o \in Taking, RunPreflight(o) PROVE Reported'
  BY <1>1, <1>4, PreflightReports
<1>5. ASSUME NEW o \in Taking, Step(o), ~RunPreflight(o) PROVE UNCHANGED report
  BY <1>5 DEF Step, LoadFails, Generate, WriteFiles, ensureBucket, CreateBucket, ensureLockTable,
     CreateTable, InitBackend, Plan, ApplyStarts, ApplySucceeds, PrintEnv, printed
<1>6. ASSUME NEW o \in Taking, ApplyFails(o) \/ Dies(o) \/ Edit(o) \/ Checkout(o)
      PROVE  UNCHANGED report
  BY <1>6 DEF ApplyFails, Dies, Edit, Checkout, printed
<1>7. Others => UNCHANGED report
  BY DEF Others, TableActive, ForceUnlock, printed
<1>8. UNCHANGED vars => UNCHANGED report
  BY DEF vars, printed
<1> QED BY <1>2, <1>3, <1>4, <1>5, <1>6, <1>7, <1>8 DEF Next

\* A preflight that got its answers passes exactly when the region serves the
\* cluster, and names every rung that cannot be launched on (Run, Report.OK):
\* for any cluster.yaml, any rungs in any number, and any region.
THEOREM PreflightIsExact == Spec => []PreflightExact
<1>1. Reported => PreflightExact
  <2> SUFFICES ASSUME Reported, NEW o \in Taking, report[o] # None, ~report[o].said.err,
                      report[o].quota, PlainlySpelled(report[o].rungs)
               PROVE  LET r == report[o] IN
                      /\ OK(r.said) <=> Serves(r.region, r.cluster, r.rungs)
                      /\ \A n \in DOMAIN r.rungs : ~Launchable(r.region, r.rungs[n]) =>
                           \E x \in Range(r.said.results) :
                             /\ x.check \in {"az-valid", "instance-type-offered", "service-quota"}
                             /\ x.target = r.rungs[n] /\ ~x.ok
    BY DEF PreflightExact
  <2> DEFINE r == report[o]
  <2>1. PICK broken : r.said = Run(r.cluster, r.rungs, r.quota, r.region, broken)
    BY DEF Reported, ReportOf
  <2>2. r.cluster.subnets \in Nat /\ r.rungs \in Seq(Range(r.rungs))
    BY DEF Reported, ReportOf, ClusterYAML
  <2>3. r.quota = TRUE
    BY DEF Reported, ReportOf
  <2>4. PlainlySpelled(r.rungs) /\ ~r.said.err
    OBVIOUS
  <2> HIDE DEF r
  <2>5. /\ OK(r.said) <=> Serves(r.region, r.cluster, r.rungs)
        /\ \A n \in DOMAIN r.rungs : ~Launchable(r.region, r.rungs[n]) =>
             \E x \in Range(r.said.results) : NamesRung(x, r.rungs[n])
    BY <2>1, <2>2, <2>3, <2>4, ReportIsExact
  <2> QED BY <2>5 DEF r, NamesRung
<1> QED BY <1>1, InitReported, StepReported, Invariant, PTL DEF Spec
=============================================================================
