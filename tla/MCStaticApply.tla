---------------------------- MODULE MCStaticApply ----------------------------
(* Instances of StaticApply for TLC.                                        *)
EXTENDS StaticApply

Home == <<"shared", "home">>
Scratch == <<"shared", "scratch">>

efs(path) ==
  [kind |-> "efs", path |-> path, deployment |-> "", capacity |-> 0, linked |-> FALSE]
lustre(path, kept, capacity, linked) ==
  [kind |-> "fsx-lustre", path |-> path, deployment |-> kept, capacity |-> capacity,
   linked |-> linked]

Entries == <<efs(Home), efs(Scratch), lustre(Scratch, "", 0, FALSE),
             lustre(Scratch, "PERSISTENT_1", 2400, TRUE), lustre(Home, "", 1800, FALSE)>>

\* No entry, one of the five, and any two of them.
Storages(k) ==
  IF k = 0 THEN <<>> ELSE IF k <= 5 THEN <<Entries[k]>>
  ELSE <<Entries[((k - 6) \div 5) + 1], Entries[((k - 6) % 5) + 1]>>

Network(byo, named, subnets, cidr, egress) ==
  [byo |-> byo, vpcId |-> named, subnets |-> subnets,
   firstSubnet |-> IF subnets = 0 THEN "" ELSE "subnet", cidr |-> cidr, egress |-> egress]

Generated == Network(FALSE, "", 0, "10.0/16", "")
Brought   == Network(TRUE, "vpc", 2, "", "")

Networks ==
  <<Network(TRUE, "vpc", 0, "", ""), Network(TRUE, "vpc", 1, "", ""), Brought,
    Generated, Network(FALSE, "", 0, "10.0/16", "nat-instance"),
    Network(FALSE, "", 0, "10.0/16", "endpoints-only"), Network(FALSE, "", 0, "10.0/16", "nat"),
    Network(TRUE, "", 1, "", ""), Network(FALSE, "", 0, "", "")>>

Pet(type, ami, standby, stateDir) ==
  [type |-> type, ami |-> ami, standby |-> standby, accountingDb |-> FALSE, stateDir |-> stateDir]

Controllers ==
  <<Pet(FALSE, FALSE, FALSE, <<>>), Pet(TRUE, TRUE, FALSE, <<>>), Pet(TRUE, FALSE, FALSE, <<>>),
   Pet(FALSE, FALSE, TRUE, <<>>), Pet(TRUE, TRUE, TRUE, Home \o <<"state">>),
   Pet(TRUE, TRUE, FALSE, <<"shared", "homely">>), Pet(TRUE, TRUE, FALSE, <<"shared">>),
   [Pet(FALSE, FALSE, FALSE, <<>>) EXCEPT !.accountingDb = TRUE]>>

Cluster(network, controller, storage) ==
  [identity |-> TRUE, byo |-> network.byo, vpcId |-> network.vpcId, subnets |-> network.subnets,
   firstSubnet |-> network.firstSubnet, cidr |-> network.cidr, egress |-> network.egress,
   type |-> controller.type, ami |-> controller.ami, standby |-> controller.standby,
   accountingDb |-> controller.accountingDb, stateDir |-> controller.stateDir, storage |-> storage]

AllClusters ==
  [x \in (1..9) \X (1..8) \X (0..30) |->
    Cluster(Networks[x[1]], Controllers[x[2]], Storages(x[3]))]

Primary == Pet(TRUE, TRUE, FALSE, Home \o <<"state">>)
NoPet == Pet(FALSE, FALSE, FALSE, <<>>)
TwoZones == [manifest |-> FALSE, azCount |-> 2]

AnyRegion ==
  [zones : SUBSET {"az1", "az2"}, offered : {{}, {<<"hpc", "az1">>}, {<<"hpc", "az1">>, <<"hpc", "az2">>}},
   image : BOOLEAN, subnets : {{1}, {1, 2}}, spot : BOOLEAN, ondemand : BOOLEAN]

Rung(az, model) == [type |-> "hpc", az |-> az, model |-> model]

\* Every cluster.yaml, applied once from nothing.
EveryCluster ==
  [operators |-> {"a"}, commands |-> {"approve"}, clusters |-> AllClusters,
   flags |-> <<TwoZones, [manifest |-> TRUE, azCount |-> 0], [manifest |-> TRUE, azCount |-> 3]>>,
   edits |-> 0, faults |-> 0, others |-> 0,
   regions |-> {}, chains |-> {}, broken |-> {}]

\* Two operators, of two versions of one file, who make the first apply
\* together, with something going wrong.
TwoOperators ==
  [operators |-> {"a", "b"}, commands |-> {"approve"},
   clusters |-> <<Cluster(Generated, Primary, <<efs(Home)>>),
                  Cluster(Generated, Primary, <<efs(Home), efs(Scratch)>>)>>,
   flags |-> <<TwoZones>>, edits |-> 0, faults |-> 1, others |-> 0,
   regions |-> {}, chains |-> {}, broken |-> {}]

\* One who edits between runs of every command: entries that come, go and change places,
\* a Lustre file system that grows, shrinks and is moved to another network.
OneWhoEdits ==
  [operators |-> {"a"}, commands |-> {"approve", "plan", "dry-run", "show-env"},
   clusters |-> <<Cluster(Generated, Primary, <<efs(Home)>>),
                  Cluster(Generated, Primary, <<lustre(Scratch, "", 2400, FALSE), efs(Home)>>),
                  Cluster(Brought, NoPet, <<lustre(Scratch, "", 2400, TRUE), efs(Home)>>),
                  Cluster(Generated, NoPet, <<lustre(Scratch, "", 0, FALSE)>>)>>,
   flags |-> <<TwoZones>>, edits |-> 2, faults |-> 1, others |-> 1,
   regions |-> {}, chains |-> {}, broken |-> {}]

\* Preflights.
Asking ==
  [operators |-> {"a"}, commands |-> {"preflight"},
   clusters |-> <<Cluster(Generated, Primary, <<efs(Home)>>), Cluster(Brought, NoPet, <<>>),
                  Cluster(Networks[8], NoPet, <<>>)>>,
   flags |-> <<TwoZones>>, edits |-> 0, faults |-> 0, others |-> 1,
   regions |-> AnyRegion,
   chains |-> {<<>>, <<Rung("az1", "spot"), Rung("az2", "on-demand")>>,
               <<Rung("az2", "Spot"), Rung("az1", "odcr"), Rung("az2", "reserved")>>},
   broken |-> {{}, {"zones"}, {"ami-exists"}, {"subnet-exists"}, {"instance-type-offered"}, {"service-quota"}}]

MCDeployments == <<EveryCluster, TwoOperators, OneWhoEdits, Asking>>
=============================================================================
