---------------------------- MODULE NodeFleetProofs ----------------------------
(***************************************************************************)
(* What NodeFleet promises for any number of nodes, programs, instances    *)
(* and generations, in every deployment: crashes, lost requests, late      *)
(* describes, remnants and overlapping invocations included.               *)
(***************************************************************************)
EXTENDS NodeFleet, TLAPS

\* EC2 makes one instance of a ClientToken: of a node and a generation.
OnePerToken == \A i, j \in Instance : tag[i] = tag[j] /\ state[i] # "none" => i = j

\* What is described, listed or resolved has been made.
Made ==
  /\ \A i \in Instance : seen[i] => state[i] # "none"
  /\ \A p \in Program : \A i \in todo[p] : state[i] # "none"

\* An invocation that was started is of a kind, and one that acts on a node has one.
HasNode == \A p \in Program :
  /\ pc[p] # "idle" => kind[p] # "none"
  /\ pc[p] \in {"launch", "observe", "resolve", "act"} => node[p] \in Node

IInv == TypeOK /\ OnePerToken /\ Made /\ HasNode

-----------------------------------------------------------------------------
\* An instance that was made has the tag of a node and a generation.
LEMMA Tagged ==
  ASSUME TypeOK, NEW i \in Instance, state[i] # "none"
  PROVE  tag[i][1] \in Node /\ tag[i] \in Node \X (1..generation)
BY DEF TypeOK

\* Nothing is there at first.
LEMMA InitInv == Init => IInv
<1> SUFFICES ASSUME Init PROVE IInv
  OBVIOUS
<1>1. deployment.generations \in Nat \ {0}
  BY FleetAssumption DEF Init, Deployment
<1> QED BY <1>1 DEF Init, IInv, TypeOK, OnePerToken, Made, HasNode

-----------------------------------------------------------------------------
(* The invariant is inductive.                                              *)

\* A step that only moves one invocation on.
LEMMA Moves ==
  ASSUME IInv, NEW p \in Program, pc[p] # "idle", NEW where, Goto(p, where),
         where \in {"observe", "next", "resolve", "act", "up", "failed", "done"},
         UNCHANGED <<deployment, generation, on, cloud, kind, node, gen, todo, item>>,
         at' \in [Program -> Instance \cup {None}],
         \A q \in Program : q # p => at'[q] = at[q],
         where \in {"observe", "resolve", "act"} => node[p] \in Node,
         where = "act" => at'[p] \in Instance /\ tag[at'[p]][1] = node[p]
  PROVE  IInv'
<1>1. /\ pc' \in [Program -> {"idle", "launch", "observe", "next", "resolve", "act",
                              "up", "failed", "done"}]
      /\ pc'[p] = where /\ \A q \in Program : q # p => pc'[q] = pc[q]
  BY DEF IInv, TypeOK, Goto
<1>2. TypeOK'
  <2>1. \A q \in Program : pc'[q] = "act" => at'[q] \in Instance /\ tag'[at'[q]][1] = node'[q]
    BY <1>1 DEF IInv, TypeOK, cloud
  <2> QED BY <1>1, <2>1 DEF IInv, TypeOK, cloud
<1> QED BY <1>1, <1>2 DEF IInv, OnePerToken, Made, HasNode, cloud

\* Every step keeps the invariant, one case per action.
LEMMA StepInv == IInv /\ [Next]_vars => IInv'
<1> SUFFICES ASSUME IInv, [Next]_vars PROVE IInv'
  OBVIOUS
<1> USE DEF IInv
<1>1. CASE UNCHANGED vars
  BY <1>1 DEF vars, cloud, proc, TypeOK, OnePerToken, Made, HasNode
<1>2. CASE Apply /\ UNCHANGED deployment
  <2>1. deployment.generations \in Nat /\ generation \in Nat /\ generation' \in 1..deployment.generations
        /\ 1..generation \subseteq 1..generation'
    BY <1>2, FleetAssumption DEF Apply, TypeOK, Deployment
  <2>2. UNCHANGED <<deployment, on, state, tag, seen, kind, pc, node, gen, todo, item, at>>
    BY <1>2 DEF Apply, cloud, proc
  <2>3. TypeOK'
    BY <2>1, <2>2 DEF TypeOK
  <2> QED BY <2>2, <2>3 DEF OnePerToken, Made, HasNode
<1>3. ASSUME NEW i \in Instance, Appear(i) \/ Boot(i) \/ Forget(i), UNCHANGED deployment PROVE IInv'
  <2>1. UNCHANGED <<deployment, generation, on, tag, kind, pc, node, gen, todo, item, at>>
    BY <1>3 DEF Appear, Boot, Forget, proc
  <2>3. \/ seen' = [seen EXCEPT ![i] = TRUE] /\ state[i] # "none"
        \/ seen' = [seen EXCEPT ![i] = FALSE]
        \/ UNCHANGED seen
    BY <1>3 DEF Appear, Boot, Forget
  <2>4. seen' \in [Instance -> BOOLEAN] /\ \A j \in Instance : seen'[j] => seen[j] \/ state[j] # "none"
    <3>1. seen \in [Instance -> BOOLEAN]
      BY DEF TypeOK
    <3>2. CASE seen' = [seen EXCEPT ![i] = TRUE] /\ state[i] # "none"
      BY <3>1, <3>2
    <3>3. CASE seen' = [seen EXCEPT ![i] = FALSE]
      BY <3>1, <3>3
    <3> QED BY <2>3, <3>1, <3>2, <3>3
  <2>5. /\ state' \in [Instance -> {"none", "pending", "running", "stopped", "terminated"}]
        /\ \A j \in Instance : state'[j] = "none" <=> state[j] = "none"
    BY <1>3 DEF Appear, Boot, Forget, TypeOK
  <2>2. TypeOK'
    BY <2>1, <2>4, <2>5 DEF TypeOK
  <2>6. Made'
    BY <2>1, <2>4, <2>5 DEF Made, TypeOK
  <2> QED BY <2>1, <2>2, <2>5, <2>6 DEF OnePerToken, HasNode
<1>4. ASSUME NEW p \in Program, NEW k \in {"resume", "suspend", "sweep"}, NEW n \in Node \cup {None},
             NEW where \in {"launch", "resolve", "next"}, Begin(p, k, where, n),
             UNCHANGED deployment, on' \in [Node -> BOOLEAN],
             todo' \in [Program -> SUBSET Instance],
             \A q \in Program : \A i \in todo'[q] : state[i] # "none",
             n = None => where = "next"
      PROVE  IInv'
  <2>1. /\ UNCHANGED <<deployment, generation, state, tag, seen, item, at>>
        /\ pc' = [pc EXCEPT ![p] = where] /\ node' = [node EXCEPT ![p] = n]
        /\ kind' = [kind EXCEPT ![p] = k] /\ gen' = [gen EXCEPT ![p] = generation]
    BY <1>4 DEF Begin, cloud
  <2>2. generation \in 1..generation
    BY FleetAssumption DEF TypeOK, Deployment
  <2>3. TypeOK'
    <3>1. \A q \in Program : pc'[q] = "act" => at'[q] \in Instance /\ tag'[at'[q]][1] = node'[q]
      BY <1>4, <2>1 DEF TypeOK
    <3>2. pc' \in [Program -> {"idle", "launch", "observe", "next", "resolve", "act",
                               "up", "failed", "done"}]
      BY <2>1 DEF TypeOK
    <3>3. /\ node' \in [Program -> Node \cup {None}] /\ gen' \in [Program -> 1..generation]
          /\ kind' \in [Program -> {"none", "resume", "suspend", "sweep"}]
      BY <2>1, <2>2 DEF TypeOK
    <3> QED BY <1>4, <2>1, <3>1, <3>2, <3>3 DEF TypeOK
  <2>4. HasNode'
    BY <1>4, <2>1 DEF HasNode, TypeOK
  <2> QED BY <1>4, <2>1, <2>3, <2>4 DEF OnePerToken, Made
<1>5. ASSUME NEW p \in Program, NEW n \in Node, StartResume(p, n) \/ StartSuspend(p, n),
             UNCHANGED deployment
      PROVE  IInv'
  <2>1. /\ UNCHANGED todo /\ on' \in [Node -> BOOLEAN] /\ n # None
    <3>1. UNCHANGED todo /\ \E b \in BOOLEAN : on' = [on EXCEPT ![n] = b]
      BY <1>5 DEF StartResume, StartSuspend
    <3> QED BY <3>1, FleetAssumption DEF TypeOK
  <2>2. /\ todo' \in [Program -> SUBSET Instance]
        /\ \A q \in Program : \A i \in todo'[q] : state[i] # "none"
    BY <2>1 DEF TypeOK, Made
  <2> QED BY <1>4, <1>5, <2>1, <2>2 DEF StartResume, StartSuspend
<1>6. ASSUME NEW p \in Program, NEW items \in SUBSET Instance, StartSweep(p, items), UNCHANGED deployment
      PROVE  IInv'
  <2>1. /\ todo' = [todo EXCEPT ![p] = items] /\ UNCHANGED on
        /\ \A i \in items : state[i] # "none"
    BY <1>6 DEF StartSweep, Stale, Described, Made
  <2>2. todo' \in [Program -> SUBSET Instance]
    BY <2>1 DEF TypeOK
  <2>3. \A q \in Program : \A i \in todo'[q] : state[i] # "none"
    BY <2>1 DEF TypeOK, Made
  <2>4. on' \in [Node -> BOOLEAN]
    BY <2>1 DEF TypeOK
  <2> QED BY <1>4, <1>6, <2>2, <2>3, <2>4 DEF StartSweep
<1>7. ASSUME NEW p \in Program, Launch(p), UNCHANGED deployment PROVE IInv'
  <2>1. CASE OfToken(node[p], gen[p]) # {} /\ UNCHANGED cloud
    BY <1>7, <2>1, Moves DEF Launch, HasNode, TypeOK
  <2>2. CASE OfToken(node[p], gen[p]) = {} /\ ~UNCHANGED cloud
    <3>1. PICK i \in Instance :
            /\ state[i] = "none" /\ state' = [state EXCEPT ![i] = "pending"]
            /\ tag' = [tag EXCEPT ![i] = <<node[p], gen[p]>>]
            /\ seen' = [seen EXCEPT ![i] = "lag" \notin Faults]
      BY <1>7, <2>2 DEF Launch
    <3>2. /\ UNCHANGED <<deployment, generation, on, kind, node, gen, todo, item, at>>
          /\ pc' = [pc EXCEPT ![p] = "observe"] /\ pc[p] = "launch" /\ node[p] \in Node
          /\ gen[p] \in 1..generation
      BY <1>7 DEF Launch, Goto, HasNode, TypeOK
    <3>3. \A j \in Instance : tag[j] # <<node[p], gen[p]>>
      BY <2>2 DEF OfToken
    <3>4. node[p] # None
      BY <3>2, FleetAssumption
    <3>5. /\ state' \in [Instance -> {"none", "pending", "running", "stopped", "terminated"}]
          /\ tag' \in [Instance -> (Node \X (1..generation)) \cup {<<None, 0>>}]
          /\ seen' \in [Instance -> BOOLEAN]
      BY <3>1, <3>2 DEF TypeOK
    <3>6. \A j \in Instance : state'[j] = "none" <=> tag'[j] = <<None, 0>>
      BY <3>1, <3>2, <3>4 DEF TypeOK
    <3>7. \A q \in Program : pc'[q] = "act" => at'[q] \in Instance /\ tag'[at'[q]][1] = node'[q]
      <4> SUFFICES ASSUME NEW q \in Program, pc'[q] = "act"
                   PROVE  at'[q] \in Instance /\ tag'[at'[q]][1] = node'[q]
        OBVIOUS
      <4>1. pc[q] = "act" /\ at[q] \in Instance /\ tag[at[q]][1] = node[q]
        BY <3>2 DEF TypeOK
      <4>2. node[q] \in Node /\ node[q] # None
        BY <4>1, FleetAssumption DEF HasNode
      <4>3. tag[i] = <<None, 0>> /\ at[q] # i
        BY <3>1, <4>1, <4>2 DEF TypeOK
      <4> QED BY <3>1, <3>2, <4>1, <4>3
    <3>8. pc' \in [Program -> {"idle", "launch", "observe", "next", "resolve", "act",
                               "up", "failed", "done"}]
      BY <3>2 DEF TypeOK
    <3>9. TypeOK'
      BY <3>2, <3>5, <3>6, <3>7, <3>8 DEF TypeOK
    <3>10. OnePerToken'
      BY <3>1, <3>3 DEF OnePerToken, TypeOK
    <3>11. Made'
      BY <3>1, <3>2 DEF Made, TypeOK
    <3>12. HasNode'
      BY <3>2 DEF HasNode, TypeOK
    <3> QED BY <3>9, <3>10, <3>11, <3>12
  <2>3. CASE UNCHANGED cloud
    BY <1>7, <2>3, Moves DEF Launch, HasNode, TypeOK
  <2> QED BY <1>7, <2>1, <2>2, <2>3 DEF Launch
<1>8. ASSUME NEW p \in Program, pc[p] # "idle" PROVE After(p) \in {"failed", "done", "next"}
  <2>1. kind[p] \in {"resume", "suspend", "sweep"}
    BY <1>8 DEF HasNode, TypeOK
  <2> QED BY <2>1 DEF After
<1>9. ASSUME NEW p \in Program, UNCHANGED deployment,
             \/ Crash(p) \/ LaunchFails(p) \/ ObserveRunning(p) \/ ObserveFailed(p) \/ BudgetExceeded(p)
             \/ CohortFails(p) \/ SweepEnds(p)
      PROVE  IInv'
  <2>1. /\ UNCHANGED <<generation, on, cloud, kind, node, gen, todo, item, at>> /\ pc[p] # "idle"
        /\ \/ \E where \in {"done", "failed", "up"} : Goto(p, where)
           \/ pc[p] = "observe" /\ Goto(p, "resolve")
    BY <1>9 DEF Crash, active, LaunchFails, ObserveRunning, ObserveFailed, BudgetExceeded,
                CohortFails, SweepEnds
  <2>2. at' \in [Program -> Instance \cup {None}] /\ \A q \in Program : q # p => at'[q] = at[q]
    BY <2>1 DEF TypeOK
  <2>3. CASE \E where \in {"done", "failed", "up"} : Goto(p, where)
    BY <1>9, <2>1, <2>2, <2>3, Moves
  <2>4. CASE pc[p] = "observe" /\ Goto(p, "resolve")
    <3>1. node[p] \in Node
      BY <2>4 DEF HasNode
    <3> QED BY <1>9, <2>1, <2>2, <2>4, <3>1, Moves
  <2> QED BY <2>1, <2>3, <2>4
<1>10. ASSUME NEW p \in Program, UNCHANGED deployment, ResolveMisses(p) \/ RequestFails(p) PROVE IInv'
  <2>1. pc[p] # "idle" /\ After(p) \in {"failed", "done", "next"}
    BY <1>8, <1>10 DEF ResolveMisses, RequestFails
  <2>2. at' \in [Program -> Instance \cup {None}] /\ \A q \in Program : q # p => at'[q] = at[q]
    BY <1>10 DEF ResolveMisses, RequestFails, TypeOK
  <2> QED BY <1>10, <2>1, <2>2, Moves DEF ResolveMisses, RequestFails
<1>11. ASSUME NEW p \in Program, UNCHANGED deployment, Resolve(p) PROVE IInv'
  <2>1. PICK i \in DescribeByTag(node[p]) : at' = [at EXCEPT ![p] = i]
    BY <1>11 DEF Resolve
  <2>2. /\ i \in Instance /\ tag[i][1] = node[p] /\ node[p] \in Node
        /\ at' \in [Program -> Instance \cup {None}] /\ at'[p] = i
        /\ \A q \in Program : q # p => at'[q] = at[q]
    BY <1>11, <2>1 DEF Resolve, DescribeByTag, Described, HasNode, TypeOK
  <2> QED BY <1>11, <2>2, Moves DEF Resolve
<1>12. ASSUME NEW p \in Program, UNCHANGED deployment, NEW i \in todo[p], NextItem(p, i) PROVE IInv'
  <2>1. i \in Instance /\ state[i] # "none" /\ tag[i][1] \in Node
    BY Tagged DEF Made, TypeOK
  <2>2. /\ UNCHANGED <<deployment, generation, on, state, tag, seen, kind, gen, at>>
        /\ todo' = [todo EXCEPT ![p] = @ \ {i}] /\ item' = [item EXCEPT ![p] = i]
        /\ node' = [node EXCEPT ![p] = tag[i][1]] /\ pc' = [pc EXCEPT ![p] = "resolve"]
        /\ pc[p] = "next"
    BY <1>12 DEF NextItem, Goto, cloud
  <2>3. \A q \in Program : pc'[q] = "act" => at'[q] \in Instance /\ tag'[at'[q]][1] = node'[q]
    BY <2>2 DEF TypeOK
  <2>4. /\ pc' \in [Program -> {"idle", "launch", "observe", "next", "resolve", "act",
                                "up", "failed", "done"}]
        /\ node' \in [Program -> Node \cup {None}] /\ item' \in [Program -> Instance \cup {None}]
        /\ todo' \in [Program -> SUBSET Instance]
    BY <2>1, <2>2 DEF TypeOK
  <2>5. TypeOK'
    BY <2>2, <2>3, <2>4 DEF TypeOK
  <2>6. HasNode'
    BY <2>1, <2>2 DEF HasNode, TypeOK
  <2>7. Made'
    BY <2>2 DEF Made, TypeOK
  <2> QED BY <2>2, <2>5, <2>6, <2>7 DEF OnePerToken
<1>13. ASSUME NEW p \in Program, UNCHANGED deployment, Terminate(p) \/ Stop(p) PROVE IInv'
  <2>1. /\ UNCHANGED <<deployment, generation, on, tag, kind, node, gen, todo, item, at>>
        /\ pc[p] = "act" /\ Goto(p, After(p))
    BY <1>13 DEF Terminate, Stop, TerminateInstance
  <2>2. state[at[p]] # "none" /\ at[p] \in Instance
    <3>1. at[p] \in Instance /\ tag[at[p]][1] = node[p] /\ node[p] \in Node /\ node[p] # None
      BY <2>1, FleetAssumption DEF HasNode, TypeOK
    <3> QED BY <3>1 DEF TypeOK
  <2>3. /\ state' \in [Instance -> {"none", "pending", "running", "stopped", "terminated"}]
        /\ seen' \in [Instance -> BOOLEAN]
        /\ \A j \in Instance : (state'[j] = "none" <=> state[j] = "none") /\ (seen'[j] => seen[j])
    <3>1. CASE Terminate(p)
      BY <2>2, <3>1 DEF Terminate, TerminateInstance, TypeOK
    <3>2. CASE Stop(p)
      BY <2>2, <3>2 DEF Stop, TypeOK
    <3> QED BY <1>13, <3>1, <3>2
  <2>4. /\ pc'[p] \in {"failed", "done", "next"} /\ \A q \in Program : q # p => pc'[q] = pc[q]
        /\ pc' \in [Program -> {"idle", "launch", "observe", "next", "resolve", "act",
                                "up", "failed", "done"}]
    <3>1. After(p) \in {"failed", "done", "next"}
      BY <1>8, <2>1
    <3> QED BY <2>1, <3>1 DEF Goto, TypeOK
  <2>5. TypeOK'
    BY <2>1, <2>3, <2>4 DEF TypeOK
  <2>6. Made' /\ HasNode'
    BY <2>1, <2>3, <2>4 DEF Made, HasNode, TypeOK
  <2> QED BY <2>1, <2>3, <2>5, <2>6 DEF OnePerToken
<1> QED BY <1>1, <1>2, <1>3, <1>5, <1>6, <1>7, <1>9, <1>10, <1>11, <1>12, <1>13 DEF Next, Step

-----------------------------------------------------------------------------
\* The strengthened invariant holds in every reachable state.
THEOREM Invariance == Spec => []IInv
BY InitInv, StepInv, PTL DEF Spec

\* A node never has two live instances of one generation, whatever is delayed,
\* repeated, overlaps or dies.
THEOREM OneLive == Spec => []OneLivePerGeneration
<1>1. IInv => OneLivePerGeneration
  BY DEF IInv, OnePerToken, OneLivePerGeneration, live
<1> QED BY <1>1, Invariance, PTL
-----------------------------------------------------------------------------
(* In good order: what Orderly deployments keep besides.                    *)

kept(i) == state[i] \in {"pending", "running", "stopped"}

\* One invocation at a time is at a node.
Turns == \A n \in Node : \A p, q \in Program :
  active(p) /\ active(q) /\ n \in At(p) /\ n \in At(q) => p = q

\* EC2 describes what there is, and a node has one instance at a time.
Shown == \A i \in Instance : seen[i] <=> kept(i)
Single == \A i, j \in Instance : kept(i) /\ kept(j) /\ tag[i][1] = tag[j][1] => i = j

\* Only a warm pool has stopped instances.
Pool == \A i \in Instance : state[i] = "stopped" => WarmPool

\* An instance that boots is one a resume waits for, or gives up.
Booting == \A i \in Instance : state[i] = "pending" =>
  \E p \in Program : /\ kind[p] = "resume" /\ node[p] = tag[i][1]
                     /\ pc[p] \in {"observe", "resolve", "act"}

\* What runs belongs to a node that is on, or that somebody is at; never to one
\* that is still to be launched.
Off == \A n \in Node : ~on[n] /\ idle(n) => ~ \E i \in Instance : tag[i][1] = n /\ live(i)
Launching == \A p \in Program : pc[p] = "launch" =>
  ~ \E i \in Instance : tag[i][1] = node[p] /\ live(i)

\* What an invocation does is of its kind; a node is on while it is resumed or swept.
Role(p) ==
  /\ pc[p] \in {"launch", "observe"} => kind[p] = "resume"
  /\ pc[p] = "next" => kind[p] = "sweep"
  /\ active(p) /\ kind[p] = "resume" => on[node[p]]
  /\ active(p) /\ kind[p] = "sweep" /\ node[p] # None => on[node[p]]

Roles == \A p \in Program : Role(p)

\* What was resolved is still there.
Acting == \A p \in Program : pc[p] = "act" => kept(at[p])

\* A sweep is at what it listed: instances of nodes that are on and of an earlier
\* generation.
AtListed(p) ==
  /\ \A i \in todo[p] : kept(i) /\ on[tag[i][1]] /\ tag[i][2] # generation
  /\ pc[p] = "resolve" => /\ item[p] \in Instance /\ item[p] \notin todo[p] /\ kept(item[p])
                          /\ tag[item[p]][1] = node[p] /\ tag[item[p]][2] # generation
  /\ pc[p] = "act" => at[p] \notin todo[p] /\ tag[at[p]][2] # generation

Sweeping == \A p \in Program : active(p) /\ kind[p] = "sweep" => AtListed(p)

Order ==
  /\ Turns /\ Shown /\ Single /\ Pool /\ Booting /\ Off /\ Launching
  /\ Roles /\ Acting /\ Sweeping

OrderInv == Orderly => Order

-----------------------------------------------------------------------------
\* Good order is never regained.
LEMMA OrderlyWas == ASSUME IInv, [Next]_vars, Orderly' PROVE Orderly
<1>1. generation \in Nat /\ generation >= 1
  BY FleetAssumption DEF IInv, TypeOK, Deployment
<1>2. deployment' = deployment /\ (generation' = generation \/ generation' = generation + 1)
  BY DEF Next, vars, cloud, proc, Apply, Appear, Boot, Forget, StartResume, StartSuspend, StartSweep,
         Begin, Step, Crash, Launch, LaunchFails, ObserveRunning, ObserveFailed, BudgetExceeded,
         CohortFails, NextItem, SweepEnds, Resolve, ResolveMisses, RequestFails, Terminate, Stop
<1> QED BY <1>1, <1>2 DEF Orderly, WarmPool, Overlap, Faults

\* In a fleet without a warm pool, or of one generation, what is kept has its tag.
LEMMA KeptTag ==
  ASSUME IInv, NEW i \in Instance, kept(i)
  PROVE  /\ tag[i][1] \in Node /\ tag[i][1] # None /\ tag[i][2] \in 1..generation
         /\ tag[i] = <<tag[i][1], tag[i][2]>> /\ generation \in Nat
<1>1. state[i] # "none"
  BY DEF kept
<1>2. tag[i] \in Node \X (1..generation)
  BY <1>1, Tagged DEF IInv
<1> QED BY <1>2, FleetAssumption DEF IInv, TypeOK, Deployment

\* Who is at a node by its name.
LEMMA AtNode ==
  ASSUME NEW p \in Program
  PROVE  /\ node[p] \in At(p)
         /\ \A i \in todo[p] : kind[p] = "sweep" => tag[i][1] \in At(p)
         /\ kind[p] # "sweep" => At(p) = {node[p]}
         /\ kind[p] = "sweep" => At(p) = {tag[i][1] : i \in todo[p]} \cup {node[p]}
BY DEF At

\* Whoever waits for an instance that boots is at its node.
LEMMA BooterIsThere ==
  ASSUME Order, NEW i \in Instance, state[i] = "pending"
  PROVE  \E p \in Program : /\ kind[p] = "resume" /\ node[p] = tag[i][1] /\ active(p)
                            /\ pc[p] \in {"observe", "resolve", "act"} /\ tag[i][1] \in At(p)
<1>1. PICK p \in Program : /\ kind[p] = "resume" /\ node[p] = tag[i][1]
                          /\ pc[p] \in {"observe", "resolve", "act"}
  BY DEF Order, Booting
<1> QED BY <1>1, AtNode DEF active

\* When an invocation moves on, what it leaves behind at a node that is off was a
\* suspend's to stop.
LEMMA Leaves ==
  ASSUME IInv, Order, NEW p \in Program, active(p), NEW n \in Node, ~on[n],
         \A q \in Program : q # p => active(q)' = active(q) /\ At(q)' = At(q),
         idle(n)'
  PROVE  idle(n) \/ (kind[p] = "suspend" /\ node[p] = n)
<1> SUFFICES ASSUME ~idle(n) PROVE kind[p] = "suspend" /\ node[p] = n
  OBVIOUS
<1>1. n \in At(p)
  <2>1. PICK q \in Program : active(q) /\ n \in At(q)
    BY DEF idle
  <2>2. CASE q = p
    BY <2>1, <2>2
  <2>3. CASE q # p
    BY <2>1, <2>3 DEF idle
  <2> QED BY <2>2, <2>3
<1>2. n # None
  BY FleetAssumption
<1>3. kind[p] # "none" /\ kind[p] \in {"none", "resume", "suspend", "sweep"}
  BY DEF IInv, TypeOK, HasNode, active
<1>4. kind[p] # "sweep"
  <2> SUFFICES ASSUME kind[p] = "sweep" PROVE FALSE
    OBVIOUS
  <2>1. CASE n = node[p]
    BY <2>1, <1>2 DEF Order, Roles, Role
  <2>2. CASE \E i \in todo[p] : tag[i][1] = n
    BY <2>2 DEF Order, Sweeping, AtListed
  <2> QED BY <1>1, <2>1, <2>2 DEF At
<1>5. node[p] = n
  BY <1>1, <1>4, AtNode
<1>6. kind[p] # "resume"
  BY <1>5 DEF Order, Roles, Role
<1> QED BY <1>3, <1>4, <1>5, <1>6

\* Turns are kept as long as nobody comes to a node.
LEMMA TurnsStay ==
  ASSUME Turns, \A q \in Program : (active(q)' => active(q)) /\ At(q)' \subseteq At(q)
  PROVE  Turns'
BY DEF Turns

\* A step that only moves one invocation on keeps order, if it leaves nothing that
\* runs or boots behind.
LEMMA MoveOrder ==
  ASSUME IInv, Order, NEW p \in Program, active(p), NEW where, Goto(p, where),
         where \in {"observe", "next", "resolve", "act", "up", "failed", "done"},
         UNCHANGED <<deployment, generation, on, cloud, kind, node, gen, todo, item>>,
         at' \in [Program -> Instance \cup {None}],
         \A q \in Program : q # p => at'[q] = at[q],
         where = "observe" => kind[p] = "resume",
         where = "next" => kind[p] = "sweep",
         where = "resolve" => kind[p] = "resume",
         where = "act" => /\ pc[p] = "resolve" /\ at'[p] \in Instance
                          /\ kept(at'[p]) /\ tag[at'[p]][1] = node[p],
         where \in {"next", "up", "failed", "done"} =>
           ~ \E i \in Instance : tag[i][1] = node[p] /\ state[i] = "pending",
         kind[p] = "suspend" /\ where \in {"up", "failed", "done"} =>
           ~ \E i \in Instance : tag[i][1] = node[p] /\ live(i)
  PROVE  Order'
<1>1. /\ pc'[p] = where /\ \A q \in Program : q # p => pc'[q] = pc[q]
      /\ UNCHANGED <<deployment, generation, on, state, tag, seen, kind, node, gen, todo, item>>
  BY DEF IInv, TypeOK, Goto, cloud
<1>2. \A q \in Program : At(q)' = At(q) /\ (active(q)' => active(q)) /\ (q # p => active(q)' = active(q))
  BY <1>1 DEF At, active
<1>3. \A i \in Instance : kept(i)' = kept(i) /\ live(i)' = live(i)
  BY <1>1 DEF kept, live
<1>4. Turns'
  BY <1>2, TurnsStay DEF Order
<1>5. Shown' /\ Single' /\ Pool'
  BY <1>1, <1>3 DEF Order, Shown, Single, Pool, WarmPool
<1>6. Booting'
  <2> SUFFICES ASSUME NEW i \in Instance, state'[i] = "pending"
               PROVE  (\E q \in Program : /\ kind[q] = "resume" /\ node[q] = tag[i][1]
                                          /\ pc[q] \in {"observe", "resolve", "act"})'
    BY DEF Booting
  <2>1. PICK q \in Program : /\ kind[q] = "resume" /\ node[q] = tag[i][1]
                             /\ pc[q] \in {"observe", "resolve", "act"}
    BY <1>1 DEF Order, Booting
  <2>2. CASE q # p
    BY <1>1, <2>1, <2>2
  <2>3. CASE q = p
    <3>1. where \in {"observe", "resolve", "act"}
      BY <1>1, <2>1, <2>3
    <3> QED BY <1>1, <2>1, <2>3, <3>1
  <2> QED BY <2>2, <2>3
<1>7. Off'
  <2> SUFFICES ASSUME NEW n \in Node, ~on[n], idle(n)', NEW i \in Instance, tag[i][1] = n, live(i)
               PROVE  FALSE
    BY <1>1, <1>3 DEF Off
  <2>1. ~idle(n)
    BY DEF Order, Off
  <2>2. kind[p] = "suspend" /\ node[p] = n
    BY <1>2, <2>1, Leaves
  <2>3. n \in At(p)
    BY <2>2, AtNode
  <2>4. ~active(p)'
    BY <1>2, <2>3 DEF idle
  <2>5. where \in {"up", "failed", "done"}
    BY <1>1, <2>4 DEF active
  <2> QED BY <2>2, <2>5
<1>8. Launching'
  BY <1>1, <1>3 DEF Order, Launching
<1>9. Roles'
  BY <1>1, <1>2 DEF Order, Roles, Role
<1>10. Acting'
  BY <1>1, <1>3 DEF Order, Acting, IInv, TypeOK
<1>11. Sweeping'
  <2> SUFFICES ASSUME NEW q \in Program, active(q)', kind'[q] = "sweep"
               PROVE  AtListed(q)'
    BY DEF Sweeping
  <2>0. active(q) /\ kind[q] = "sweep" /\ todo[q] \subseteq Instance
    BY <1>1, <1>2 DEF IInv, TypeOK
  <2>1. CASE q # p
    BY <1>1, <1>3, <2>0, <2>1 DEF Order, Sweeping, AtListed, kept
  <2>2. CASE q = p
    <3>1. where # "resolve" /\ \A i \in todo[q] : kept(i)' /\ on'[tag'[i][1]] /\ tag'[i][2] # generation'
      BY <1>1, <1>3, <2>0, <2>2 DEF Order, Sweeping, AtListed
    <3>2. ASSUME where = "act" PROVE at'[p] \notin todo[p] /\ tag[at'[p]][2] # generation
      <4>1. at'[p] = item[p]
        BY <2>0, <2>2, <3>2 DEF Order, Sweeping, AtListed, Single
      <4> QED BY <2>0, <2>2, <3>2, <4>1 DEF Order, Sweeping, AtListed
    <3> QED BY <1>1, <2>2, <3>1, <3>2 DEF AtListed
  <2> QED BY <2>1, <2>2
<1> QED BY <1>4, <1>5, <1>6, <1>7, <1>8, <1>9, <1>10, <1>11 DEF Order
-----------------------------------------------------------------------------
\* A new generation leaves every instance of an earlier one.
LEMMA ApplyOrder ==
  ASSUME IInv, Order, Apply, UNCHANGED deployment
  PROVE  Order'
<1>1. /\ generation' = generation + 1 /\ generation \in Nat
      /\ UNCHANGED <<on, state, tag, seen, kind, pc, node, gen, todo, item, at>>
  BY FleetAssumption DEF Apply, cloud, proc, IInv, TypeOK, Deployment
<1>2. \A q \in Program : At(q)' = At(q) /\ active(q)' = active(q)
  BY <1>1 DEF At, active
<1>3. \A i \in Instance : /\ kept(i)' = kept(i) /\ live(i)' = live(i)
                          /\ kept(i) => tag[i][2] # generation'
  <2>1. \A i \in Instance : kept(i) => tag[i][2] \in 1..generation
    BY KeptTag
  <2> QED BY <1>1, <2>1 DEF kept, live
<1>4. Turns'
  BY <1>2, TurnsStay DEF Order
<1>5. Shown' /\ Single' /\ Pool' /\ Booting' /\ Launching'
  BY <1>1, <1>3 DEF Order, Shown, Single, Pool, WarmPool, Booting, Launching
<1>6. Off'
  <2>1. \A n \in Node : idle(n)' = idle(n)
    BY <1>2 DEF idle
  <2> QED BY <1>1, <1>3, <2>1 DEF Order, Off
<1>7. Roles'
  BY <1>1, <1>2 DEF Order, Roles, Role
<1>8. Acting'
  BY <1>1, <1>3 DEF Order, Acting, IInv, TypeOK
<1>9. Sweeping'
  <2> SUFFICES ASSUME NEW q \in Program, active(q)', kind'[q] = "sweep"
               PROVE  AtListed(q)'
    BY DEF Sweeping
  <2>1. active(q) /\ kind[q] = "sweep" /\ todo[q] \subseteq Instance
    BY <1>1, <1>2 DEF IInv, TypeOK
  <2>2. pc[q] = "act" => at[q] \in Instance /\ kept(at[q])
    BY DEF IInv, TypeOK, Order, Acting
  <2> QED BY <1>1, <1>3, <2>1, <2>2 DEF Order, Sweeping, AtListed
<1> QED BY <1>4, <1>5, <1>6, <1>7, <1>8, <1>9 DEF Order

\* EC2 has nothing to show late or to forget; what boots was waited for.
LEMMA CloudOrder ==
  ASSUME IInv, Order, NEW i \in Instance, Appear(i) \/ Boot(i) \/ Forget(i), UNCHANGED deployment
  PROVE  Order'
<1>1. Boot(i)
  <2>1. ~Appear(i)
    BY DEF Appear, Order, Shown, kept, IInv, TypeOK
  <2>2. ~Forget(i)
    BY DEF Forget, Order, Shown, kept
  <2> QED BY <2>1, <2>2
<1>2. /\ state[i] = "pending" /\ state' = [state EXCEPT ![i] = "running"]
      /\ UNCHANGED <<deployment, generation, on, tag, seen, kind, pc, node, gen, todo, item, at>>
  BY <1>1 DEF Boot, proc
<1>3. \A j \in Instance : /\ kept(j)' = kept(j) /\ live(j)' = live(j)
                          /\ state'[j] \in {"pending", "stopped"} => state'[j] = state[j]
  BY <1>2 DEF kept, live, IInv, TypeOK
<1>4. \A q \in Program : At(q)' = At(q) /\ active(q)' = active(q)
  BY <1>2 DEF At, active
<1>5. Turns'
  BY <1>4, TurnsStay DEF Order
<1>6. Shown' /\ Single' /\ Pool' /\ Booting' /\ Launching'
  BY <1>2, <1>3 DEF Order, Shown, Single, Pool, WarmPool, Booting, Launching
<1>7. Off'
  <2>1. \A n \in Node : idle(n)' = idle(n)
    BY <1>4 DEF idle
  <2> QED BY <1>2, <1>3, <2>1 DEF Order, Off
<1>8. Roles'
  BY <1>2, <1>4 DEF Order, Roles, Role
<1>9. Acting'
  BY <1>2, <1>3 DEF Order, Acting, IInv, TypeOK
<1>10. Sweeping'
  BY <1>2, <1>3, <1>4 DEF Order, Sweeping, AtListed, IInv, TypeOK
<1> QED BY <1>5, <1>6, <1>7, <1>8, <1>9, <1>10 DEF Order

-----------------------------------------------------------------------------
\* Where invocations take turns, a node somebody comes to was idle.
LEMMA QuietIsIdle == ASSUME Orderly, NEW n, Quiet(n) PROVE idle(n)
BY DEF Orderly, Quiet, idle

\* An invocation that begins: who was at a node still is, and it is at its own.
LEMMA BeginOrder ==
  ASSUME IInv, Order, NEW p \in Program, NEW k \in {"resume", "suspend", "sweep"},
         NEW n \in Node \cup {None}, NEW where \in {"launch", "resolve", "next"},
         Begin(p, k, where, n), UNCHANGED deployment,
         \A q \in Program : q # p => todo'[q] = todo[q],
         \A m \in At(p)' : m \in Node => idle(m)
  PROVE  /\ pc'[p] = where /\ kind'[p] = k /\ node'[p] = n /\ active(p)' /\ ~active(p)
         /\ \A q \in Program : q # p =>
              /\ pc'[q] = pc[q] /\ kind'[q] = kind[q] /\ node'[q] = node[q]
              /\ At(q)' = At(q) /\ active(q)' = active(q)
         /\ UNCHANGED <<deployment, generation, state, tag, seen, item, at>>
         /\ \A i \in Instance : kept(i)' = kept(i) /\ live(i)' = live(i)
         /\ \A m \in Node : idle(m)' => idle(m) /\ m \notin At(p)'
         /\ \A m \in At(p)' \cap Node : \A q \in Program : active(q) => m \notin At(q)
         /\ Turns' /\ Shown' /\ Single' /\ Pool' /\ Booting' /\ Acting'
<1>1. /\ pc' = [pc EXCEPT ![p] = where] /\ kind' = [kind EXCEPT ![p] = k]
      /\ node' = [node EXCEPT ![p] = n] /\ pc[p] = "idle"
      /\ UNCHANGED <<deployment, generation, state, tag, seen, item, at>>
  BY DEF Begin, cloud
<1>2. /\ pc'[p] = where /\ kind'[p] = k /\ node'[p] = n
      /\ \A q \in Program : q # p => pc'[q] = pc[q] /\ kind'[q] = kind[q] /\ node'[q] = node[q]
  BY <1>1 DEF IInv, TypeOK
<1>3. active(p)' /\ ~active(p)
  BY <1>1, <1>2 DEF active
<1>4. \A q \in Program : q # p => At(q)' = At(q) /\ active(q)' = active(q)
  <2> SUFFICES ASSUME NEW q \in Program, q # p PROVE At(q)' = At(q) /\ active(q)' = active(q)
    OBVIOUS
  <2>1. todo'[q] = todo[q] /\ pc'[q] = pc[q] /\ kind'[q] = kind[q] /\ node'[q] = node[q]
    BY <1>2
  <2> QED BY <1>1, <2>1 DEF At, active
<1>5. \A i \in Instance : kept(i)' = kept(i) /\ live(i)' = live(i)
  BY <1>1 DEF kept, live
<1>6. \A m \in Node : idle(m)' => idle(m) /\ m \notin At(p)'
  BY <1>3, <1>4 DEF idle
<1>7. \A m \in At(p)' \cap Node : \A q \in Program : active(q) => m \notin At(q)
  BY DEF idle
<1>8. Turns'
  BY <1>3, <1>4, <1>7 DEF Order, Turns
<1>9. Shown' /\ Single' /\ Pool'
  BY <1>1, <1>5 DEF Order, Shown, Single, Pool, WarmPool
<1>10. Booting'
  <2> SUFFICES ASSUME NEW i \in Instance, state[i] = "pending"
               PROVE  (\E q \in Program : /\ kind[q] = "resume" /\ node[q] = tag[i][1]
                                          /\ pc[q] \in {"observe", "resolve", "act"})'
    BY <1>1 DEF Booting
  <2>1. PICK q \in Program : /\ kind[q] = "resume" /\ node[q] = tag[i][1]
                             /\ pc[q] \in {"observe", "resolve", "act"}
    BY DEF Order, Booting
  <2>2. q # p
    BY <1>1, <2>1
  <2> QED BY <1>1, <1>2, <2>1, <2>2
<1>11. Acting'
  BY <1>1, <1>2, <1>5 DEF Order, Acting, IInv, TypeOK
<1> QED BY <1>1, <1>2, <1>3, <1>4, <1>5, <1>6, <1>7, <1>8, <1>9, <1>10, <1>11
\* A resume comes to a node that is off and idle: nothing of it runs.
LEMMA ResumeOrder ==
  ASSUME IInv, Order, Orderly, NEW p \in Program, NEW n \in Node, StartResume(p, n),
         UNCHANGED deployment
  PROVE  Order'
<1>1. /\ ~on[n] /\ idle(n) /\ Begin(p, "resume", "launch", n)
      /\ on' = [on EXCEPT ![n] = TRUE] /\ UNCHANGED todo
  BY QuietIsIdle DEF StartResume
<1>2. At(p)' = {n}
  BY <1>1 DEF Begin, At, IInv, TypeOK
<1> DEFINE Same(q) == /\ pc'[q] = pc[q] /\ kind'[q] = kind[q] /\ node'[q] = node[q]
                      /\ At(q)' = At(q) /\ active(q)' = active(q)
<1>3. /\ pc'[p] = "launch" /\ kind'[p] = "resume" /\ node'[p] = n
      /\ \A q \in Program : q # p => Same(q)
      /\ UNCHANGED <<deployment, generation, state, tag, seen, item, at>>
      /\ \A i \in Instance : kept(i)' = kept(i) /\ live(i)' = live(i)
      /\ \A m \in Node : idle(m)' => idle(m) /\ m \notin At(p)'
      /\ Turns' /\ Shown' /\ Single' /\ Pool' /\ Booting' /\ Acting'
  BY <1>1, <1>2, BeginOrder
<1>4. on'[n] = TRUE /\ \A m \in Node : on[m] => on'[m]
  BY <1>1 DEF IInv, TypeOK
<1>5. Off'
  <2>1. \A m \in Node : ~on'[m] /\ idle(m)' => ~on[m] /\ idle(m)
    BY <1>3, <1>4
  <2> QED BY <1>3, <2>1 DEF Order, Off
<1>6. Launching'
  <2>1. ~ \E i \in Instance : tag[i][1] = n /\ live(i)
    BY <1>1 DEF Order, Off
  <2> QED BY <1>3, <2>1 DEF Order, Launching
<1>7. Roles'
  <2> SUFFICES ASSUME NEW q \in Program PROVE Role(q)'
    BY DEF Roles
  <2>1. CASE q = p
    BY <1>3, <1>4, <2>1 DEF Role
  <2>2. CASE q # p
    <3>1. node[q] \in Node \cup {None} /\ (active(q) /\ kind[q] = "resume" => node[q] \in Node)
      <4>1. active(q) /\ kind[q] = "resume" =>
              pc[q] \in {"launch", "observe", "resolve", "act"}
        BY DEF active, IInv, TypeOK, Order, Roles, Role
      <4> QED BY <4>1 DEF IInv, TypeOK, HasNode
    <3> QED BY <1>3, <1>4, <2>2, <3>1 DEF Order, Roles, Role
  <2> QED BY <2>1, <2>2
<1>8. Sweeping'
  <2> SUFFICES ASSUME NEW q \in Program, active(q)', kind'[q] = "sweep"
               PROVE  AtListed(q)'
    BY DEF Sweeping
  <2>1. q # p /\ active(q) /\ kind[q] = "sweep" /\ todo[q] \subseteq Instance /\ todo'[q] = todo[q]
    BY <1>1, <1>3 DEF IInv, TypeOK
  <2>2. \A i \in todo[q] : kept(i) /\ tag[i][1] \in Node
    BY <2>1, KeptTag DEF Order, Sweeping, AtListed
  <2> QED BY <1>3, <1>4, <2>1, <2>2 DEF Order, Sweeping, AtListed
<1> QED BY <1>3, <1>5, <1>6, <1>7, <1>8 DEF Order
\* A suspend comes to a node nobody resumes or sweeps.
LEMMA SuspendOrder ==
  ASSUME IInv, Order, Orderly, NEW p \in Program, NEW n \in Node, StartSuspend(p, n),
         UNCHANGED deployment
  PROVE  Order'
<1>1. /\ idle(n) /\ Begin(p, "suspend", "resolve", n)
      /\ on' = [on EXCEPT ![n] = FALSE] /\ UNCHANGED todo
  BY QuietIsIdle DEF StartSuspend
<1>2. At(p)' = {n}
  BY <1>1 DEF Begin, At, IInv, TypeOK
<1>3. /\ pc'[p] = "resolve" /\ kind'[p] = "suspend" /\ node'[p] = n
      /\ \A q \in Program : q # p =>
           /\ pc'[q] = pc[q] /\ kind'[q] = kind[q] /\ node'[q] = node[q]
           /\ At(q)' = At(q) /\ active(q)' = active(q)
      /\ UNCHANGED <<deployment, generation, state, tag, seen, item, at>>
      /\ \A i \in Instance : kept(i)' = kept(i) /\ live(i)' = live(i)
      /\ \A m \in Node : idle(m)' => idle(m) /\ m \notin At(p)'
      /\ \A q \in Program : active(q) => n \notin At(q)
      /\ Turns' /\ Shown' /\ Single' /\ Pool' /\ Booting' /\ Acting'
  BY <1>1, <1>2, BeginOrder
<1>4. \A m \in Node : m # n => on'[m] = on[m]
  BY <1>1 DEF IInv, TypeOK
<1>5. Off'
  <2>1. \A m \in Node : ~on'[m] /\ idle(m)' => ~on[m] /\ idle(m)
    BY <1>2, <1>3, <1>4
  <2> QED BY <1>3, <2>1 DEF Order, Off
<1>6. Launching'
  BY <1>3 DEF Order, Launching
<1>7. Roles'
  <2> SUFFICES ASSUME NEW q \in Program PROVE Role(q)'
    BY DEF Roles
  <2>1. CASE q = p
    BY <1>3, <2>1 DEF Role
  <2>2. CASE q # p
    <3>1. node[q] \in Node \cup {None} /\ (active(q) /\ kind[q] = "resume" => node[q] \in Node)
      <4>1. active(q) /\ kind[q] = "resume" =>
              pc[q] \in {"launch", "observe", "resolve", "act"}
        BY DEF active, IInv, TypeOK, Order, Roles, Role
      <4> QED BY <4>1 DEF IInv, TypeOK, HasNode
    <3>2. active(q) => node[q] # n
      BY <1>3, AtNode
    <3> QED BY <1>3, <1>4, <2>2, <3>1, <3>2 DEF Order, Roles, Role
  <2> QED BY <2>1, <2>2
<1>8. Sweeping'
  <2> SUFFICES ASSUME NEW q \in Program, active(q)', kind'[q] = "sweep"
               PROVE  AtListed(q)'
    BY DEF Sweeping
  <2>1. q # p /\ active(q) /\ kind[q] = "sweep" /\ todo[q] \subseteq Instance /\ todo'[q] = todo[q]
    BY <1>1, <1>3 DEF IInv, TypeOK
  <2>2. \A i \in todo[q] : kept(i) /\ tag[i][1] \in Node /\ tag[i][1] # n
    BY <1>3, <2>1, KeptTag, AtNode DEF Order, Sweeping, AtListed
  <2> QED BY <1>3, <1>4, <2>1, <2>2 DEF Order, Sweeping, AtListed
<1> QED BY <1>3, <1>5, <1>6, <1>7, <1>8 DEF Order

\* What a sweep lists is of nodes that are on: at a node that is off and idle only
\* a warm pool keeps an instance, and then all are of the one generation.
LEMMA StaleIsOn ==
  ASSUME IInv, Order, Orderly, NEW i \in Stale, Quiet(tag[i][1])
  PROVE  i \in Instance /\ kept(i) /\ on[tag[i][1]] /\ tag[i][2] # generation
<1>1. i \in Instance /\ kept(i) /\ tag[i][2] # generation
  BY DEF Stale, Described, Order, Shown
<1>2. tag[i][1] \in Node /\ tag[i][2] \in 1..generation /\ generation \in Nat
  BY <1>1, KeptTag
<1>3. on[tag[i][1]]
  <2> SUFFICES ASSUME ~on[tag[i][1]] PROVE FALSE
    OBVIOUS
  <2>1. ~live(i)
    BY <1>1, <1>2, QuietIsIdle DEF Order, Off
  <2>2. WarmPool
    BY <1>1, <2>1 DEF Order, Pool, kept, live
  <2>3. generation = 1
    BY <2>2 DEF Orderly
  <2> QED BY <1>1, <1>2, <2>3
<1> QED BY <1>1, <1>3

LEMMA SweepOrder ==
  ASSUME IInv, Order, Orderly, NEW p \in Program, NEW items \in SUBSET Instance,
         StartSweep(p, items), UNCHANGED deployment
  PROVE  Order'
<1>1. /\ Begin(p, "sweep", "next", None) /\ todo' = [todo EXCEPT ![p] = items] /\ UNCHANGED on
      /\ items \subseteq Stale
      /\ \A i \in items : idle(tag[i][1]) /\ kept(i) /\ on[tag[i][1]] /\ tag[i][2] # generation
  BY QuietIsIdle, StaleIsOn DEF StartSweep
<1>2. todo'[p] = items /\ \A q \in Program : q # p => todo'[q] = todo[q]
  BY <1>1 DEF IInv, TypeOK
<1>3. At(p)' = {tag[i][1] : i \in items} \cup {None}
  BY <1>1, <1>2 DEF Begin, At, IInv, TypeOK, cloud
<1>4. None \notin Node
  BY FleetAssumption
<1>5. \A m \in At(p)' : m \in Node => idle(m)
  BY <1>1, <1>3, <1>4
<1>6. /\ pc'[p] = "next" /\ kind'[p] = "sweep" /\ node'[p] = None
      /\ \A q \in Program : q # p =>
           /\ pc'[q] = pc[q] /\ kind'[q] = kind[q] /\ node'[q] = node[q]
           /\ At(q)' = At(q) /\ active(q)' = active(q)
      /\ UNCHANGED <<deployment, generation, state, tag, seen, item, at>>
      /\ \A i \in Instance : kept(i)' = kept(i) /\ live(i)' = live(i)
      /\ \A m \in Node : idle(m)' => idle(m) /\ m \notin At(p)'
      /\ Turns' /\ Shown' /\ Single' /\ Pool' /\ Booting' /\ Acting'
  BY <1>1, <1>2, <1>5, BeginOrder
<1>7. Off'
  BY <1>1, <1>6 DEF Order, Off
<1>8. Launching'
  BY <1>6 DEF Order, Launching
<1>9. Roles'
  BY <1>1, <1>6 DEF Order, Roles, Role
<1>10. Sweeping'
  <2> SUFFICES ASSUME NEW q \in Program, active(q)', kind'[q] = "sweep"
               PROVE  AtListed(q)'
    BY DEF Sweeping
  <2>1. CASE q = p
    BY <1>1, <1>2, <1>6, <2>1 DEF AtListed
  <2>2. CASE q # p
    <3>1. todo[q] \subseteq Instance
      BY DEF IInv, TypeOK
    <3> QED BY <1>1, <1>2, <1>6, <2>2, <3>1 DEF Order, Sweeping, AtListed
  <2> QED BY <2>1, <2>2
<1> QED BY <1>6, <1>7, <1>8, <1>9, <1>10 DEF Order
-----------------------------------------------------------------------------
\* No node gets a second instance: where one is kept, EC2 made it for the token
\* the launch names.
LEMMA LaunchOrder ==
  ASSUME IInv, Order, Orderly, NEW p \in Program, Launch(p), UNCHANGED deployment
  PROVE  Order'
<1>1. /\ pc[p] = "launch" /\ Goto(p, "observe") /\ kind[p] = "resume" /\ node[p] \in Node
      /\ gen[p] \in 1..generation /\ active(p)
      /\ UNCHANGED <<deployment, generation, on, kind, node, gen, todo, item, at>>
  BY DEF Launch, Order, Roles, Role, IInv, TypeOK, HasNode, active
<1>2. CASE UNCHANGED cloud
  <2>1. at' \in [Program -> Instance \cup {None}] /\ \A q \in Program : q # p => at'[q] = at[q]
    BY <1>1 DEF IInv, TypeOK
  <2> QED BY <1>1, <1>2, <2>1, MoveOrder
<1>3. CASE ~UNCHANGED cloud
  <2>1. PICK i \in Instance :
          /\ OfToken(node[p], gen[p]) = {} /\ state[i] = "none"
          /\ state' = [state EXCEPT ![i] = "pending"]
          /\ tag' = [tag EXCEPT ![i] = <<node[p], gen[p]>>]
          /\ seen' = [seen EXCEPT ![i] = "lag" \notin Faults]
    BY <1>3 DEF Launch
  <2>2. /\ state'[i] = "pending" /\ tag'[i] = <<node[p], gen[p]>> /\ seen'[i] = TRUE
        /\ \A j \in Instance : j # i => state'[j] = state[j] /\ tag'[j] = tag[j] /\ seen'[j] = seen[j]
    <3>1. "lag" \notin Faults
      BY DEF Orderly
    <3> QED BY <2>1, <3>1 DEF IInv, TypeOK
  <2>3. /\ kept(i)' /\ ~kept(i) /\ ~live(i)
        /\ \A j \in Instance : j # i => kept(j)' = kept(j) /\ live(j)' = live(j)
    BY <2>1, <2>2 DEF kept, live
  <2>4. /\ pc'[p] = "observe" /\ \A q \in Program : q # p => pc'[q] = pc[q]
    BY <1>1 DEF Goto, IInv, TypeOK
  <2>5. \A q \in Program : \A j \in todo[q] : j \in Instance /\ j # i
    BY <2>1 DEF IInv, TypeOK, Made
  <2>6. \A q \in Program : At(q)' = At(q) /\ active(q)' = active(q)
    <3> SUFFICES ASSUME NEW q \in Program PROVE At(q)' = At(q) /\ active(q)' = active(q)
      OBVIOUS
    <3>1. {tag'[j][1] : j \in todo[q]} = {tag[j][1] : j \in todo[q]}
      BY <2>2, <2>5
    <3>2. At(q)' = At(q)
      BY <1>1, <3>1 DEF At
    <3>3. active(q)' = active(q)
      BY <1>1, <2>4 DEF active
    <3> QED BY <3>2, <3>3
  <2>7. \A j \in Instance : kept(j) => tag[j][1] # node[p]
    <3> SUFFICES ASSUME NEW j \in Instance, kept(j), tag[j][1] = node[p] PROVE FALSE
      OBVIOUS
    <3>1. ~live(j)
      BY <1>1 DEF Order, Launching
    <3>2. WarmPool
      BY <3>1 DEF Order, Pool, kept, live
    <3>3. generation = 1
      BY <3>2 DEF Orderly
    <3>4. tag[j] = <<node[p], tag[j][2]>> /\ tag[j][2] \in 1..generation
      BY KeptTag
    <3>5. tag[j] = <<node[p], gen[p]>>
      BY <1>1, <3>3, <3>4
    <3> QED BY <2>1, <3>5 DEF OfToken
  <2>8. Turns'
    BY <2>6, TurnsStay DEF Order
  <2>9. Shown'
    BY <2>2, <2>3 DEF Order, Shown
  <2>10. Single'
    BY <2>2, <2>3, <2>7 DEF Order, Single
  <2>11. Pool'
    BY <1>1, <2>2 DEF Order, Pool, WarmPool
  <2>12. Booting'
    <3> SUFFICES ASSUME NEW j \in Instance, state'[j] = "pending"
                 PROVE  (\E q \in Program : /\ kind[q] = "resume" /\ node[q] = tag[j][1]
                                            /\ pc[q] \in {"observe", "resolve", "act"})'
      BY DEF Booting
    <3>1. CASE j = i
      BY <1>1, <2>2, <2>4, <3>1
    <3>2. CASE j # i
      <4>1. PICK q \in Program : /\ kind[q] = "resume" /\ node[q] = tag[j][1]
                                 /\ pc[q] \in {"observe", "resolve", "act"}
        BY <2>2, <3>2 DEF Order, Booting
      <4>2. q # p
        BY <1>1, <4>1
      <4> QED BY <1>1, <2>2, <2>4, <3>2, <4>1, <4>2
    <3> QED BY <3>1, <3>2
  <2>13. Off'
    <3> SUFFICES ASSUME NEW n \in Node, ~on[n], idle(n)', NEW j \in Instance, tag'[j][1] = n, live(j)'
                 PROVE  FALSE
      BY <1>1 DEF Off
    <3>1. idle(n)
      BY <2>6 DEF idle
    <3>2. n # node[p]
      BY <1>1, <3>1, AtNode DEF idle
    <3> QED BY <2>2, <2>3, <3>1, <3>2 DEF Order, Off
  <2>14. Launching'
    <3> SUFFICES ASSUME NEW q \in Program, pc'[q] = "launch",
                        NEW j \in Instance, tag'[j][1] = node[q], live(j)'
                 PROVE  FALSE
      BY <1>1 DEF Launching
    <3>1. q # p /\ pc[q] = "launch"
      BY <2>4
    <3>2. node[q] # node[p]
      <4>1. active(q) /\ node[q] \in At(q) /\ node[p] \in At(p)
        BY <3>1, AtNode DEF active
      <4> QED BY <1>1, <3>1, <4>1 DEF Order, Turns
    <3> QED BY <2>2, <2>3, <3>1, <3>2 DEF Order, Launching
  <2>15. Roles'
    BY <1>1, <2>4, <2>6 DEF Order, Roles, Role
  <2>16. Acting'
    BY <1>1, <2>3, <2>4 DEF Order, Acting, IInv, TypeOK
  <2>17. Sweeping'
    <3> SUFFICES ASSUME NEW q \in Program, active(q)', kind'[q] = "sweep"
                 PROVE  AtListed(q)'
      BY DEF Sweeping
    <3>1. q # p /\ active(q) /\ kind[q] = "sweep" /\ pc'[q] = pc[q]
      BY <1>1, <2>4, <2>6
    <3>2. AtListed(q)
      BY <3>1 DEF Order, Sweeping
    <3>3. \A j \in todo[q] : j \in Instance /\ kept(j)' /\ tag'[j] = tag[j]
      BY <2>2, <2>3, <2>5, <3>2 DEF AtListed
    <3>4. pc[q] = "resolve" => item[q] # i
      BY <2>3, <3>2 DEF AtListed
    <3>5. pc[q] = "act" => at[q] \in Instance /\ at[q] # i
      BY <2>3 DEF Order, Acting, IInv, TypeOK
    <3> QED BY <1>1, <2>2, <2>3, <3>1, <3>2, <3>3, <3>4, <3>5 DEF AtListed
  <2> QED BY <2>8, <2>9, <2>10, <2>11, <2>12, <2>13, <2>14, <2>15, <2>16, <2>17 DEF Order
<1> QED BY <1>2, <1>3
\* A sweep turns to the next instance on its list.
LEMMA NextItemOrder ==
  ASSUME IInv, Order, NEW p \in Program, NEW i \in todo[p], NextItem(p, i), UNCHANGED deployment
  PROVE  Order'
<1>1. /\ UNCHANGED <<deployment, generation, on, state, tag, seen, kind, gen, at>>
      /\ todo' = [todo EXCEPT ![p] = @ \ {i}] /\ item' = [item EXCEPT ![p] = i]
      /\ node' = [node EXCEPT ![p] = tag[i][1]] /\ pc' = [pc EXCEPT ![p] = "resolve"]
      /\ pc[p] = "next"
  BY DEF NextItem, Goto, cloud
<1>2. /\ pc'[p] = "resolve" /\ todo'[p] = todo[p] \ {i} /\ item'[p] = i /\ node'[p] = tag[i][1]
      /\ \A q \in Program : q # p => /\ pc'[q] = pc[q] /\ todo'[q] = todo[q] /\ item'[q] = item[q]
                                     /\ node'[q] = node[q]
  BY <1>1 DEF IInv, TypeOK
<1>3. kind[p] = "sweep" /\ active(p) /\ active(p)' /\ AtListed(p)
  BY <1>1, <1>2 DEF Order, Roles, Role, Sweeping, active
<1>4. i \in Instance /\ kept(i) /\ on[tag[i][1]] /\ tag[i][2] # generation /\ tag[i][1] # None
  BY <1>3, KeptTag DEF AtListed, IInv, TypeOK
<1>5. \A j \in Instance : kept(j)' = kept(j) /\ live(j)' = live(j)
  BY <1>1 DEF kept, live
<1>6. \A q \in Program : q # p => active(q)' = active(q) /\ At(q)' = At(q)
  <2> SUFFICES ASSUME NEW q \in Program, q # p PROVE active(q)' = active(q) /\ At(q)' = At(q)
    OBVIOUS
  <2>1. todo'[q] = todo[q] /\ node'[q] = node[q] /\ pc'[q] = pc[q]
    BY <1>2
  <2> QED BY <1>1, <2>1 DEF At, active
<1>7. At(p)' \subseteq At(p)
  BY <1>1, <1>2, <1>3 DEF At
<1>8. Turns'
  BY <1>3, <1>6, <1>7, TurnsStay DEF Order
<1>9. Shown' /\ Single' /\ Pool'
  BY <1>1, <1>5 DEF Order, Shown, Single, Pool, WarmPool
<1>10. Booting'
  <2> SUFFICES ASSUME NEW j \in Instance, state[j] = "pending"
               PROVE  (\E q \in Program : /\ kind[q] = "resume" /\ node[q] = tag[j][1]
                                          /\ pc[q] \in {"observe", "resolve", "act"})'
    BY <1>1 DEF Booting
  <2>1. PICK q \in Program : /\ kind[q] = "resume" /\ node[q] = tag[j][1]
                             /\ pc[q] \in {"observe", "resolve", "act"}
    BY DEF Order, Booting
  <2> QED BY <1>1, <1>2, <1>3, <2>1
<1>11. Off'
  <2> SUFFICES ASSUME NEW n \in Node, ~on[n], idle(n)' PROVE idle(n)
    BY <1>1, <1>5 DEF Order, Off
  <2> QED BY <1>3, <1>6, Leaves
<1>12. Launching'
  BY <1>1, <1>2, <1>5 DEF Order, Launching
<1>13. Roles'
  BY <1>1, <1>2, <1>3, <1>4, <1>6 DEF Order, Roles, Role
<1>14. Acting'
  BY <1>1, <1>2, <1>5 DEF Order, Acting, IInv, TypeOK
<1>15. Sweeping'
  <2> SUFFICES ASSUME NEW q \in Program, active(q)', kind'[q] = "sweep"
               PROVE  AtListed(q)'
    BY DEF Sweeping
  <2>0. todo[q] \subseteq Instance
    BY DEF IInv, TypeOK
  <2>1. CASE q = p
    BY <1>1, <1>2, <1>3, <1>4, <1>5, <2>0, <2>1 DEF AtListed
  <2>2. CASE q # p
    BY <1>1, <1>2, <1>5, <1>6, <2>0, <2>2 DEF Order, Sweeping, AtListed
  <2> QED BY <2>1, <2>2
<1> QED BY <1>8, <1>9, <1>10, <1>11, <1>12, <1>13, <1>14, <1>15 DEF Order

\* The instance an invocation acts on is the only one of its node, and nobody else
\* is at it.
LEMMA ActOrder ==
  ASSUME IInv, Order, Orderly, NEW p \in Program, Terminate(p) \/ Stop(p), UNCHANGED deployment
  PROVE  Order'
<1>1. /\ pc[p] = "act" /\ Goto(p, After(p)) /\ active(p)
      /\ UNCHANGED <<deployment, generation, on, tag, kind, node, gen, todo, item, at>>
  BY DEF Terminate, Stop, TerminateInstance, active
<1>2. PICK a \in Instance :
      /\ a = at[p] /\ kept(a) /\ tag[a][1] = node[p] /\ node[p] \in Node
      /\ \A j \in Instance : kept(j) /\ tag[j][1] = node[p] => j = a
  BY <1>1 DEF Order, Acting, Single, IInv, TypeOK, HasNode
<1>3. /\ \/ state'[a] = "terminated" /\ seen'[a] = FALSE
         \/ state'[a] = "stopped" /\ seen'[a] = seen[a] /\ WarmPool
      /\ \A j \in Instance : j # a => state'[j] = state[j] /\ seen'[j] = seen[j]
  <2>1. CASE Terminate(p)
    BY <1>2, <2>1 DEF Terminate, TerminateInstance, Orderly, IInv, TypeOK
  <2>2. CASE Stop(p)
    <3>1. kind[p] = "suspend" /\ WarmPool
      BY <2>2 DEF Stop, stops
    <3>2. state[a] # "pending"
      <4> SUFFICES ASSUME state[a] = "pending" PROVE FALSE
        OBVIOUS
      <4>1. PICK q \in Program : kind[q] = "resume" /\ active(q) /\ tag[a][1] \in At(q)
        BY <1>2, BooterIsThere
      <4>2. q = p
        BY <1>1, <1>2, <4>1, AtNode DEF Order, Turns
      <4> QED BY <3>1, <4>1, <4>2
    <3>3. state[a] \in {"running", "stopped"}
      BY <1>2, <3>2 DEF kept
    <3> QED BY <1>2, <2>2, <3>1, <3>3 DEF Stop, IInv, TypeOK
  <2> QED BY <2>1, <2>2
<1>4. /\ ~live(a)' /\ (kept(a)' <=> state'[a] = "stopped")
      /\ \A j \in Instance : j # a => kept(j)' = kept(j) /\ live(j)' = live(j)
  BY <1>3 DEF kept, live
<1>5. /\ pc'[p] = After(p) /\ \A q \in Program : q # p => pc'[q] = pc[q]
      /\ After(p) \in {"failed", "done", "next"} /\ (After(p) = "next" => kind[p] = "sweep")
  <2>1. kind[p] \in {"resume", "suspend", "sweep"}
    BY <1>1 DEF IInv, TypeOK, HasNode
  <2> QED BY <1>1, <2>1 DEF After, Goto, IInv, TypeOK
<1>6. \A q \in Program : At(q)' = At(q) /\ (active(q)' => active(q)) /\ (q # p => active(q)' = active(q))
  BY <1>1, <1>5 DEF At, active
<1>7. \A q \in Program : q # p /\ active(q) => node[p] \notin At(q)
  BY <1>1, <1>2, AtNode DEF Order, Turns
<1>8. Turns'
  BY <1>6, TurnsStay DEF Order
<1>9. Shown'
  <2>1. seen[a] = TRUE
    BY <1>2 DEF Order, Shown, IInv, TypeOK
  <2> QED BY <1>3, <1>4, <2>1 DEF Order, Shown
<1>10. Single'
  BY <1>1, <1>2, <1>4 DEF Order, Single
<1>11. Pool'
  BY <1>1, <1>3 DEF Order, Pool, WarmPool
<1>12. Booting'
  <2> SUFFICES ASSUME NEW j \in Instance, state'[j] = "pending"
               PROVE  (\E q \in Program : /\ kind[q] = "resume" /\ node[q] = tag[j][1]
                                          /\ pc[q] \in {"observe", "resolve", "act"})'
    BY DEF Booting
  <2>1. j # a /\ state[j] = "pending" /\ kept(j)
    BY <1>3 DEF kept
  <2>2. PICK q \in Program : /\ kind[q] = "resume" /\ node[q] = tag[j][1]
                             /\ pc[q] \in {"observe", "resolve", "act"}
    BY <2>1 DEF Order, Booting
  <2>3. q # p
    BY <1>2, <2>1, <2>2
  <2> QED BY <1>1, <1>5, <2>2, <2>3
<1>13. Off'
  <2> SUFFICES ASSUME NEW n \in Node, ~on[n], idle(n)', NEW j \in Instance, tag[j][1] = n, live(j)'
               PROVE  FALSE
    BY <1>1 DEF Off
  <2>1. j # a /\ live(j) /\ kept(j)
    BY <1>4 DEF live, kept
  <2>2. n # node[p]
    BY <1>2, <2>1
  <2>3. idle(n)
    BY <1>1, <1>6, <2>2, Leaves
  <2> QED BY <2>1, <2>3 DEF Order, Off
<1>14. Launching'
  <2>1. \A j \in Instance : live(j)' => live(j)
    BY <1>4
  <2> QED BY <1>1, <1>5, <2>1 DEF Order, Launching
<1>15. Roles'
  BY <1>1, <1>5, <1>6 DEF Order, Roles, Role
<1>16. Acting'
  <2> SUFFICES ASSUME NEW q \in Program, pc'[q] = "act" PROVE kept(at[q])'
    BY <1>1 DEF Acting
  <2>1. q # p /\ pc[q] = "act" /\ active(q)
    BY <1>5 DEF active
  <2>2. at[q] \in Instance /\ kept(at[q]) /\ tag[at[q]][1] = node[q]
    BY <2>1 DEF Order, Acting, IInv, TypeOK
  <2>3. at[q] # a
    BY <1>2, <1>7, <2>1, <2>2, AtNode
  <2> QED BY <1>1, <1>3, <2>2, <2>3 DEF kept
<1>17. Sweeping'
  <2> SUFFICES ASSUME NEW q \in Program, active(q)', kind'[q] = "sweep"
               PROVE  AtListed(q)'
    BY DEF Sweeping
  <2>1. active(q) /\ kind[q] = "sweep" /\ AtListed(q) /\ todo[q] \subseteq Instance
    BY <1>1, <1>6 DEF Order, Sweeping, IInv, TypeOK
  <2>2. CASE q = p
    BY <1>1, <1>2, <1>4, <1>5, <2>1, <2>2 DEF AtListed
  <2>3. CASE q # p
    <3>1. \A j \in todo[q] : j # a
      BY <1>2, <1>7, <2>1, <2>3, AtNode
    <3>2. pc[q] = "resolve" => item[q] # a
      BY <1>2, <1>7, <2>1, <2>3, AtNode DEF AtListed
    <3> QED BY <1>1, <1>4, <1>5, <2>1, <2>3, <3>1, <3>2 DEF AtListed
  <2> QED BY <2>2, <2>3
<1> QED BY <1>8, <1>9, <1>10, <1>11, <1>12, <1>13, <1>14, <1>15, <1>16, <1>17 DEF Order
-----------------------------------------------------------------------------
\* The other steps of an invocation move it on, and leave nothing behind that it
\* should not: no request fails, and what is missed is not there.
LEMMA OtherOrder ==
  ASSUME IInv, Order, Orderly, NEW p \in Program, UNCHANGED deployment,
         \/ Crash(p) \/ LaunchFails(p) \/ ObserveRunning(p) \/ ObserveFailed(p) \/ BudgetExceeded(p)
         \/ CohortFails(p) \/ SweepEnds(p) \/ Resolve(p) \/ ResolveMisses(p) \/ RequestFails(p)
  PROVE  Order'
<1>1. ~Crash(p) /\ ~RequestFails(p)
  BY DEF Orderly, Crash, RequestFails
<1>2. /\ active(p) /\ node[p] \in Node \cup {None}
      /\ UNCHANGED <<deployment, generation, on, cloud, kind, node, gen, todo, item>>
      /\ at' \in [Program -> Instance \cup {None}] /\ \A q \in Program : q # p => at'[q] = at[q]
  BY <1>1 DEF LaunchFails, ObserveRunning, ObserveFailed, BudgetExceeded, CohortFails, SweepEnds,
              Resolve, ResolveMisses, active, DescribeByTag, Described, IInv, TypeOK
<1>3. \A i \in Instance : i \in DescribeByTag(node[p]) <=> kept(i) /\ tag[i][1] = node[p]
  BY DEF DescribeByTag, Described, Order, Shown
\* Who waits for an instance of this node is this invocation.
<1>4. ASSUME NEW i \in Instance, tag[i][1] = node[p], state[i] = "pending"
      PROVE  kind[p] = "resume" /\ pc[p] \in {"observe", "resolve", "act"}
  <2>1. PICK q \in Program : /\ kind[q] = "resume" /\ active(q) /\ tag[i][1] \in At(q)
                             /\ pc[q] \in {"observe", "resolve", "act"}
    BY <1>4, BooterIsThere
  <2>2. tag[i][1] \in Node
    BY <1>4, KeptTag DEF kept
  <2>3. q = p
    BY <1>2, <1>4, <2>1, <2>2, AtNode DEF Order, Turns
  <2> QED BY <2>1, <2>3
<1>5. CASE LaunchFails(p)
  <2>1. pc[p] = "launch" /\ Goto(p, "failed") /\ kind[p] = "resume"
    BY <1>5 DEF LaunchFails, Order, Roles, Role
  <2> QED BY <1>2, <1>4, <2>1, MoveOrder
<1>6. CASE ObserveRunning(p)
  <2>1. pc[p] = "observe" /\ Goto(p, "up") /\ kind[p] = "resume"
    BY <1>6 DEF ObserveRunning, Order, Roles, Role
  <2>2. PICK i \in Instance : tag[i][1] = node[p] /\ state[i] = "running"
    BY <1>6 DEF ObserveRunning, DescribeByTag, Described
  <2>3. ~ \E j \in Instance : tag[j][1] = node[p] /\ state[j] = "pending"
    BY <2>2 DEF Order, Single, kept
  <2> QED BY <1>2, <2>1, <2>3, MoveOrder
<1>7. CASE ObserveFailed(p)
  BY <1>3, <1>7 DEF ObserveFailed, DescribeByTag, Described, kept
<1>8. CASE BudgetExceeded(p)
  <2>1. pc[p] = "observe" /\ Goto(p, "failed") /\ kind[p] = "resume"
    BY <1>8 DEF BudgetExceeded, Order, Roles, Role
  <2>2. ~ \E i \in Instance : tag[i][1] = node[p] /\ state[i] = "pending"
    BY <1>8 DEF BudgetExceeded, Orderly, live
  <2> QED BY <1>2, <2>1, <2>2, MoveOrder
<1>9. CASE CohortFails(p)
  <2>1. Goto(p, "resolve") /\ kind[p] = "resume"
    BY <1>9 DEF CohortFails, Order, Roles, Role
  <2> QED BY <1>2, <2>1, MoveOrder
<1>10. CASE SweepEnds(p)
  <2>1. pc[p] = "next" /\ Goto(p, "done") /\ kind[p] = "sweep"
    BY <1>10 DEF SweepEnds, Order, Roles, Role
  <2> QED BY <1>2, <1>4, <2>1, MoveOrder
<1>11. CASE Resolve(p)
  <2>1. /\ pc[p] = "resolve" /\ Goto(p, "act")
        /\ \E i \in DescribeByTag(node[p]) : at' = [at EXCEPT ![p] = i]
    BY <1>11 DEF Resolve
  <2>2. at'[p] \in Instance /\ kept(at'[p]) /\ tag[at'[p]][1] = node[p]
    BY <1>3, <2>1 DEF DescribeByTag, Described, IInv, TypeOK
  <2> QED BY <1>2, <2>1, <2>2, MoveOrder
<1>12. CASE ResolveMisses(p)
  <2>1. pc[p] = "resolve" /\ Goto(p, After(p)) /\ DescribeByTag(node[p]) = {}
    BY <1>12 DEF ResolveMisses
  <2>2. \A i \in Instance : tag[i][1] = node[p] => ~kept(i)
    BY <1>3, <2>1
  <2>3. After(p) \in {"failed", "done", "next"} /\ (After(p) = "next" => kind[p] = "sweep")
    <3>1. kind[p] \in {"resume", "suspend", "sweep"}
      BY <2>1 DEF IInv, TypeOK, HasNode
    <3> QED BY <3>1 DEF After
  <2>4. ~ \E i \in Instance : tag[i][1] = node[p] /\ (live(i) \/ state[i] = "pending")
    BY <2>2 DEF kept, live
  <2> QED BY <1>2, <2>1, <2>3, <2>4, MoveOrder
<1> QED BY <1>1, <1>5, <1>6, <1>7, <1>8, <1>9, <1>10, <1>11, <1>12

-----------------------------------------------------------------------------
\* A fleet starts in order.
LEMMA InitOrder == Init => OrderInv
BY DEF Init, OrderInv, Order, Turns, Shown, Single, Pool, Booting, Off, Launching, Roles, Role,
       Acting, Sweeping, active, kept, live

\* Every step keeps order, one case per action.
LEMMA StepOrder == IInv /\ OrderInv /\ [Next]_vars => OrderInv'
<1> SUFFICES ASSUME IInv, OrderInv, [Next]_vars, Orderly' PROVE Order'
  BY DEF OrderInv
<1>1. Orderly /\ Order
  BY OrderlyWas DEF OrderInv
<1>2. CASE UNCHANGED vars
  BY <1>1, <1>2 DEF vars, cloud, proc, Order, Turns, Shown, Single, Pool, Booting, Off, Launching,
     Roles, Role, Acting, Sweeping, AtListed, active, kept, live, idle, At, WarmPool
<1>3. CASE Next
  <2>1. UNCHANGED deployment
    BY <1>3 DEF Next
  <2>2. CASE Apply
    BY <1>1, <2>1, <2>2, ApplyOrder
  <2>3. CASE \E i \in Instance : Appear(i) \/ Boot(i) \/ Forget(i)
    BY <1>1, <2>1, <2>3, CloudOrder
  <2>4. ASSUME NEW p \in Program, NEW n \in Node, StartResume(p, n) \/ StartSuspend(p, n) PROVE Order'
    BY <1>1, <2>1, <2>4, ResumeOrder, SuspendOrder
  <2>5. ASSUME NEW p \in Program, NEW items \in SUBSET Instance, StartSweep(p, items) PROVE Order'
    BY <1>1, <2>1, <2>5, SweepOrder
  <2>6. ASSUME NEW p \in Program, Step(p) PROVE Order'
    BY <1>1, <2>1, <2>6, LaunchOrder, NextItemOrder, ActOrder, OtherOrder DEF Step
  <2> QED BY <1>3, <2>2, <2>3, <2>4, <2>5, <2>6 DEF Next
<1> QED BY <1>2, <1>3

\* In good order a fleet stays in order.
THEOREM OrderHolds == Spec => []OrderInv
BY InitOrder, StepOrder, Invariance, PTL DEF Spec

\* No instance of a suspended node runs once nobody is at it, in any fleet in good
\* order.
THEOREM SuspendedGone == Spec => []SuspendedIsGone
<1>1. OrderInv => SuspendedIsGone
  BY DEF OrderInv, Order, Off, SuspendedIsGone
<1> QED BY <1>1, OrderHolds, PTL

\* The sweep terminates nothing of the current generation, in any fleet in good
\* order: what it lists stays the only instance of its node until it gets there.
THEOREM SparesCurrent == Spec => SweepSparesCurrent
<1>1. IInv /\ OrderInv /\ [Next]_vars =>
        [Orderly => \A p \in Program :
           kind[p] = "sweep" /\ pc[p] = "act" /\ live(at[p]) /\ state'[at[p]] = "terminated"
           => tag[at[p]][2] # generation]_vars
  BY DEF OrderInv, Order, Sweeping, AtListed, active
<1> QED BY <1>1, Invariance, OrderHolds, PTL DEF Spec, SweepSparesCurrent
=============================================================================
