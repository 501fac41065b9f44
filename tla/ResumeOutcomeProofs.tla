------------------------- MODULE ResumeOutcomeProofs -------------------------
(***************************************************************************)
(* What ResumeOutcome promises for any nodes, programs and partitions, in  *)
(* every deployment: that a node's state in Slurm can be explained from    *)
(* its record, and that no failed node is left configuring.                *)
(***************************************************************************)
EXTENDS ResumeOutcome, TLAPS

\* Where resumes do not overlap, programs at work share no node.
Apart == ~deployment.overlap => \A p, q \in Program : atWork(p) /\ atWork(q) /\ nodes[p] \cap nodes[q] # {} => p = q

\* An invocation has its nodes from the start, and looks for the partition of one.
Sampled == \A p \in Program : (pc[p] = "none" => nodes[p] = {}) /\ (pc[p] = "resolve" => sample[p] \in Node)

\* Before the reconcile has ended there is no outcome; then each node has one, and
\* none is cancelled unless another failed.
Blamed(p) == (\E n \in nodes[p] : outcome[p][n] = "cancelled") =>
               \E m \in nodes[p] : outcome[p][m] = "terminal"

Told == \A p \in Program :
  /\ pc[p] \in {"none", "resolve", "build", "admit", "reconcile"} => DOMAIN outcome[p] = {} /\ todo[p] = {}
  /\ pc[p] \in {"put", "mark", "done"} => DOMAIN outcome[p] = nodes[p]
  /\ DOMAIN outcome[p] = nodes[p] => Blamed(p)

\* Who set a node's state had it among its own and gave it up; and nobody came since,
\* where resumes do not overlap.
MarkedBy(n, p) ==
  /\ p \in Program /\ pc[p] \in {"mark", "done", "dead"}
  /\ n \in nodes[p] /\ DOMAIN outcome[p] = nodes[p] /\ outcome[p][n] # "ready"
  /\ slurm[n] = stateOf(outcome[p][n])
  /\ ~deployment.overlap => \A q \in Program : atWork(q) /\ n \in nodes[q] => q = p

Marked == \A n \in Node : by[n] # None => MarkedBy(n, by[n])

\* A record is of a program that had the node.
Owned == \A n \in Node : record[n][1] # None =>
           pc[record[n][1]] # "none" /\ n \in nodes[record[n][1]]

\* As long as records can be written, there is one before there is a mark.
Kept == "disk" \notin Faults =>
  /\ \A p \in Program :
       /\ pc[p] = "put"  => \A n \in nodes[p] \ todo[p] : record[n][1] # None
       /\ pc[p] = "mark" => \A n \in nodes[p] : record[n][1] # None
  /\ \A n \in Node : by[n] # None => record[n][1] # None

\* It is the program's own, where resumes do not overlap.
Recorded == "disk" \notin Faults /\ ~deployment.overlap =>
  /\ \A p \in Program :
       /\ pc[p] = "put"  => \A n \in nodes[p] \ todo[p] : record[n] = <<p, outcome[p][n]>>
       /\ pc[p] = "mark" => \A n \in nodes[p] : record[n] = <<p, outcome[p][n]>>
  /\ \A n \in Node : by[n] # None => record[n] = <<by[n], outcome[by[n]][n]>>

\* A failed node the loop is through with is not configuring, but for an update that
\* failed, or another resume of the node.
Left(p, n) == \/ outcome[p][n] = "ready" \/ slurm[n] # "CF" \/ n \in dropped[p]
              \/ deployment.overlap /\ \E q \in Program \ {p} : n \in nodes[q]

Through == \A p \in Program : pc[p] = "mark" => \A n \in nodes[p] \ todo[p] : Left(p, n)

IInv == TypeOK /\ Apart /\ Sampled /\ Told /\ Marked /\ Owned /\ Kept /\ Recorded /\ Through
-----------------------------------------------------------------------------
\* Nothing is under way at first.
LEMMA InitIInv == Init => IInv
<1> SUFFICES ASSUME Init PROVE IInv
  OBVIOUS
<1>1. \A p \in Program : outcome[p] = [n \in {} |-> "ready"] /\ DOMAIN outcome[p] = {}
  BY DEF Init
<1>2. TypeOK
  BY <1>1 DEF Init, TypeOK, Result
<1>3. Told
  BY <1>1 DEF Init, Told, Blamed
<1> QED BY <1>1, <1>2, <1>3 DEF Init, IInv, Apart, Sampled, Marked, Owned, Kept, Recorded, Through, atWork

-----------------------------------------------------------------------------
(* The invariant is inductive.                                              *)

\* slurmctld and the operator change the state of a node nobody has marked, or
\* forget who did.
LEMMA SlurmStep ==
  ASSUME IInv, NEW n \in Node, CheckIn(n) \/ ResumeTimeout(n) \/ BackToIdle(n), UNCHANGED deployment
  PROVE  IInv'
<1>1. UNCHANGED <<deployment, pc, nodes, sample, part, outcome, todo, record, dropped>>
  BY DEF CheckIn, ResumeTimeout, BackToIdle, proc
<1>0. slurm \in [Node -> {"idle", "CF", "up", "down", "drain"}] /\ by \in [Node -> Program \cup {None}]
  BY DEF IInv, TypeOK
<1>2. /\ launched' = launched
      /\ slurm' \in [Node -> {"idle", "CF", "up", "down", "drain"}] /\ slurm'[n] # "CF"
      /\ \A m \in Node : m # n => slurm'[m] = slurm[m]
      /\ by' \in [Node -> Program \cup {None}] /\ (by'[n] # None => slurm[n] = "CF" /\ by'[n] = by[n])
      /\ \A m \in Node : m # n => by'[m] = by[m]
  BY <1>0 DEF CheckIn, ResumeTimeout, BackToIdle
<1>3. by'[n] = None
  <2> SUFFICES ASSUME by'[n] # None PROVE FALSE
    OBVIOUS
  <2> QED BY <1>2 DEF IInv, Marked, MarkedBy, stateOf
<1>4. TypeOK'
  BY <1>1, <1>2 DEF IInv, TypeOK
<1>5. Apart' /\ Sampled' /\ Told'
  BY <1>1 DEF IInv, Apart, Sampled, Told, Blamed, atWork
<1>6. Marked' /\ Owned' /\ Kept' /\ Recorded'
  <2>1. Marked'
    BY <1>1, <1>2, <1>3 DEF IInv, Marked, MarkedBy, atWork
  <2>2. Owned'
    BY <1>1 DEF IInv, Owned
  <2>3. \A m \in Node : by'[m] # None => by[m] # None /\ by'[m] = by[m]
    BY <1>2, <1>3
  <2> QED BY <1>1, <2>1, <2>2, <2>3 DEF IInv, Kept, Recorded, Faults
<1>7. Through'
  BY <1>1, <1>2 DEF IInv, Through, Left, TypeOK
<1> QED BY <1>4, <1>5, <1>6, <1>7 DEF IInv

\* A resume is of nodes that are idle: nobody is at them or has marked them.
LEMMA StartStep ==
  ASSUME IInv, NEW p \in Program, NEW ns \in SUBSET Node, NEW first \in Node,
         StartResume(p, ns, first), UNCHANGED deployment
  PROVE  IInv'
<1>1. /\ pc[p] = "none" /\ first \in ns /\ \A n \in ns : slurm[n] = "idle"
      /\ ~deployment.overlap => \A q \in Program : atWork(q) => nodes[q] \cap ns = {}
      /\ UNCHANGED <<deployment, by, part, outcome, todo, record, launched, dropped>>
  BY DEF StartResume, goes, alone
<1>2. /\ pc'[p] = "resolve" /\ nodes'[p] = ns /\ sample'[p] = first
      /\ \A q \in Program : q # p => pc'[q] = pc[q] /\ nodes'[q] = nodes[q] /\ sample'[q] = sample[q]
      /\ \A n \in Node : slurm'[n] = IF n \in ns THEN "CF" ELSE slurm[n]
  BY DEF StartResume, goes, IInv, TypeOK
<1>3. /\ pc' \in [Program -> {"none", "resolve", "build", "admit", "reconcile", "put", "mark", "done", "error", "dead"}]
      /\ nodes' \in [Program -> SUBSET Node] /\ sample' \in [Program -> Node \cup {None}]
      /\ slurm' \in [Node -> {"idle", "CF", "up", "down", "drain"}]
  BY DEF StartResume, goes, IInv, TypeOK
<1>4. DOMAIN outcome[p] = {} /\ todo[p] \subseteq nodes[p]
  BY <1>1 DEF IInv, Told, TypeOK
<1>5. TypeOK'
  <2>1. \A q \in Program : /\ DOMAIN outcome[q] \in {{}, nodes'[q]}
                           /\ \A n \in DOMAIN outcome[q] : outcome[q][n] \in Result
                           /\ todo[q] \subseteq nodes'[q]
    BY <1>1, <1>2, <1>4 DEF IInv, TypeOK, Told
  <2>2. \A q \in Program : pc'[q] \in {"build", "admit", "reconcile", "put", "mark"} => part[q] # None
    BY <1>2 DEF IInv, TypeOK
  <2>3. /\ deployment \in Deployments /\ by \in [Node -> Program \cup {None}]
        /\ part \in [Program -> Partition \cup {None}] /\ DOMAIN outcome = Program
        /\ todo \in [Program -> SUBSET Node] /\ record \in [Node -> (Program \cup {None}) \X Result]
        /\ launched \subseteq Program /\ dropped \in [Program -> SUBSET Node]
    BY DEF IInv, TypeOK
  <2> QED BY <1>1, <1>3, <2>1, <2>2, <2>3 DEF TypeOK
<1>6. Apart'
  <2>1. \A q \in Program : q # p => (atWork(q)' = atWork(q))
    BY <1>2 DEF atWork
  <2> QED BY <1>1, <1>2, <2>1 DEF IInv, Apart
<1>7. Sampled'
  BY <1>2 DEF IInv, Sampled
<1>8. Told'
  BY <1>1, <1>2, <1>4 DEF IInv, Told, Blamed
<1>9. ASSUME NEW n \in Node, by[n] # None
      PROVE  by[n] # p /\ n \notin ns /\ MarkedBy(n, by[n])'
  <2>1. MarkedBy(n, by[n])
    BY <1>9 DEF IInv, Marked
  <2>2. by[n] # p /\ n \notin ns
    BY <1>1, <2>1 DEF MarkedBy, stateOf
  <2> QED BY <1>1, <1>2, <2>1, <2>2 DEF MarkedBy, atWork
<1>10. Marked'
  BY <1>1, <1>9 DEF Marked
<1>11. Recorded' /\ Kept' /\ Owned'
  <2>1. Recorded'
    BY <1>1, <1>2, <1>9 DEF IInv, Recorded, Faults
  <2>2. Kept'
    BY <1>1, <1>2 DEF IInv, Kept, Faults
  <2>3. Owned'
    <3> SUFFICES ASSUME NEW n \in Node, record[n][1] # None
                 PROVE  pc'[record[n][1]] # "none" /\ n \in nodes'[record[n][1]]
      BY <1>1 DEF Owned
    <3>1. record[n][1] \in Program /\ pc[record[n][1]] # "none" /\ n \in nodes[record[n][1]]
      BY DEF IInv, Owned, TypeOK
    <3> QED BY <1>1, <1>2, <3>1
  <2> QED BY <2>1, <2>2, <2>3
<1>12. Through'
  <2> SUFFICES ASSUME NEW q \in Program, pc'[q] = "mark", NEW n \in nodes'[q] \ todo'[q]
               PROVE  Left(q, n)'
    BY DEF Through
  <2>1. q # p /\ pc[q] = "mark" /\ nodes'[q] = nodes[q] /\ n \in nodes[q] \ todo[q] /\ n \in Node
    BY <1>1, <1>2 DEF IInv, TypeOK
  <2>2. Left(q, n) /\ outcome' = outcome /\ dropped' = dropped /\ deployment' = deployment
    BY <1>1, <2>1 DEF IInv, Through
  <2>3. CASE n \in ns
    <3>1. deployment.overlap
      BY <1>1, <2>1, <2>3 DEF atWork
    <3>2. n \in nodes'[p] /\ p \in Program \ {q}
      BY <1>2, <2>1, <2>3
    <3> QED BY <2>2, <3>1, <3>2 DEF Left
  <2>4. CASE n \notin ns
    <3>1. slurm'[n] = slurm[n]
      BY <1>2, <2>1, <2>4
    <3>0. nodes[p] = {}
      BY <1>1 DEF IInv, Sampled
    <3>2. ASSUME NEW u \in Program \ {q}, n \in nodes[u] PROVE \E v \in Program \ {q} : n \in nodes'[v]
      <4>1. u # p
        BY <3>0, <3>2
      <4> QED BY <1>2, <3>2, <4>1
    <3> QED BY <2>2, <3>1, <3>2 DEF Left
  <2> QED BY <2>3, <2>4
<1> QED BY <1>5, <1>6, <1>7, <1>8, <1>10, <1>11, <1>12 DEF IInv

\* An invocation goes on or dies; it tells nothing yet, or has told before.
LEMMA GoesOn ==
  ASSUME IInv, NEW p \in Program, atWork(p), NEW where, pc' = [pc EXCEPT ![p] = where],
         \/ where = "dead"
         \/ pc[p] \in {"resolve", "build", "admit"} /\ where \in {"build", "admit", "reconcile", "error"},
         where \in {"build", "admit", "reconcile"} => part'[p] # None,
         part' \in [Program -> Partition \cup {None}],
         \A q \in Program : q # p => part'[q] = part[q],
         launched' \subseteq Program,
         UNCHANGED <<deployment, slurm, by, nodes, sample, outcome, todo, record, dropped>>
  PROVE  IInv'
<1>1. pc'[p] = where /\ \A q \in Program : q # p => pc'[q] = pc[q]
  BY DEF IInv, TypeOK
<1>2. \A q \in Program : atWork(q)' => atWork(q)
  BY <1>1 DEF atWork
<1>3. TypeOK'
  BY <1>1 DEF IInv, TypeOK
<1>4. Apart' /\ Sampled'
  BY <1>1, <1>2 DEF IInv, Apart, Sampled
<1>5. Told'
  BY <1>1 DEF IInv, Told, Blamed
<1>6. Marked'
  <2> SUFFICES ASSUME NEW n \in Node, by[n] # None PROVE MarkedBy(n, by[n])'
    BY DEF Marked
  <2> QED BY <1>1, <1>2 DEF IInv, Marked, MarkedBy
<1>7. Kept' /\ Recorded' /\ Through'
  BY <1>1 DEF IInv, Kept, Recorded, Through, Left, Faults
<1>8. Owned'
  <2>1. where # "none" /\ \A n \in Node : record[n][1] # None => record[n][1] \in Program
    BY DEF IInv, TypeOK
  <2> QED BY <1>1, <2>1 DEF IInv, Owned
<1> QED BY <1>3, <1>4, <1>5, <1>6, <1>7, <1>8 DEF IInv

\* An invocation ends with an outcome for each of its nodes, and a failed one to
\* blame if others were cancelled.
LEMMA EndsStep ==
  ASSUME IInv, NEW p \in Program, NEW from \in {"admit", "reconcile"},
         NEW out \in [nodes[p] -> Result],
         (\E n \in nodes[p] : out[n] = "cancelled") => \E m \in nodes[p] : out[m] = "terminal",
         Ends(p, from, out), UNCHANGED deployment
  PROVE  IInv'
<1>1. /\ pc[p] = from /\ pc' = [pc EXCEPT ![p] = "put"]
      /\ outcome' = [outcome EXCEPT ![p] = out] /\ todo' = [todo EXCEPT ![p] = nodes[p]]
      /\ UNCHANGED <<deployment, slurm, by, nodes, sample, part, record, launched, dropped>>
  BY DEF Ends, goes
<1>2. pc[p] \in {"admit", "reconcile"} /\ atWork(p) /\ part[p] # None
  BY <1>1 DEF atWork, IInv, TypeOK
<1>3. /\ pc'[p] = "put" /\ outcome'[p] = out /\ todo'[p] = nodes[p] /\ DOMAIN out = nodes[p]
      /\ \A q \in Program : q # p => pc'[q] = pc[q] /\ outcome'[q] = outcome[q] /\ todo'[q] = todo[q]
      /\ pc' \in [Program -> {"none", "resolve", "build", "admit", "reconcile", "put", "mark", "done", "error", "dead"}]
      /\ todo' \in [Program -> SUBSET Node] /\ DOMAIN outcome' = Program
  BY <1>1 DEF IInv, TypeOK
<1>4. \A q \in Program : atWork(q)' = atWork(q)
  BY <1>2, <1>3 DEF atWork
<1>5. TypeOK'
  <2>1. \A q \in Program : /\ DOMAIN outcome'[q] \in {{}, nodes[q]}
                           /\ \A n \in DOMAIN outcome'[q] : outcome'[q][n] \in Result
                           /\ todo'[q] \subseteq nodes[q]
    BY <1>3 DEF IInv, TypeOK
  <2>2. \A q \in Program : pc'[q] \in {"build", "admit", "reconcile", "put", "mark"} => part[q] # None
    BY <1>2, <1>3 DEF IInv, TypeOK
  <2> QED BY <1>1, <1>3, <2>1, <2>2 DEF IInv, TypeOK
<1>6. Apart' /\ Sampled'
  BY <1>1, <1>3, <1>4 DEF IInv, Apart, Sampled
<1>7. Told'
  BY <1>1, <1>3 DEF IInv, Told, Blamed
<1>8. ASSUME NEW n \in Node, by[n] # None PROVE by[n] # p /\ MarkedBy(n, by[n])'
  <2>1. MarkedBy(n, by[n])
    BY <1>8 DEF IInv, Marked
  <2>2. by[n] # p
    BY <1>2, <2>1 DEF MarkedBy
  <2> QED BY <1>1, <1>3, <1>4, <2>1, <2>2 DEF MarkedBy
<1>9. Marked'
  BY <1>1, <1>8 DEF Marked
<1>10. Recorded'
  <2> SUFFICES ASSUME "disk" \notin Faults, ~deployment.overlap PROVE Recorded'
    BY <1>1 DEF Recorded, Faults
  <2>1. \A q \in Program :
          /\ pc'[q] = "put"  => \A n \in nodes[q] \ todo'[q] : record[n] = <<q, outcome'[q][n]>>
          /\ pc'[q] = "mark" => \A n \in nodes[q] : record[n] = <<q, outcome'[q][n]>>
    BY <1>3 DEF IInv, Recorded
  <2>2. \A n \in Node : by[n] # None => record[n] = <<by[n], outcome'[by[n]][n]>>
    <3> SUFFICES ASSUME NEW n \in Node, by[n] # None PROVE record[n] = <<by[n], outcome'[by[n]][n]>>
      OBVIOUS
    <3>1. by[n] \in Program /\ by[n] # p
      BY <1>8 DEF IInv, TypeOK
    <3> QED BY <1>3, <3>1 DEF IInv, Recorded
  <2> QED BY <1>1, <2>1, <2>2 DEF Recorded
<1>11. Through'
  <2> SUFFICES ASSUME NEW q \in Program, pc'[q] = "mark", NEW n \in nodes[q] \ todo'[q] PROVE Left(q, n)'
    BY <1>1 DEF Through
  <2>1. q # p /\ outcome'[q] = outcome[q] /\ Left(q, n)
    BY <1>3 DEF IInv, Through
  <2> QED BY <1>1, <2>1 DEF Left
<1>12. Owned'
  <2>1. \A n \in Node : record[n][1] # None => record[n][1] \in Program
    BY DEF IInv, TypeOK
  <2> QED BY <1>1, <1>3, <2>1 DEF IInv, Owned
<1>13. Kept'
  BY <1>1, <1>3 DEF IInv, Kept, Faults
<1> QED BY <1>5, <1>6, <1>7, <1>9, <1>10, <1>11, <1>12, <1>13 DEF IInv

\* What a node a loop is at is, and where the loop goes next.
LEMMA LoopStep ==
  ASSUME IInv, NEW p \in Program, NEW n \in Node, NEW from \in {"put", "mark"}, NEW after \in {"mark", "done"},
         NEW again \in SUBSET nodes[p], NextNode(p, n, from, after, again)
  PROVE  /\ pc[p] = from /\ atWork(p) /\ n \in todo[p] /\ n \in nodes[p] /\ nodes[p] \subseteq Node
         /\ DOMAIN outcome[p] = nodes[p] /\ outcome[p][n] \in Result /\ part[p] # None
         /\ pc' \in [Program -> {"none", "resolve", "build", "admit", "reconcile", "put", "mark", "done", "error", "dead"}]
         /\ todo' \in [Program -> SUBSET Node] /\ \A q \in Program : todo'[q] \subseteq nodes[q]
         /\ \A q \in Program : q # p => pc'[q] = pc[q] /\ todo'[q] = todo[q]
         /\ \/ pc'[p] = from /\ todo'[p] = todo[p] \ {n}
            \/ pc'[p] = after /\ todo[p] = {n} /\ todo'[p] = again
         /\ UNCHANGED <<nodes, sample, part, outcome>>
<1>1. /\ pc[p] = from /\ n \in todo[p]
      /\ todo' = [todo EXCEPT ![p] = IF todo[p] = {n} THEN again ELSE todo[p] \ {n}]
      /\ pc' = [pc EXCEPT ![p] = IF todo[p] = {n} THEN after ELSE pc[p]]
      /\ UNCHANGED <<nodes, sample, part, outcome>>
  BY DEF NextNode, IInv, TypeOK
<1>2. /\ nodes \in [Program -> SUBSET Node] /\ todo \in [Program -> SUBSET Node]
      /\ \A q \in Program : todo[q] \subseteq nodes[q]
      /\ pc \in [Program -> {"none", "resolve", "build", "admit", "reconcile", "put", "mark", "done", "error", "dead"}]
  BY DEF IInv, TypeOK
<1>3. DOMAIN outcome[p] = nodes[p]
  BY <1>1 DEF IInv, Told
<1>4. outcome[p][n] \in Result /\ part[p] # None
  BY <1>1, <1>2, <1>3 DEF IInv, TypeOK
<1> QED BY <1>1, <1>2, <1>3, <1>4 DEF atWork

\* A record that is written is the program's own; where resumes do not overlap, nobody
\* else is at the node or has marked it.
LEMMA PutStep ==
  ASSUME IInv, NEW p \in Program, NEW n \in Node, PutRecord(p, n), UNCHANGED deployment
  PROVE  IInv'
<1>1. /\ NextNode(p, n, "put", "mark", nodes[p])
      /\ record' = [record EXCEPT ![n] = <<p, outcome[p][n]>>]
      /\ UNCHANGED <<slurm, by, launched, dropped>>
  BY DEF PutRecord
<1>2. /\ pc[p] = "put" /\ atWork(p) /\ n \in todo[p] /\ n \in nodes[p] /\ nodes[p] \subseteq Node
      /\ DOMAIN outcome[p] = nodes[p] /\ outcome[p][n] \in Result /\ part[p] # None
      /\ pc' \in [Program -> {"none", "resolve", "build", "admit", "reconcile", "put", "mark", "done", "error", "dead"}]
      /\ todo' \in [Program -> SUBSET Node] /\ \A q \in Program : todo'[q] \subseteq nodes[q]
      /\ \A q \in Program : q # p => pc'[q] = pc[q] /\ todo'[q] = todo[q]
      /\ \/ pc'[p] = "put" /\ todo'[p] = todo[p] \ {n}
         \/ pc'[p] = "mark" /\ todo[p] = {n} /\ todo'[p] = nodes[p]
      /\ UNCHANGED <<nodes, sample, part, outcome>>
  BY <1>1, LoopStep
<1>3. \A q \in Program : atWork(q)' = atWork(q)
  BY <1>2 DEF atWork
<1>4. record \in [Node -> (Program \cup {None}) \X Result] /\ record'[n] = <<p, outcome[p][n]>>
      /\ \A m \in Node : m # n => record'[m] = record[m]
  BY <1>1 DEF IInv, TypeOK
<1>5. TypeOK'
  <2>1. record' \in [Node -> (Program \cup {None}) \X Result]
    BY <1>1, <1>2, <1>4
  <2>2. \A q \in Program : pc'[q] \in {"build", "admit", "reconcile", "put", "mark"} => part[q] # None
    BY <1>2 DEF IInv, TypeOK
  <2> QED BY <1>1, <1>2, <2>1, <2>2 DEF IInv, TypeOK
<1>6. Apart' /\ Sampled'
  BY <1>2, <1>3 DEF IInv, Apart, Sampled
<1>7. Told'
  BY <1>2 DEF IInv, Told, Blamed
<1>8. ~deployment.overlap => by[n] = None
  <2> SUFFICES ASSUME by[n] # None, ~deployment.overlap PROVE FALSE
    OBVIOUS
  <2> QED BY <1>2 DEF IInv, Marked, MarkedBy
<1>9. Marked'
  <2> SUFFICES ASSUME NEW m \in Node, by[m] # None PROVE MarkedBy(m, by[m])'
    BY <1>1 DEF Marked
  <2>1. MarkedBy(m, by[m]) /\ by[m] # p
    BY <1>2 DEF IInv, Marked, MarkedBy
  <2> QED BY <1>1, <1>2, <1>3, <2>1 DEF MarkedBy
<1>10. Recorded'
  <2> SUFFICES ASSUME "disk" \notin Faults, ~deployment.overlap PROVE Recorded'
    BY DEF Recorded, Faults
  <2>1. \A q \in Program : /\ pc[q] = "put"  => \A m \in nodes[q] \ todo[q] : record[m] = <<q, outcome[q][m]>>
                           /\ pc[q] = "mark" => \A m \in nodes[q] : record[m] = <<q, outcome[q][m]>>
    BY DEF IInv, Recorded
  <2>2. \A m \in Node : by[m] # None => record'[m] = <<by[m], outcome[by[m]][m]>>
    BY <1>4, <1>8 DEF IInv, Recorded
  <2>3. \A q \in Program : q # p /\ pc[q] \in {"put", "mark"} => n \notin nodes[q]
    BY <1>2 DEF IInv, Apart, atWork
  <2>4. nodes \in [Program -> SUBSET Node]
    BY DEF IInv, TypeOK
  <2>5. ASSUME NEW q \in Program, q # p
        PROVE  /\ pc'[q] = "put"  => \A m \in nodes[q] \ todo'[q] : record'[m] = <<q, outcome[q][m]>>
               /\ pc'[q] = "mark" => \A m \in nodes[q] : record'[m] = <<q, outcome[q][m]>>
    BY <1>2, <1>4, <2>1, <2>3, <2>4, <2>5
  <2>6. /\ pc'[p] = "put"  => \A m \in nodes[p] \ todo'[p] : record'[m] = <<p, outcome[p][m]>>
        /\ pc'[p] = "mark" => \A m \in nodes[p] : record'[m] = <<p, outcome[p][m]>>
    BY <1>2, <1>4, <2>1
  <2> QED BY <1>1, <1>2, <2>2, <2>5, <2>6 DEF Recorded
<1>11. Through'
  <2> SUFFICES ASSUME NEW q \in Program, pc'[q] = "mark", NEW m \in nodes[q] \ todo'[q] PROVE Left(q, m)'
    BY <1>2 DEF Through
  <2>1. q # p
    BY <1>2
  <2>2. Left(q, m)
    BY <1>2, <2>1 DEF IInv, Through
  <2> QED BY <1>1, <1>2, <2>2 DEF Left
<1>12. Owned'
  <2>1. p # None /\ pc'[p] # "none" /\ \A m \in Node : record[m][1] # None => record[m][1] \in Program
    BY <1>2, OutcomeAssumption DEF IInv, TypeOK
  <2>2. \A q \in Program : pc[q] # "none" => pc'[q] # "none"
    BY <1>2
  <2>3. \A m \in Node : record[m][1] # None => pc'[record[m][1]] # "none" /\ m \in nodes[record[m][1]]
    BY <2>1, <2>2 DEF IInv, Owned
  <2>4. record'[n][1] = p
    BY <1>4
  <2> QED BY <1>2, <1>4, <2>1, <2>3, <2>4 DEF Owned
<1>13. Kept'
  <2> SUFFICES ASSUME "disk" \notin Faults PROVE Kept'
    BY DEF Kept, Faults
  <2>1. record'[n][1] # None
    BY <1>4, OutcomeAssumption
  <2>2. \A m \in Node : record[m][1] # None => record'[m][1] # None
    BY <1>4, <2>1
  <2>3. \A q \in Program : nodes[q] \subseteq Node
    BY DEF IInv, TypeOK
  <2>4. \A q \in Program : q # p =>
          /\ pc'[q] = "put"  => \A m \in nodes[q] \ todo'[q] : record'[m][1] # None
          /\ pc'[q] = "mark" => \A m \in nodes[q] : record'[m][1] # None
    BY <1>2, <2>2, <2>3 DEF IInv, Kept
  <2>5. /\ pc'[p] = "put"  => \A m \in nodes[p] \ todo'[p] : record'[m][1] # None
        /\ pc'[p] = "mark" => \A m \in nodes[p] : record'[m][1] # None
    BY <1>2, <2>1, <2>2, <2>3 DEF IInv, Kept
  <2>6. \A m \in Node : by[m] # None => record'[m][1] # None
    BY <2>2 DEF IInv, Kept
  <2> QED BY <1>1, <1>2, <2>4, <2>5, <2>6 DEF Kept
<1> QED BY <1>5, <1>6, <1>7, <1>9, <1>10, <1>11, <1>12, <1>13 DEF IInv

\* Where a record cannot be written, the loop goes on to the marks.
LEMMA PutFailsStep ==
  ASSUME IInv, NEW p \in Program, NEW n \in Node, PutFails(p, n), UNCHANGED deployment
  PROVE  IInv'
<1>1. /\ "disk" \in Faults /\ pc[p] = "put" /\ pc' = [pc EXCEPT ![p] = "mark"]
      /\ todo' = [todo EXCEPT ![p] = nodes[p]]
      /\ UNCHANGED <<deployment, slurm, by, nodes, sample, part, outcome, record, launched, dropped>>
  BY DEF PutFails, goes
<1>2. /\ pc'[p] = "mark" /\ todo'[p] = nodes[p]
      /\ \A q \in Program : q # p => pc'[q] = pc[q] /\ todo'[q] = todo[q]
      /\ pc' \in [Program -> {"none", "resolve", "build", "admit", "reconcile", "put", "mark", "done", "error", "dead"}]
      /\ todo' \in [Program -> SUBSET Node]
  BY <1>1 DEF IInv, TypeOK
<1>3. \A q \in Program : atWork(q)' = atWork(q)
  BY <1>1, <1>2 DEF atWork
<1>5. TypeOK'
  <2>1. \A q \in Program : /\ pc'[q] \in {"build", "admit", "reconcile", "put", "mark"} => part[q] # None
                           /\ todo'[q] \subseteq nodes[q]
    BY <1>1, <1>2 DEF IInv, TypeOK
  <2> QED BY <1>1, <1>2, <2>1 DEF IInv, TypeOK
<1>6. Apart' /\ Sampled'
  BY <1>1, <1>2, <1>3 DEF IInv, Apart, Sampled
<1>7. Told'
  BY <1>1, <1>2 DEF IInv, Told, Blamed
<1>8. Marked'
  <2> SUFFICES ASSUME NEW m \in Node, by[m] # None PROVE MarkedBy(m, by[m])'
    BY <1>1 DEF Marked
  <2>1. MarkedBy(m, by[m]) /\ by[m] # p
    BY <1>1 DEF IInv, Marked, MarkedBy
  <2> QED BY <1>1, <1>2, <1>3, <2>1 DEF MarkedBy
<1>9. Recorded' /\ Kept'
  BY <1>1 DEF Recorded, Kept, Faults
<1>10. Through'
  <2> SUFFICES ASSUME NEW q \in Program, pc'[q] = "mark", NEW m \in nodes[q] \ todo'[q] PROVE Left(q, m)'
    BY <1>1 DEF Through
  <2>1. q # p
    BY <1>2
  <2>2. Left(q, m)
    BY <1>2, <2>1 DEF IInv, Through
  <2> QED BY <1>1, <2>2 DEF Left
<1>11. Owned'
  <2>1. \A m \in Node : record[m][1] # None => record[m][1] \in Program
    BY DEF IInv, TypeOK
  <2> QED BY <1>1, <1>2, <2>1 DEF IInv, Owned
<1> QED BY <1>5, <1>6, <1>7, <1>8, <1>9, <1>10, <1>11 DEF IInv

\* A node is marked by the program that is at it, after its record.
LEMMA MarkStep ==
  ASSUME IInv, NEW p \in Program, NEW n \in Node, Mark(p, n), UNCHANGED deployment
  PROVE  IInv' /\ Left(p, n)'
<1>1. /\ NextNode(p, n, "mark", "done", {})
      /\ UNCHANGED <<record, launched>>
      /\ \/ /\ outcome[p][n] # "ready"
            /\ slurm' = [slurm EXCEPT ![n] = stateOf(outcome[p][n])] /\ by' = [by EXCEPT ![n] = p]
            /\ UNCHANGED dropped
         \/ dropped' = [dropped EXCEPT ![p] = @ \cup {n}] /\ UNCHANGED <<slurm, by>>
         \/ outcome[p][n] = "ready" /\ UNCHANGED <<slurm, by, dropped>>
  BY DEF Mark, Update, UpdateFails, marks
<1>2. /\ pc[p] = "mark" /\ atWork(p) /\ n \in todo[p] /\ n \in nodes[p] /\ nodes[p] \subseteq Node
      /\ DOMAIN outcome[p] = nodes[p] /\ outcome[p][n] \in Result /\ part[p] # None
      /\ pc' \in [Program -> {"none", "resolve", "build", "admit", "reconcile", "put", "mark", "done", "error", "dead"}]
      /\ todo' \in [Program -> SUBSET Node] /\ \A q \in Program : todo'[q] \subseteq nodes[q]
      /\ \A q \in Program : q # p => pc'[q] = pc[q] /\ todo'[q] = todo[q]
      /\ \/ pc'[p] = "mark" /\ todo'[p] = todo[p] \ {n}
         \/ pc'[p] = "done" /\ todo[p] = {n} /\ todo'[p] = {}
      /\ UNCHANGED <<nodes, sample, part, outcome>>
  BY <1>1, LoopStep
<1>3. \A q \in Program : (q # p => atWork(q)' = atWork(q)) /\ (atWork(q)' => atWork(q))
  BY <1>2 DEF atWork
<1>4. /\ stateOf(outcome[p][n]) \in {"down", "drain"}
      /\ slurm \in [Node -> {"idle", "CF", "up", "down", "drain"}] /\ by \in [Node -> Program \cup {None}]
      /\ dropped \in [Program -> SUBSET Node]
  BY DEF IInv, TypeOK, stateOf
<1>5. /\ slurm' \in [Node -> {"idle", "CF", "up", "down", "drain"}] /\ by' \in [Node -> Program \cup {None}]
      /\ \A m \in Node : m # n => slurm'[m] = slurm[m] /\ by'[m] = by[m]
      /\ \/ outcome[p][n] # "ready" /\ slurm'[n] = stateOf(outcome[p][n]) /\ by'[n] = p
         \/ /\ outcome[p][n] = "ready" \/ n \in dropped'[p]
            /\ slurm'[n] = slurm[n] /\ by'[n] = by[n]
      /\ dropped' \in [Program -> SUBSET Node] /\ \A q \in Program : dropped[q] \subseteq dropped'[q]
  BY <1>1, <1>4
<1>6. TypeOK'
  <2>1. \A q \in Program : pc'[q] \in {"build", "admit", "reconcile", "put", "mark"} => part[q] # None
    BY <1>2 DEF IInv, TypeOK
  <2> QED BY <1>1, <1>2, <1>5, <2>1 DEF IInv, TypeOK
<1>7. Apart' /\ Sampled'
  BY <1>2, <1>3 DEF IInv, Apart, Sampled
<1>8. Told'
  BY <1>2 DEF IInv, Told, Blamed
<1>9. ~deployment.overlap => \A q \in Program : atWork(q) /\ n \in nodes[q] => q = p
  BY <1>2 DEF IInv, Apart
<1>10. Marked'
  <2> SUFFICES ASSUME NEW m \in Node, by'[m] # None PROVE MarkedBy(m, by[m])'
    BY DEF Marked
  <2>1. CASE m = n /\ by'[n] = p /\ outcome[p][n] # "ready" /\ slurm'[n] = stateOf(outcome[p][n])
    BY <1>2, <1>3, <1>9, <2>1 DEF MarkedBy
  <2>2. CASE by'[m] = by[m] /\ slurm'[m] = slurm[m]
    <3>1. MarkedBy(m, by[m])
      BY <2>2 DEF IInv, Marked
    <3>2. pc'[by[m]] \in {"mark", "done", "dead"}
      BY <1>2, <3>1 DEF MarkedBy
    <3> QED BY <1>2, <1>3, <2>2, <3>1, <3>2 DEF MarkedBy
  <2> QED BY <1>5, <2>1, <2>2
<1>11. Recorded'
  <2> SUFFICES ASSUME "disk" \notin Faults, ~deployment.overlap PROVE Recorded'
    BY DEF Recorded, Faults
  <2>1. /\ \A q \in Program : /\ pc[q] = "put"  => \A m \in nodes[q] \ todo[q] : record[m] = <<q, outcome[q][m]>>
                              /\ pc[q] = "mark" => \A m \in nodes[q] : record[m] = <<q, outcome[q][m]>>
        /\ \A m \in Node : by[m] # None => record[m] = <<by[m], outcome[by[m]][m]>>
    BY DEF IInv, Recorded
  <2>2. \A q \in Program : /\ pc'[q] = "put"  => \A m \in nodes[q] \ todo'[q] : record[m] = <<q, outcome[q][m]>>
                           /\ pc'[q] = "mark" => \A m \in nodes[q] : record[m] = <<q, outcome[q][m]>>
    BY <1>2, <2>1
  <2>3. \A m \in Node : by'[m] # None => record[m] = <<by'[m], outcome[by'[m]][m]>>
    BY <1>2, <1>5, <2>1
  <2> QED BY <1>1, <1>2, <2>2, <2>3 DEF Recorded
<1>12. Left(p, n)'
  BY <1>2, <1>4, <1>5 DEF Left
<1>13. Through'
  <2> SUFFICES ASSUME NEW q \in Program, pc'[q] = "mark", NEW m \in nodes[q] \ todo'[q]
               PROVE  Left(q, m)'
    BY <1>2 DEF Through
  <2>1. CASE q = p /\ m = n
    BY <1>12, <2>1
  <2>2. CASE q # p \/ m # n
    <3>1. pc[q] = "mark" /\ m \in nodes[q] \ todo[q] /\ m \in Node
      BY <1>2, <2>2 DEF IInv, TypeOK
    <3>2. Left(q, m)
      BY <3>1 DEF IInv, Through
    <3>3. slurm[m] # "CF" => slurm'[m] # "CF"
      BY <1>4, <1>5, <3>1
    <3> QED BY <1>2, <1>5, <3>2, <3>3 DEF Left
  <2> QED BY <2>1, <2>2
<1>14. Owned'
  <2>1. \A m \in Node : record[m][1] # None => record[m][1] \in Program
    BY DEF IInv, TypeOK
  <2>2. \A q \in Program : pc[q] # "none" => pc'[q] # "none"
    BY <1>2
  <2> QED BY <1>1, <1>2, <2>1, <2>2 DEF IInv, Owned
<1>15. Kept'
  <2> SUFFICES ASSUME "disk" \notin Faults PROVE Kept'
    BY DEF Kept, Faults
  <2>1. \A m \in nodes[p] : record[m][1] # None
    BY <1>2 DEF IInv, Kept
  <2>2. \A m \in Node : by'[m] # None => record[m][1] # None
    BY <1>2, <1>5, <2>1 DEF IInv, Kept
  <2>3. \A q \in Program : /\ pc'[q] = "put"  => \A m \in nodes[q] \ todo'[q] : record[m][1] # None
                           /\ pc'[q] = "mark" => \A m \in nodes[q] : record[m][1] # None
    BY <1>2 DEF IInv, Kept
  <2> QED BY <1>1, <1>2, <2>2, <2>3 DEF Kept
<1> QED BY <1>6, <1>7, <1>8, <1>10, <1>11, <1>12, <1>13, <1>14, <1>15 DEF IInv

\* Every step keeps the invariant.
LEMMA StepIInv == IInv /\ [Next]_vars => IInv'
<1> SUFFICES ASSUME IInv, [Next]_vars PROVE IInv'
  OBVIOUS
<1>1. CASE UNCHANGED vars
  BY <1>1 DEF vars, proc, IInv, TypeOK, Apart, Sampled, Told, Blamed, Marked, MarkedBy, Owned, Kept, Recorded, Through, Left,
              Faults, atWork
<1>2. ASSUME UNCHANGED deployment, NEW n \in Node, CheckIn(n) \/ ResumeTimeout(n) \/ BackToIdle(n) PROVE IInv'
  BY <1>2, SlurmStep
<1>3. ASSUME UNCHANGED deployment, NEW p \in Program, NEW ns \in SUBSET Node, NEW first \in Node,
             StartResume(p, ns, first)
      PROVE  IInv'
  BY <1>3, StartStep
<1>4. ASSUME UNCHANGED deployment, NEW p \in Program, Step(p) PROVE IInv'
  <2>0. part \in [Program -> Partition \cup {None}] /\ launched \subseteq Program
    BY DEF IInv, TypeOK
  <2>1. CASE Crash(p)
    BY <1>4, <2>0, <2>1, GoesOn DEF Crash, IInv, TypeOK
  <2>2. CASE resolvePartition(p)
    <3>1. candidates(p) \subseteq Partition
      <4>1. sample[p] \in Node
        BY <2>2 DEF resolvePartition, goes, IInv, Sampled
      <4> QED BY <4>1, OutcomeAssumption DEF candidates, ResolveForNode
    <3>2. PICK where \in {"build", "error"} :
            /\ pc[p] = "resolve" /\ pc' = [pc EXCEPT ![p] = where]
            /\ where = "build" => \E q \in candidates(p) : part' = [part EXCEPT ![p] = q]
            /\ where = "error" => part' = part
      BY <2>2 DEF resolvePartition, goes
    <3>3. /\ part' \in [Program -> Partition \cup {None}] /\ \A q \in Program : q # p => part'[q] = part[q]
          /\ where = "build" => part'[p] # None
      <4>1. None \notin Partition
        BY OutcomeAssumption
      <4>2. CASE where = "error"
        BY <2>0, <3>2, <4>2
      <4>3. CASE where = "build"
        <5> PICK q \in candidates(p) : part' = [part EXCEPT ![p] = q]
          BY <3>2, <4>3
        <5> QED BY <2>0, <3>1, <4>1
      <4> QED BY <3>2, <4>2, <4>3
    <3>4. UNCHANGED <<deployment, slurm, by, nodes, sample, outcome, todo, record, launched, dropped>> /\ atWork(p)
      BY <1>4, <2>2, <3>2 DEF resolvePartition, atWork
    <3> QED BY <2>0, <3>2, <3>3, <3>4, GoesOn
  <2>3. CASE buildCohort(p)
    <3>1. PICK where \in {"admit", "error"} : pc[p] = "build" /\ pc' = [pc EXCEPT ![p] = where]
      BY <2>3 DEF buildCohort, goes
    <3>2. /\ UNCHANGED <<deployment, slurm, by, nodes, sample, part, outcome, todo, record, launched, dropped>> /\ atWork(p)
          /\ part[p] # None
      BY <1>4, <2>3, <3>1 DEF buildCohort, atWork, IInv, TypeOK
    <3> QED BY <2>0, <3>1, <3>2, GoesOn
  <2>4. CASE Admitted(p)
    <3>1. /\ pc[p] = "admit" /\ pc' = [pc EXCEPT ![p] = "reconcile"] /\ launched' = launched \cup {p}
          /\ UNCHANGED <<deployment, slurm, by, nodes, sample, part, outcome, todo, record, dropped>>
      BY <1>4, <2>4 DEF Admitted, goes
    <3>2. atWork(p) /\ part[p] # None
      BY <3>1 DEF atWork, IInv, TypeOK
    <3> QED BY <2>0, <3>1, <3>2, GoesOn
  <2>5. CASE recordRefusal(p)
    <3>1. AllTerminal(p) \in [nodes[p] -> Result] /\ \A n \in nodes[p] : AllTerminal(p)[n] = "terminal"
      BY DEF AllTerminal, Result
    <3> QED BY <1>4, <2>5, <3>1, EndsStep DEF recordRefusal
  <2>6. CASE ReconcileReady(p)
    <3> QED BY <1>4, <2>6, EndsStep DEF ReconcileReady, Result
  <2>7. ASSUME NEW failed \in SUBSET Node, ReconcileFails(p, failed) PROVE IInv'
    <3> DEFINE out == [n \in nodes[p] |-> IF n \in failed THEN "terminal" ELSE "cancelled"]
    <3>1. out \in [nodes[p] -> Result] /\ \E m \in nodes[p] : out[m] = "terminal"
      BY <2>7 DEF ReconcileFails, Result
    <3>2. Ends(p, "reconcile", out)
      BY <2>7 DEF ReconcileFails
    <3> QED BY <1>4, <3>1, <3>2, EndsStep
  <2>8. ASSUME NEW n \in Node, PutRecord(p, n) \/ PutFails(p, n) \/ Mark(p, n) PROVE IInv'
    BY <1>4, <2>8, PutStep, PutFailsStep, MarkStep
  <2> QED BY <1>4, <2>1, <2>2, <2>3, <2>4, <2>5, <2>6, <2>7, <2>8 DEF Step
<1> QED BY <1>1, <1>2, <1>3, <1>4 DEF Next

\* The inductive invariant holds in every reachable state.
THEOREM Invariance == Spec => []IInv
BY InitIInv, StepIInv, PTL DEF Spec

\* A node the bridge marked has a record of a resume of the node; its own, that
\* explains the state, and a culprit's for a drained one, where resumes of a node do
\* not overlap (finish: PutOutcome before writeback).
THEOREM Explained == Spec => []StateIsExplained
<1>1. IInv => StateIsExplained
  <2> SUFFICES ASSUME IInv, "disk" \notin Faults, NEW n \in Node, by[n] # None
               PROVE  /\ record[n][1] \in Program /\ n \in nodes[record[n][1]]
                      /\ ~deployment.overlap =>
                           /\ record[n] = <<by[n], IF slurm[n] = "down" THEN "terminal" ELSE "cancelled">>
                           /\ slurm[n] = "drain" =>
                                \E m \in nodes[by[n]] : outcome[by[n]][m] = "terminal"
                                                        /\ (by[m] = by[n] => record[m] = <<by[n], "terminal">>)
    BY DEF StateIsExplained
  <2>0. record[n][1] \in Program /\ n \in nodes[record[n][1]]
    BY DEF IInv, Kept, Owned, TypeOK
  <2> SUFFICES ASSUME ~deployment.overlap
               PROVE  /\ record[n] = <<by[n], IF slurm[n] = "down" THEN "terminal" ELSE "cancelled">>
                      /\ slurm[n] = "drain" =>
                           \E m \in nodes[by[n]] : outcome[by[n]][m] = "terminal"
                                                   /\ (by[m] = by[n] => record[m] = <<by[n], "terminal">>)
    BY <2>0
  <2>1. MarkedBy(n, by[n])
    BY DEF IInv, Marked
  <2>2. PICK p \in Program : p = by[n]
    BY <2>1 DEF MarkedBy
  <2>3. /\ n \in nodes[p] /\ DOMAIN outcome[p] = nodes[p] /\ outcome[p][n] # "ready"
        /\ slurm[n] = stateOf(outcome[p][n])
    BY <2>1, <2>2 DEF MarkedBy
  <2>4. outcome[p][n] \in {"terminal", "cancelled"} /\ nodes[p] \subseteq Node
    BY <2>3 DEF IInv, TypeOK, Result
  <2>5. p # None
    BY <2>2
  <2>6. \A m \in Node : by[m] = p => record[m] = <<p, outcome[p][m]>>
    BY <2>5 DEF IInv, Recorded
  <2>7. record[n] = <<p, IF slurm[n] = "down" THEN "terminal" ELSE "cancelled">>
    BY <2>2, <2>3, <2>4, <2>6 DEF stateOf
  <2>8. ASSUME slurm[n] = "drain"
        PROVE  \E m \in nodes[p] : outcome[p][m] = "terminal" /\ (by[m] = p => record[m] = <<p, "terminal">>)
    <3>1. PICK m \in nodes[p] : outcome[p][m] = "terminal"
      BY <2>3, <2>4, <2>8 DEF stateOf, IInv, Told, Blamed
    <3> QED BY <2>4, <2>6, <3>1
  <2> QED BY <2>2, <2>7, <2>8
<1> QED BY <1>1, Invariance, PTL

\* Only a mark ends a resume that was marking.
LEMMA DoneByMark ==
  ASSUME IInv, Next, NEW p \in Program, pc[p] = "mark", pc'[p] = "done"
  PROVE  \E m \in Node : Mark(p, m) /\ UNCHANGED deployment
<1>0. UNCHANGED deployment /\ pc' # pc /\ pc \in [Program -> {"none", "resolve", "build", "admit", "reconcile", "put", "mark", "done", "error", "dead"}]
  BY DEF Next, IInv, TypeOK
<1>1. PICK q \in Program : Step(q) \/ \E ns \in SUBSET Node, first \in Node : StartResume(q, ns, first)
  BY <1>0 DEF Next, CheckIn, ResumeTimeout, BackToIdle, proc
<1>2. CASE \E ns \in SUBSET Node, first \in Node : StartResume(q, ns, first)
  BY <1>0, <1>2 DEF StartResume, goes
<1>3. CASE Crash(q) \/ resolvePartition(q) \/ buildCohort(q) \/ Admitted(q)
  BY <1>0, <1>3 DEF Crash, resolvePartition, buildCohort, Admitted, goes
<1>4. CASE recordRefusal(q) \/ ReconcileReady(q) \/ \E failed \in SUBSET Node : ReconcileFails(q, failed)
  BY <1>0, <1>4 DEF recordRefusal, ReconcileReady, ReconcileFails, Ends, goes
<1>5. ASSUME NEW n \in Node, PutRecord(q, n) \/ PutFails(q, n) PROVE FALSE
  BY <1>0, <1>5 DEF PutRecord, PutFails, NextNode, goes
<1>6. ASSUME NEW n \in Node, Mark(q, n) PROVE q = p
  BY <1>0, <1>6 DEF Mark, NextNode
<1> QED BY <1>0, <1>1, <1>2, <1>3, <1>4, <1>5, <1>6 DEF Step

\* A step with which a resume ends leaves a failed node configuring only where its
\* own update failed or it was resumed again (finish: writeback at once, resume.go:132,
\* which goes on after an error).
THEOREM FailedAreMarked == Spec => FailedLeaveCF
<1> DEFINE Leaves == \A p \in Program : goes(p, "mark", "done") => \A n \in nodes[p] :
                       \/ outcome[p][n] = "ready" \/ slurm'[n] # "CF" \/ n \in dropped'[p]
                       \/ deployment.overlap /\ \E q \in Program \ {p} : n \in nodes[q]
<1>1. IInv /\ [Next]_vars => [Leaves]_vars
  <2> SUFFICES ASSUME IInv, Next, NEW p \in Program, goes(p, "mark", "done"), NEW n \in nodes[p]
               PROVE  \/ outcome[p][n] = "ready" \/ slurm'[n] # "CF" \/ n \in dropped'[p]
                      \/ deployment.overlap /\ \E q \in Program \ {p} : n \in nodes[q]
    OBVIOUS
  <2>0. pc[p] = "mark" /\ pc'[p] = "done" /\ nodes[p] \subseteq Node
    BY DEF goes, IInv, TypeOK
  <2>1. PICK m \in Node : Mark(p, m) /\ UNCHANGED deployment
    BY <2>0, DoneByMark
  <2>2. NextNode(p, m, "mark", "done", {})
    BY <2>1 DEF Mark
  <2>3. todo[p] = {m} /\ m \in nodes[p] /\ UNCHANGED <<nodes, outcome>>
    BY <2>0, <2>2, LoopStep
  <2>4. CASE n = m
    <3>1. Left(p, n)'
      BY <2>1, <2>4, MarkStep
    <3> QED BY <2>1, <2>3, <3>1 DEF Left
  <2>5. CASE n # m
    <3>1. n \in nodes[p] \ todo[p] /\ n \in Node
      BY <2>0, <2>3, <2>5
    <3>2. slurm'[n] = slurm[n] /\ dropped[p] \subseteq dropped'[p]
      BY <2>1, <2>5, <3>1 DEF Mark, Update, UpdateFails, IInv, TypeOK
    <3>3. Left(p, n)
      BY <2>0, <3>1 DEF IInv, Through
    <3> QED BY <3>2, <3>3 DEF Left
  <2> QED BY <2>4, <2>5
<1> QED BY <1>1, Invariance, PTL DEF Spec, FailedLeaveCF
=============================================================================
