--------------------------- MODULE SpendHoldsProofs ---------------------------
(***************************************************************************)
(* What SpendHolds promises for any number of nodes, programs and          *)
(* generations, in every deployment it may be set up with.                 *)
(*                                                                         *)
(* The invariant has a part that holds in all deployments (who is where,   *)
(* and whose hold a file is), a part for programs that take turns, a part  *)
(* for a disk and describes one can rely on (Calm), and a part for the     *)
(* deployments in which nothing fails (Orderly).                           *)
(***************************************************************************)
EXTENDS SpendHolds, TLAPS

Closing == {"get", "reconcile", "delete"}

\* A program works on the nodes of its hostlist.
WorkInv == \A p \in Program :
  /\ \A item \in todo[p] : item[2] \in nodes[p]
  /\ pc[p] \in Closing => cur[p] \in nodes[p]
  /\ pc[p] = "admit" => todo[p] = Fleet(p)

\* What ran was launched by a program that is past its admission.
RanInv == \A r \in ran : pc[r[1]] \notin {"idle", "admit", "persist"}

\* q has put its hold for n, and will not put it again.
HasPut(q, n) ==
  /\ n \in nodes[q] /\ pc[q] \notin {"idle", "admit"}
  /\ pc[q] = "persist" => <<q, n>> \notin todo[q]

PutInv == \A n \in Node : \A q \in Program : holds[n] = q => HasPut(q, n)

\* What is about to be deleted has been charged.
ChargeInv == \A p \in Program : pc[p] = "delete" => charges[<<read[p], cur[p]>>] > 0

\* No two programs are at a node, and what one has read of its hold stays true.
TurnInv == ~Overlap =>
  /\ \A p, q \in Program : active(p) /\ active(q) /\ nodes[p] \cap nodes[q] # {} => p = q
  /\ \A p \in Program : pc[p] \in {"reconcile", "delete"} => holds[cur[p]] = read[p]

Calm == Faults \subseteq {"crash", "net"} /\ ~Overlap /\ generation = 1

\* The hold is there before the launch, and goes when the run is gone.
CalmInv == Calm =>
  /\ \A r, s \in runs : r[2] = s[2] => r = s
  /\ \A p \in Program : \A n \in nodes[p] :
       /\ pc[p] = "persist" /\ <<p, n>> \notin todo[p] => holds[n] = p
       /\ pc[p] = "launch" /\ verdict[p] = "allowed" => holds[n] = p
  /\ \A p \in Program : pc[p] \in Closing => RunsOf(cur[p]) = {}
  /\ \A r \in runs : verdict[r[1]] = "allowed" => holds[r[2]] # None

\* A suspend is through with n.
Through(p, n) ==
  /\ pc[p] \in Closing \cup {"teardown"} /\ (n = cur[p] => pc[p] = "teardown")
  /\ \A item \in todo[p] : item[2] # n

\* A node that is down, and nobody is at it, has no hold.
DownInv == Orderly => \A n \in Node :
  ~on[n] /\ (\A p \in Program : active(p) => n \notin nodes[p]) => holds[n] = None

\* A node to be resumed, or suspended, has no hold.
EmptyInv == Orderly => \A p \in Program : \A n \in nodes[p] :
  /\ pc[p] \in {"admit", "persist", "launch"} => on[n]
  /\ pc[p] = "admit" \/ (pc[p] = "persist" /\ <<p, n>> \in todo[p]) => holds[n] = None
  /\ Through(p, n) => holds[n] = None

\* A hold is charged once: then it is at its deletion, or gone for good.
OnceInv == Orderly =>
  /\ \A h \in Program \X Node : charges[h] <= 1
  /\ \A q \in Program, n \in Node : charges[<<q, n>>] > 0 =>
       HasPut(q, n) /\ (holds[n] = q => \E p \in Program : pc[p] = "delete" /\ cur[p] = n)

\* What ran has its hold, or its charge.
OwedInv == Orderly =>
  \A r \in ran : verdict[r[1]] = "allowed" => charges[r] > 0 \/ holds[r[2]] = r[1]

IInv ==
  /\ TypeOK /\ WorkInv /\ RanInv /\ PutInv /\ ChargeInv
  /\ TurnInv /\ CalmInv /\ DownInv /\ EmptyInv /\ OnceInv /\ OwedInv

-----------------------------------------------------------------------------
(* The invariant is inductive: one lemma per action, in it one step per     *)
(* part.                                                                    *)

\* An operator's apply: from then on nothing is Calm, or Orderly.
LEMMA ApplyInv ==
  ASSUME IInv, Apply, UNCHANGED deployment
  PROVE  IInv'
<1> USE DEF IInv
<1>1. TypeOK'
  BY HoldsAssumption DEF Apply, program, TypeOK, Deployment
<1>2. WorkInv'
  BY DEF Apply, program, WorkInv, Fleet
<1>3. RanInv'
  BY DEF Apply, program, RanInv
<1>4. PutInv'
  BY DEF Apply, program, PutInv, HasPut
<1>5. ChargeInv'
  BY DEF Apply, program, ChargeInv
<1>6. TurnInv'
  BY DEF Apply, program, TurnInv, active, Overlap
<1>7. CalmInv'
  BY DEF Apply, TypeOK, CalmInv, Calm
<1>8. DownInv'
  BY DEF Apply, TypeOK, DownInv, Orderly
<1>9. EmptyInv'
  <2>1. ~Orderly'
    BY DEF Apply, Orderly, TypeOK
  <2> QED BY <2>1 DEF EmptyInv
<1>10. OnceInv'
  BY DEF Apply, TypeOK, OnceInv, Orderly
<1>11. OwedInv'
  BY DEF Apply, TypeOK, OwedInv, Orderly
<1> QED BY <1>1, <1>2, <1>3, <1>4, <1>5, <1>6, <1>7, <1>8, <1>9, <1>10, <1>11

\* A program dies where it stands.
LEMMA CrashInv ==
  ASSUME IInv, NEW p \in Program, Crash(p), UNCHANGED deployment
  PROVE  IInv'
<1> USE DEF IInv
<1>1. TypeOK'
  BY DEF Crash, TypeOK
<1>2. WorkInv'
  BY DEF Crash, WorkInv, Closing, Fleet
<1>3. RanInv'
  BY DEF Crash, RanInv
<1>4. PutInv'
  BY DEF Crash, PutInv, HasPut
<1>5. ChargeInv'
  BY DEF Crash, ChargeInv
<1>6. TurnInv'
  BY DEF Crash, active, TurnInv, Overlap
<1>7. CalmInv'
  BY DEF Crash, Faults, CalmInv, Calm, Overlap, Closing, RunsOf
<1>8. DownInv'
  BY DEF Crash, Faults, DownInv, Orderly
<1>9. EmptyInv'
  <2>1. ~Orderly'
    BY DEF Crash, Orderly, Faults
  <2> QED BY <2>1 DEF EmptyInv
<1>10. OnceInv'
  BY DEF Crash, Faults, OnceInv, Orderly
<1>11. OwedInv'
  BY DEF Crash, Faults, OwedInv, Orderly
<1> QED BY <1>1, <1>2, <1>3, <1>4, <1>5, <1>6, <1>7, <1>8, <1>9, <1>10, <1>11

\* checkAdmission has its answer, whatever it is.
LEMMA AdmissionInv ==
  ASSUME IInv, NEW p \in Program, NEW v, NEW at,
         \/ v = "allowed" /\ at = "persist"
         \/ v \in {"free", "refused", "error"} /\ at \in {"launch", "done"},
         Admission(p, v, at), UNCHANGED deployment
  PROVE  IInv'
<1> USE DEF IInv
<1>1. TypeOK'
  BY DEF Admission, TypeOK
<1>2. WorkInv'
  BY DEF Admission, WorkInv, Closing, Fleet
<1>3. RanInv'
  BY DEF Admission, RanInv
<1>4. PutInv'
  BY DEF Admission, PutInv, HasPut
<1>5. ChargeInv'
  BY DEF Admission, ChargeInv
<1>6. TurnInv'
  BY DEF Admission, TurnInv, active, Overlap
<1>7. CalmInv'
  <2> SUFFICES ASSUME Calm PROVE CalmInv'
    BY DEF Admission, CalmInv, Calm, Faults, Overlap
  <2>1. \A r \in runs : pc[r[1]] # "admit" /\ r \in Program \X Node
    BY DEF Admission, RanInv, TypeOK
  <2>2. \A r \in runs : verdict'[r[1]] = verdict[r[1]]
    BY <2>1 DEF Admission, TypeOK
  <2>3. ASSUME NEW q \in Program, NEW n \in nodes[q]
        PROVE  /\ pc'[q] = "persist" /\ <<q, n>> \notin todo[q] => holds[n] = q
               /\ pc'[q] = "launch" /\ verdict'[q] = "allowed" => holds[n] = q
    <3>1. CASE q # p
      BY <3>1 DEF Admission, CalmInv, TypeOK
    <3>2. CASE q = p
      <4>1. pc'[p] = at /\ verdict'[p] = v /\ todo[p] = Fleet(p)
        BY DEF Admission, TypeOK, WorkInv
      <4>2. <<p, n>> \in Fleet(p)
        BY <3>2 DEF Fleet
      <4> QED BY <3>2, <4>1, <4>2
    <3> QED BY <3>1, <3>2
  <2>4. ASSUME NEW q \in Program, pc'[q] \in Closing PROVE RunsOf(cur[q]) = {}
    BY <2>4 DEF Admission, CalmInv, Closing, TypeOK
  <2> QED BY <2>2, <2>3, <2>4 DEF Admission, CalmInv, RunsOf
<1>8. DownInv'
  <2>1. ASSUME Orderly, NEW n \in Node, ~on[n], \A q \in Program : active(q)' => n \notin nodes[q]
        PROVE  holds[n] = None
    <3>1. n \notin nodes[p]
      BY <2>1 DEF Admission, EmptyInv
    <3>2. \A q \in Program : active(q) => n \notin nodes[q]
      BY <2>1, <3>1 DEF Admission, active, TypeOK
    <3> QED BY <2>1, <3>2 DEF DownInv
  <2> QED BY <2>1 DEF Admission, DownInv, Orderly, Faults, Overlap, active
<1>9. EmptyInv'
  <2>1. ASSUME Orderly, NEW q \in Program, NEW n \in nodes[q]
        PROVE  /\ pc'[q] \in {"admit", "persist", "launch"} => on[n]
               /\ pc'[q] = "admit" \/ (pc'[q] = "persist" /\ <<q, n>> \in todo[q])
                    => holds[n] = None
               /\ Through(q, n)' => holds[n] = None
    <3>1. CASE q # p
      BY <2>1, <3>1 DEF Admission, EmptyInv, Through, TypeOK
    <3>2. CASE q = p
      BY <2>1, <3>2 DEF Admission, EmptyInv, TypeOK, Through, Closing
    <3> QED BY <3>1, <3>2
  <2> QED BY <2>1 DEF Admission, EmptyInv, Orderly, Faults, Overlap
<1>10. OnceInv'
  BY DEF Admission, OnceInv, Orderly, Faults, Overlap, HasPut
<1>11. OwedInv'
  <2>1. \A r \in ran : verdict'[r[1]] = verdict[r[1]]
    BY DEF Admission, RanInv, TypeOK
  <2> QED BY <2>1 DEF Admission, OwedInv, Orderly, Faults, Overlap
<1> QED BY <1>1, <1>2, <1>3, <1>4, <1>5, <1>6, <1>7, <1>8, <1>9, <1>10, <1>11

\* persistHolds, one file: it may overwrite, or fail.
LEMMA PersistInv ==
  ASSUME IInv, NEW p \in Program, NEW n \in Node, PersistHold(p, n), UNCHANGED deployment
  PROVE  IInv'
<1> USE DEF IInv
<1>a. /\ pc[p] = "persist" /\ <<p, n>> \in todo[p] /\ n \in nodes[p]
      /\ pc'[p] \in {"persist", "launch"}
      /\ \A q \in Program : q # p => pc'[q] = pc[q] /\ todo'[q] = todo[q]
      /\ pc'[p] = "persist" => todo'[p] = todo[p] \ {<<p, n>>}
      /\ pc'[p] = "launch" => todo[p] = {<<p, n>>}
  BY DEF PersistHold, Done, WorkInv, TypeOK
<1>b. /\ \A m \in Node : m # n => holds'[m] = holds[m]
      /\ holds'[n] = p \/ ("disk" \in Faults /\ holds'[n] = holds[n])
      /\ p # None
  BY HoldsAssumption DEF PersistHold, TypeOK
<1>c. UNCHANGED <<generation, on, nodes, gen, cur, read, verdict, runs, charges, ran>>
  BY DEF PersistHold
<1>d. n \in Node /\ \A q \in Program : nodes[q] \subseteq Node
  BY DEF TypeOK
<1>e. ASSUME ~Overlap, NEW q \in Program, active(q), n \in nodes[q] PROVE q = p
  BY <1>a, <1>e DEF TurnInv, active
<1>1. TypeOK'
  BY DEF PersistHold, Done, Fleet, TypeOK
<1>2. WorkInv'
  BY DEF PersistHold, Done, Fleet, WorkInv, Closing
<1>3. RanInv'
  BY DEF PersistHold, Done, RanInv
<1>4. PutInv'
  <2> SUFFICES ASSUME NEW m \in Node, NEW q \in Program, holds'[m] = q PROVE HasPut(q, m)'
    BY DEF PutInv
  <2>1. CASE q = p /\ m = n
    BY <1>a, <1>c, <2>1 DEF HasPut
  <2>2. CASE ~(q = p /\ m = n)
    <3>1. HasPut(q, m)
      BY <1>b, <2>2 DEF PutInv
    <3> QED BY <1>a, <1>c, <3>1 DEF HasPut
  <2> QED BY <2>1, <2>2
<1>5. ChargeInv'
  BY DEF PersistHold, Done, ChargeInv
<1>6. TurnInv'
  <2> SUFFICES ASSUME ~Overlap PROVE TurnInv'
    BY DEF TurnInv, Overlap
  <2>1. \A q \in Program : active(q)' <=> active(q)
    BY <1>a DEF active
  <2>2. ASSUME NEW q \in Program, pc'[q] \in {"reconcile", "delete"} PROVE holds'[cur[q]] = read[q]
    <3>1. q # p /\ pc[q] \in {"reconcile", "delete"} /\ active(q) /\ cur[q] \in nodes[q]
      BY <1>a, <2>2 DEF active, WorkInv, Closing
    <3>2. cur[q] # n /\ cur[q] \in Node
      BY <1>d, <1>e, <3>1
    <3> QED BY <1>b, <3>1, <3>2 DEF TurnInv
  <2> QED BY <1>c, <2>1, <2>2 DEF TurnInv
<1>7. CalmInv'
  <2> SUFFICES ASSUME Calm PROVE CalmInv'
    BY <1>c DEF CalmInv, Calm, Faults, Overlap
  <2>1. holds'[n] = p /\ ~Overlap
    BY <1>b DEF Calm
  <2>2. ASSUME NEW q \in Program, NEW m \in nodes[q]
        PROVE  /\ pc'[q] = "persist" /\ <<q, m>> \notin todo'[q] => holds'[m] = q
               /\ pc'[q] = "launch" /\ verdict[q] = "allowed" => holds'[m] = q
    <3>1. CASE q # p
      <4>1. active(q) => m # n
        BY <1>e, <2>1, <3>1
      <4> QED BY <1>a, <1>b, <1>d, <3>1, <4>1 DEF CalmInv, active
    <3>2. CASE q = p
      <4>1. CASE m = n
        BY <2>1, <3>2, <4>1
      <4>2. CASE m # n
        BY <1>a, <1>b, <1>d, <3>2, <4>2 DEF CalmInv
      <4> QED BY <4>1, <4>2
    <3> QED BY <3>1, <3>2
  <2>3. ASSUME NEW q \in Program, pc'[q] \in Closing PROVE RunsOf(cur[q]) = {}
    BY <1>a, <2>3 DEF CalmInv, Closing
  <2>4. \A r \in runs : r[2] \in Node
    BY DEF TypeOK
  <2>5. \A r \in runs : verdict[r[1]] = "allowed" => holds'[r[2]] # None
    BY <1>b, <2>1, <2>4 DEF CalmInv
  <2> QED BY <1>c, <2>2, <2>3, <2>5 DEF CalmInv, RunsOf
<1>8. DownInv'
  <2>1. ASSUME Orderly, NEW m \in Node, ~on[m], \A q \in Program : active(q)' => m \notin nodes[q]
        PROVE  holds'[m] = None
    <3>1. \A q \in Program : active(q) => m \notin nodes[q]
      BY <1>a, <2>1 DEF active
    <3>2. m # n
      BY <1>a, <3>1 DEF active
    <3> QED BY <1>b, <2>1, <3>1, <3>2 DEF DownInv
  <2> QED BY <1>c, <2>1 DEF DownInv, Orderly, Faults, Overlap
<1>9. EmptyInv'
  <2>1. ASSUME Orderly, NEW q \in Program, NEW m \in nodes[q]
        PROVE  /\ pc'[q] \in {"admit", "persist", "launch"} => on[m]
               /\ pc'[q] = "admit" \/ (pc'[q] = "persist" /\ <<q, m>> \in todo'[q])
                    => holds'[m] = None
               /\ Through(q, m)' => holds'[m] = None
    <3>1. CASE q # p
      <4>1. active(q) => m # n
        BY <1>e, <2>1, <3>1 DEF Orderly
      <4>2. /\ pc'[q] = pc[q] /\ todo'[q] = todo[q] /\ (Through(q, m)' => Through(q, m))
            /\ (Through(q, m) => active(q))
        BY <1>a, <1>c, <3>1 DEF Through, Closing, active
      <4> QED BY <1>b, <1>d, <2>1, <4>1, <4>2 DEF EmptyInv, active
    <3>2. CASE q = p
      BY <1>a, <1>b, <1>d, <2>1, <3>2 DEF EmptyInv, Through, Closing
    <3> QED BY <3>1, <3>2
  <2> QED BY <1>c, <2>1 DEF EmptyInv, Orderly, Faults, Overlap
<1>10. OnceInv'
  BY DEF PersistHold, Done, Faults, TypeOK, OnceInv, Orderly, Overlap, HasPut
<1>11. OwedInv'
  <2>1. ASSUME Orderly, NEW r \in ran, verdict[r[1]] = "allowed"
        PROVE  charges[r] > 0 \/ holds'[r[2]] = r[1]
    <3>1. r[1] \in Program /\ r[2] \in Node /\ r[1] # None
      BY HoldsAssumption DEF TypeOK
    <3>2. holds[n] = None
      BY <1>a, <2>1 DEF EmptyInv
    <3>3. charges[r] > 0 \/ holds[r[2]] = r[1]
      BY <2>1 DEF OwedInv
    <3> QED BY <1>b, <3>1, <3>2, <3>3
  <2> QED BY <1>c, <2>1 DEF OwedInv, Orderly, Faults, Overlap
<1> QED BY <1>1, <1>2, <1>3, <1>4, <1>5, <1>6, <1>7, <1>8, <1>9, <1>10, <1>11

\* A node is launched, or not; the hold is there before.
LEMMA LaunchInv ==
  ASSUME IInv, NEW p \in Program, NEW n \in Node, LaunchNode(p, n), UNCHANGED deployment
  PROVE  IInv'
<1> USE DEF IInv
<1>a. /\ pc[p] = "launch" /\ <<p, n>> \in todo[p] /\ n \in nodes[p] /\ n \in Node
      /\ pc'[p] \in {"launch", "done"}
      /\ \A q \in Program : q # p => pc'[q] = pc[q] /\ todo'[q] = todo[q]
  BY DEF LaunchNode, Done, WorkInv, TypeOK
<1>b. \/ /\ runs' = {r \in runs : r[2] # n \/ gen[r[1]] # gen[p]} \cup {<<p, n>>}
         /\ ran' = ran \cup {<<p, n>>}
      \/ UNCHANGED <<runs, ran>>
  BY DEF LaunchNode
<1>c. UNCHANGED <<generation, on, nodes, gen, cur, read, holds, verdict, charges>>
  BY DEF LaunchNode
<1>1. TypeOK'
  BY DEF LaunchNode, Done, TypeOK
<1>2. WorkInv'
  BY DEF LaunchNode, Done, WorkInv, Closing, Fleet
<1>3. RanInv'
  BY DEF LaunchNode, Done, RanInv
<1>4. PutInv'
  BY DEF LaunchNode, Done, PutInv, HasPut
<1>5. ChargeInv'
  BY DEF LaunchNode, Done, ChargeInv
<1>6. TurnInv'
  BY DEF LaunchNode, Done, TurnInv, active, Overlap
<1>7. CalmInv'
  <2> SUFFICES ASSUME Calm PROVE CalmInv'
    BY <1>c DEF CalmInv, Calm, Faults, Overlap
  <2>1. \A r \in runs : r \in Program \X Node /\ gen[r[1]] = 1 /\ gen[p] = 1
    BY DEF Calm, TypeOK
  <2>2. runs' = {r \in runs : r[2] # n} \cup {<<p, n>>} \/ runs' = runs
    BY <1>b, <2>1
  <2>3. \A r, s \in runs' : r[2] = s[2] => r = s
    BY <2>2 DEF CalmInv
  <2>4. ASSUME NEW q \in Program, NEW m \in nodes[q]
        PROVE  /\ pc'[q] = "persist" /\ <<q, m>> \notin todo'[q] => holds[m] = q
               /\ pc'[q] = "launch" /\ verdict[q] = "allowed" => holds[m] = q
    <3>1. CASE q = p
      BY <1>a, <3>1 DEF CalmInv
    <3>2. CASE q # p
      BY <1>a, <3>2 DEF CalmInv
    <3> QED BY <3>1, <3>2
  <2>5. ASSUME NEW q \in Program, pc'[q] \in Closing PROVE \A r \in runs' : r[2] # cur[q]
    <3>1. q # p /\ pc[q] \in Closing /\ cur[q] \in nodes[q] /\ active(q) /\ active(p)
      BY <1>a, <2>5 DEF Closing, WorkInv, active
    <3>2. cur[q] # n
      BY <1>a, <3>1 DEF TurnInv, Calm
    <3>3. \A r \in runs : r[2] # cur[q]
      BY <3>1 DEF CalmInv, RunsOf
    <3> QED BY <2>2, <3>2, <3>3
  <2>6. ASSUME NEW r \in runs', verdict[r[1]] = "allowed" PROVE holds[r[2]] # None
    <3>1. CASE r \in runs
      BY <2>6, <3>1 DEF CalmInv
    <3>2. CASE r = <<p, n>>
      BY <1>a, <2>6, <3>2, HoldsAssumption DEF CalmInv
    <3> QED BY <2>2, <3>1, <3>2
  <2> QED BY <1>c, <2>3, <2>4, <2>5, <2>6 DEF CalmInv, RunsOf
<1>8. DownInv'
  <2>1. ASSUME Orderly, NEW m \in Node, ~on[m], \A q \in Program : active(q)' => m \notin nodes[q]
        PROVE  holds[m] = None
    <3>1. m \notin nodes[p]
      BY <1>a, <2>1 DEF EmptyInv
    <3>2. \A q \in Program : active(q) => m \notin nodes[q]
      BY <1>a, <2>1, <3>1 DEF active
    <3> QED BY <2>1, <3>2 DEF DownInv
  <2> QED BY <1>c, <2>1 DEF DownInv, Orderly, Faults, Overlap
<1>9. EmptyInv'
  <2>1. ASSUME Orderly, NEW q \in Program, NEW m \in nodes[q]
        PROVE  /\ pc'[q] \in {"admit", "persist", "launch"} => on[m]
               /\ pc'[q] = "admit" \/ (pc'[q] = "persist" /\ <<q, m>> \in todo'[q])
                    => holds[m] = None
               /\ Through(q, m)' => holds[m] = None
    <3>1. CASE q = p
      BY <1>a, <2>1, <3>1 DEF EmptyInv, Through, Closing
    <3>2. CASE q # p
      <4>1. pc'[q] = pc[q] /\ todo'[q] = todo[q] /\ (Through(q, m)' => Through(q, m))
        BY <1>a, <1>c, <3>2 DEF Through
      <4> QED BY <2>1, <4>1 DEF EmptyInv
    <3> QED BY <3>1, <3>2
  <2> QED BY <1>c, <2>1 DEF EmptyInv, Orderly, Faults, Overlap
<1>10. OnceInv'
  BY DEF LaunchNode, Done, OnceInv, Orderly, Faults, Overlap, HasPut
<1>11. OwedInv'
  <2>1. ASSUME Orderly, NEW r \in ran', verdict[r[1]] = "allowed"
        PROVE  charges[r] > 0 \/ holds[r[2]] = r[1]
    <3>1. CASE r \in ran
      BY <2>1, <3>1 DEF OwedInv
    <3>2. CASE r = <<p, n>>
      BY <1>a, <2>1, <3>2 DEF CalmInv, Calm, Orderly
    <3> QED BY <1>b, <3>1, <3>2
  <2> QED BY <1>c, <2>1 DEF OwedInv, Orderly, Faults, Overlap
<1> QED BY <1>1, <1>2, <1>3, <1>4, <1>5, <1>6, <1>7, <1>8, <1>9, <1>10, <1>11

\* A node is torn down, or left: the run goes before the hold.
LEMMA TeardownInv ==
  ASSUME IInv, NEW p \in Program, NEW item \in todo[p], Teardown(p, item), UNCHANGED deployment
  PROVE  IInv'
<1> USE DEF IInv
<1>a. /\ pc[p] = "teardown" /\ item[2] \in nodes[p] /\ item[2] \in Node
      /\ todo' = [todo EXCEPT ![p] = @ \ {item}] /\ cur' = [cur EXCEPT ![p] = item[2]]
      /\ \/ pc' = [pc EXCEPT ![p] = "get"]
         \/ /\ "net" \in Faults
            /\ pc' = [pc EXCEPT ![p] = IF todo[p] = {item} THEN "done" ELSE "teardown"]
  BY DEF Teardown, WorkInv, TypeOK
<1>b. /\ UNCHANGED <<generation, on, nodes, gen, read, holds, verdict, charges, ran>>
      /\ runs' \subseteq runs
  BY DEF Teardown
<1>1. TypeOK'
  <2>1. pc' \in [Program -> {"idle", "admit", "persist", "launch",
                             "teardown", "get", "reconcile", "delete", "done"}]
        /\ \A q \in Program : pc'[q] \in {"reconcile", "delete"} => read[q] # None
    BY <1>a DEF TypeOK
  <2>2. todo' \in [Program -> SUBSET (Program \X Node)] /\ cur' \in [Program -> Node \cup {None}]
    BY <1>a DEF TypeOK
  <2> QED BY <1>b, <2>1, <2>2 DEF TypeOK
<1>2. WorkInv'
  BY DEF Teardown, TypeOK, WorkInv, Fleet
<1>3. RanInv'
  BY DEF Teardown, TypeOK, RanInv
<1>4. PutInv'
  BY DEF Teardown, TypeOK, PutInv, HasPut
<1>5. ChargeInv'
  BY DEF Teardown, TypeOK, ChargeInv
<1>6. TurnInv'
  <2>1. \A q \in Program : active(q)' => active(q)
    BY <1>a DEF active, TypeOK
  <2>2. \A q \in Program : pc'[q] \in {"reconcile", "delete"} => pc[q] = pc'[q] /\ cur'[q] = cur[q]
    BY <1>a DEF TypeOK
  <2> QED BY <1>b, <2>1, <2>2 DEF TurnInv, Overlap
<1>7. CalmInv'
  <2> SUFFICES ASSUME Calm PROVE CalmInv'
    BY <1>b DEF CalmInv, Calm, Faults, Overlap
  <2>1. pc'[p] = "get" => \A r \in runs' : r[2] # item[2]
    BY DEF Teardown, RunsOf, CalmInv, Calm, TypeOK
  <2>2. ASSUME NEW q \in Program, pc'[q] \in Closing PROVE \A r \in runs' : r[2] # cur'[q]
    BY <1>a, <1>b, <2>1, <2>2 DEF CalmInv, Closing, RunsOf, TypeOK
  <2>3. ASSUME NEW q \in Program, NEW n \in nodes[q]
        PROVE  /\ pc'[q] = "persist" /\ <<q, n>> \notin todo'[q] => holds[n] = q
               /\ pc'[q] = "launch" /\ verdict[q] = "allowed" => holds[n] = q
    BY <1>a DEF CalmInv, TypeOK
  <2> QED BY <1>b, <2>2, <2>3 DEF CalmInv, RunsOf
<1>8. DownInv'
  BY DEF Teardown, Faults, TypeOK, DownInv, Orderly, Overlap, active
<1>9. EmptyInv'
  <2>1. ASSUME Orderly, NEW q \in Program, NEW m \in nodes[q]
        PROVE  /\ pc'[q] \in {"admit", "persist", "launch"} => on[m]
               /\ pc'[q] = "admit" \/ (pc'[q] = "persist" /\ <<q, m>> \in todo'[q])
                    => holds[m] = None
               /\ Through(q, m)' => holds[m] = None
    <3>1. CASE q # p
      <4>1. pc'[q] = pc[q] /\ todo'[q] = todo[q] /\ (Through(q, m)' => Through(q, m))
        BY <1>a, <1>b, <3>1 DEF Through, TypeOK
      <4> QED BY <2>1, <4>1 DEF EmptyInv
    <3>2. CASE q = p
      <4>1. pc'[p] = "get" /\ cur'[p] = item[2] /\ todo'[p] = todo[p] \ {item}
        BY <1>a, <2>1 DEF TypeOK, Orderly
      <4>2. Through(p, m)' => Through(p, m)
        BY <1>a, <4>1 DEF Through
      <4> QED BY <2>1, <3>2, <4>1, <4>2 DEF EmptyInv
    <3> QED BY <3>1, <3>2
  <2> QED BY <1>b, <2>1 DEF EmptyInv, Orderly, Faults, Overlap
<1>10. OnceInv'
  BY DEF Teardown, RunsOf, Faults, TypeOK, OnceInv, Orderly, Overlap, HasPut
<1>11. OwedInv'
  BY DEF Teardown, Faults, OwedInv, Orderly, Overlap
<1> QED BY <1>1, <1>2, <1>3, <1>4, <1>5, <1>6, <1>7, <1>8, <1>9, <1>10, <1>11

\* reconcileHold reads the file.
LEMMA GetInv ==
  ASSUME IInv, NEW p \in Program, GetHold(p), UNCHANGED deployment
  PROVE  IInv'
<1> USE DEF IInv
<1>a. /\ pc[p] = "get" /\ cur[p] \in nodes[p] /\ cur[p] \in Node
      /\ \/ /\ holds[cur[p]] # None /\ read' = [read EXCEPT ![p] = holds[cur[p]]]
            /\ pc' = [pc EXCEPT ![p] = "reconcile"]
         \/ /\ holds[cur[p]] = None \/ "disk" \in Faults
            /\ Continue(p) /\ UNCHANGED read
  BY DEF GetHold, WorkInv, Closing, TypeOK
<1>b. UNCHANGED <<generation, on, nodes, gen, todo, cur, holds, verdict, runs, charges, ran>>
  BY DEF GetHold
<1>1. TypeOK'
  <2>1. pc' \in [Program -> {"idle", "admit", "persist", "launch",
                             "teardown", "get", "reconcile", "delete", "done"}]
        /\ read' \in [Program -> Program \cup {None}]
    BY <1>a DEF TypeOK, Continue
  <2>2. \A q \in Program : pc'[q] \in {"reconcile", "delete"} => read'[q] # None
    BY <1>a DEF TypeOK, Continue
  <2> QED BY <1>b, <2>1, <2>2 DEF TypeOK
<1>2. WorkInv'
  BY DEF GetHold, Continue, TypeOK, WorkInv, Closing, Fleet
<1>3. RanInv'
  BY DEF GetHold, Continue, TypeOK, RanInv
<1>4. PutInv'
  BY DEF GetHold, Continue, TypeOK, PutInv, HasPut
<1>5. ChargeInv'
  BY DEF GetHold, Continue, TypeOK, ChargeInv
<1>6. TurnInv'
  <2>1. \A q \in Program : active(q)' => active(q)
    BY <1>a DEF active, TypeOK, Continue
  <2>2. ASSUME ~Overlap, NEW q \in Program, pc'[q] \in {"reconcile", "delete"}
        PROVE  holds[cur[q]] = read'[q]
    BY <1>a, <2>2 DEF TurnInv, TypeOK, Continue
  <2> QED BY <1>b, <2>1, <2>2 DEF TurnInv, Overlap
<1>7. CalmInv'
  BY DEF GetHold, Continue, Faults, TypeOK, CalmInv, Calm, Overlap, Closing, RunsOf
<1>8. DownInv'
  <2>1. ASSUME Orderly, NEW n \in Node, ~on[n], \A q \in Program : active(q)' => n \notin nodes[q]
        PROVE  holds[n] = None
    <3>1. CASE n \in nodes[p]
      <4>1. pc'[p] = "done"
        BY <1>a, <2>1, <3>1 DEF active, TypeOK, Continue
      <4>2. holds[cur[p]] = None /\ todo[p] = {}
        BY <1>a, <2>1, <4>1 DEF Orderly, TypeOK, Continue
      <4>3. n # cur[p] => Through(p, n)
        BY <1>a, <4>2 DEF Through, Closing
      <4> QED BY <2>1, <3>1, <4>2, <4>3 DEF EmptyInv
    <3>2. CASE n \notin nodes[p]
      <4>1. \A q \in Program : active(q) => n \notin nodes[q]
        BY <1>a, <2>1, <3>2 DEF active, TypeOK, Continue
      <4> QED BY <2>1, <4>1 DEF DownInv
    <3> QED BY <3>1, <3>2
  <2> QED BY <1>b, <2>1 DEF DownInv, Orderly, Faults, Overlap
<1>9. EmptyInv'
  <2>1. ASSUME Orderly, NEW q \in Program, NEW n \in nodes[q]
        PROVE  /\ pc'[q] \in {"admit", "persist", "launch"} => on[n]
               /\ pc'[q] = "admit" \/ (pc'[q] = "persist" /\ <<q, n>> \in todo[q])
                    => holds[n] = None
               /\ Through(q, n)' => holds[n] = None
    <3>1. CASE q # p
      <4>1. pc'[q] = pc[q] /\ (Through(q, n)' => Through(q, n))
        BY <1>a, <1>b, <3>1 DEF Through, Continue, TypeOK
      <4> QED BY <2>1, <4>1 DEF EmptyInv
    <3>2. CASE q = p
      <4>1. /\ pc'[p] \in {"reconcile", "teardown", "done"}
            /\ pc'[p] = "teardown" => holds[cur[p]] = None
        BY <1>a, <2>1 DEF Continue, Orderly, TypeOK
      <4>2. Through(p, n)' => Through(p, n) \/ (pc'[p] = "teardown" /\ n = cur[p])
        BY <1>a, <1>b, <4>1 DEF Through, Closing
      <4> QED BY <2>1, <3>2, <4>1, <4>2 DEF EmptyInv
    <3> QED BY <3>1, <3>2
  <2> QED BY <1>b, <2>1 DEF EmptyInv, Orderly, Faults, Overlap
<1>10. OnceInv'
  BY DEF GetHold, Continue, Faults, TypeOK, OnceInv, Orderly, Overlap, HasPut
<1>11. OwedInv'
  BY DEF GetHold, Faults, OwedInv, Orderly, Overlap
<1> QED BY <1>1, <1>2, <1>3, <1>4, <1>5, <1>6, <1>7, <1>8, <1>9, <1>10, <1>11

\* reconcileHold has the service close the transaction, or fails.
LEMMA ReconcileInv ==
  ASSUME IInv, NEW p \in Program, HoldReconciled(p) \/ ReconcileFails(p), UNCHANGED deployment
  PROVE  IInv'
<1> USE DEF IInv
<1>a. /\ pc[p] = "reconcile" /\ cur[p] \in nodes[p] /\ cur[p] \in Node /\ read[p] \in Program
      /\ \/ charged(p) /\ pc' = [pc EXCEPT ![p] = "delete"]
         \/ "net" \in Faults /\ (charged(p) \/ UNCHANGED charges) /\ Continue(p)
  BY DEF HoldReconciled, ReconcileFails, WorkInv, Closing, TypeOK
<1>b. UNCHANGED <<generation, on, nodes, gen, todo, cur, read, holds, verdict, runs, ran>>
  BY DEF HoldReconciled, ReconcileFails
<1>c. /\ charges' \in [Program \X Node -> Nat]
      /\ \A h \in Program \X Node : charges'[h] >= charges[h]
      /\ \A h \in Program \X Node : h # <<read[p], cur[p]>> => charges'[h] = charges[h]
      /\ charged(p) => charges'[<<read[p], cur[p]>>] = charges[<<read[p], cur[p]>>] + 1
  <2>1. charges \in [Program \X Node -> Nat] /\ <<read[p], cur[p]>> \in Program \X Node
    BY <1>a DEF TypeOK
  <2>2. CASE charges' = [charges EXCEPT ![<<read[p], cur[p]>>] = @ + 1]
    BY <2>1, <2>2
  <2>3. CASE UNCHANGED charges /\ ~charged(p)
    BY <2>1, <2>3
  <2> QED BY <1>a, <2>2, <2>3 DEF charged
<1>1. TypeOK'
  <2>1. pc' \in [Program -> {"idle", "admit", "persist", "launch",
                             "teardown", "get", "reconcile", "delete", "done"}]
        /\ \A q \in Program : pc'[q] \in {"reconcile", "delete"} => read[q] # None
    BY <1>a, HoldsAssumption DEF TypeOK, Continue
  <2> QED BY <1>b, <1>c, <2>1 DEF TypeOK
<1>2. WorkInv'
  BY DEF HoldReconciled, ReconcileFails, Continue, TypeOK, WorkInv, Closing, Fleet
<1>3. RanInv'
  BY DEF HoldReconciled, ReconcileFails, Continue, TypeOK, RanInv
<1>4. PutInv'
  BY DEF HoldReconciled, ReconcileFails, Continue, TypeOK, PutInv, HasPut
<1>5. ChargeInv'
  <2> SUFFICES ASSUME NEW q \in Program, pc'[q] = "delete" PROVE charges'[<<read[q], cur[q]>>] > 0
    BY <1>b DEF ChargeInv
  <2>1. CASE q = p
    <3>1. charged(p) /\ charges[<<read[p], cur[p]>>] \in Nat
      BY <1>a, <2>1 DEF Continue, TypeOK
    <3> QED BY <1>c, <2>1, <3>1
  <2>2. CASE q # p
    <3>1. pc[q] = "delete" /\ <<read[q], cur[q]>> \in Program \X Node
      BY <1>a, <2>2 DEF Continue, WorkInv, Closing, TypeOK
    <3>2. charges[<<read[q], cur[q]>>] > 0 /\ charges[<<read[q], cur[q]>>] \in Nat
      BY <3>1 DEF ChargeInv, TypeOK
    <3> QED BY <1>c, <3>1, <3>2
  <2> QED BY <2>1, <2>2
<1>6. TurnInv'
  BY DEF HoldReconciled, ReconcileFails, Continue, TypeOK, TurnInv, active, Overlap
<1>7. CalmInv'
  BY DEF HoldReconciled, ReconcileFails, Continue, Faults, TypeOK, CalmInv, Calm, Overlap,
       Closing, RunsOf
<1>8. DownInv'
  BY DEF HoldReconciled, ReconcileFails, Faults, TypeOK, DownInv, Orderly, Overlap, active
<1>9. EmptyInv'
  <2>1. ASSUME Orderly, NEW q \in Program, NEW n \in nodes[q]
        PROVE  /\ pc'[q] \in {"admit", "persist", "launch"} => on[n]
               /\ pc'[q] = "admit" \/ (pc'[q] = "persist" /\ <<q, n>> \in todo[q])
                    => holds[n] = None
               /\ Through(q, n)' => holds[n] = None
    <3>1. pc' = [pc EXCEPT ![p] = "delete"]
      BY <1>a, <2>1 DEF Orderly
    <3>2. Through(q, n)' => Through(q, n)
      BY <1>a, <1>b, <3>1 DEF Through, Closing, TypeOK
    <3> QED BY <1>a, <2>1, <3>1, <3>2 DEF EmptyInv, TypeOK
  <2> QED BY <1>b, <2>1 DEF EmptyInv, Orderly, Faults, Overlap
<1>10. OnceInv'
  <2> SUFFICES ASSUME Orderly PROVE OnceInv'
    BY <1>b DEF OnceInv, Orderly, Faults, Overlap
  <2>1. pc' = [pc EXCEPT ![p] = "delete"] /\ charged(p) /\ holds[cur[p]] = read[p]
    BY <1>a DEF Orderly, TurnInv
  <2>2. HasPut(read[p], cur[p])
    BY <1>a, <2>1 DEF PutInv
  <2>3. charges[<<read[p], cur[p]>>] = 0
    <3>1. ASSUME NEW q \in Program, pc[q] = "delete", cur[q] = cur[p] PROVE FALSE
      BY <1>a, <3>1 DEF Orderly, TurnInv, active, WorkInv, Closing
    <3>2. ~(charges[<<read[p], cur[p]>>] > 0)
      BY <1>a, <2>1, <3>1 DEF OnceInv
    <3> QED BY <1>a, <3>2 DEF TypeOK
  <2>4. ASSUME NEW h \in Program \X Node PROVE charges'[h] <= 1
    BY <1>c, <2>1, <2>3 DEF OnceInv
  <2>5. ASSUME NEW q \in Program, NEW n \in Node, charges'[<<q, n>>] > 0
        PROVE  /\ HasPut(q, n)'
               /\ holds[n] = q => \E s \in Program : pc'[s] = "delete" /\ cur[s] = n
    <3>1. pc'[p] = "delete" /\ \A s \in Program : s # p => pc'[s] = pc[s]
      BY <2>1 DEF TypeOK
    <3>2. HasPut(q, n) => HasPut(q, n)'
      BY <1>a, <1>b, <3>1 DEF HasPut
    <3>3. CASE q = read[p] /\ n = cur[p]
      BY <2>2, <3>1, <3>2, <3>3
    <3>4. CASE ~(q = read[p] /\ n = cur[p])
      <4>1. <<q, n>> # <<read[p], cur[p]>> /\ <<q, n>> \in Program \X Node
        BY <3>4
      <4>2. charges[<<q, n>>] > 0
        BY <1>c, <2>5, <4>1
      <4>3. HasPut(q, n) /\ (holds[n] = q => \E s \in Program : pc[s] = "delete" /\ cur[s] = n)
        BY <4>2 DEF OnceInv
      <4> QED BY <1>a, <3>1, <3>2, <4>3
    <3> QED BY <3>3, <3>4
  <2> QED BY <1>b, <2>4, <2>5 DEF OnceInv
<1>11. OwedInv'
  <2>1. ASSUME Orderly, NEW r \in ran, verdict[r[1]] = "allowed"
        PROVE  charges'[r] > 0 \/ holds[r[2]] = r[1]
    BY <1>c, <2>1 DEF OwedInv, TypeOK
  <2> QED BY <1>b, <2>1 DEF OwedInv, Orderly, Faults, Overlap
<1> QED BY <1>1, <1>2, <1>3, <1>4, <1>5, <1>6, <1>7, <1>8, <1>9, <1>10, <1>11

\* reconcileHold deletes the file, whosever it is now.
LEMMA DeleteInv ==
  ASSUME IInv, NEW p \in Program, DeleteHold(p), UNCHANGED deployment
  PROVE  IInv'
<1> USE DEF IInv
<1>a. /\ pc[p] = "delete" /\ cur[p] \in nodes[p] /\ cur[p] \in Node /\ read[p] \in Program
      /\ pc' = [pc EXCEPT ![p] = IF todo[p] = {} THEN "done" ELSE "teardown"]
  BY DEF DeleteHold, Continue, WorkInv, Closing, TypeOK
<1>b. /\ \A n \in Node : n # cur[p] => holds'[n] = holds[n]
      /\ holds'[cur[p]] = None \/ ("disk" \in Faults /\ holds' = holds)
  BY <1>a DEF DeleteHold, TypeOK
<1>c. UNCHANGED <<generation, on, nodes, gen, todo, cur, read, verdict, runs, charges, ran>>
  BY DEF DeleteHold
<1>d. ASSUME ~Overlap, NEW q \in Program, active(q), cur[p] \in nodes[q] PROVE q = p
  BY <1>a, <1>d DEF TurnInv, active
<1>1. TypeOK'
  BY DEF DeleteHold, Continue, TypeOK
<1>2. WorkInv'
  BY DEF DeleteHold, Continue, WorkInv, Closing, Fleet
<1>3. RanInv'
  BY DEF DeleteHold, Continue, RanInv
<1>4. PutInv'
  BY HoldsAssumption DEF DeleteHold, Continue, TypeOK, PutInv, HasPut
<1>5. ChargeInv'
  BY DEF DeleteHold, Continue, ChargeInv
<1>6. TurnInv'
  <2> SUFFICES ASSUME ~Overlap PROVE TurnInv'
    BY DEF TurnInv, Overlap
  <2>1. \A q \in Program : active(q)' => active(q)
    BY <1>a DEF active, TypeOK
  <2>2. ASSUME NEW q \in Program, pc'[q] \in {"reconcile", "delete"} PROVE holds'[cur[q]] = read[q]
    <3>1. q # p /\ pc[q] \in {"reconcile", "delete"} /\ active(q) /\ cur[q] \in nodes[q]
      BY <1>a, <2>2 DEF active, WorkInv, Closing, TypeOK
    <3>2. cur[q] # cur[p] /\ cur[q] \in Node
      BY <1>d, <3>1 DEF TypeOK
    <3> QED BY <1>b, <3>1, <3>2 DEF TurnInv
  <2> QED BY <1>c, <2>1, <2>2 DEF TurnInv
<1>7. CalmInv'
  <2> SUFFICES ASSUME Calm PROVE CalmInv'
    BY <1>c DEF CalmInv, Calm, Faults, Overlap
  <2>1. ASSUME NEW q \in Program, NEW n \in nodes[q], pc'[q] \in {"persist", "launch"}
        PROVE  pc[q] = pc'[q] /\ holds'[n] = holds[n]
    <3>1. q # p /\ pc[q] = pc'[q]
      BY <1>a, <2>1 DEF TypeOK
    <3>2. n # cur[p] /\ n \in Node
      BY <1>d, <2>1, <3>1 DEF Calm, active, TypeOK
    <3> QED BY <1>b, <3>1, <3>2
  <2>2. ASSUME NEW q \in Program, pc'[q] \in Closing PROVE RunsOf(cur[q]) = {}
    BY <1>a, <2>2 DEF CalmInv, Closing, TypeOK
  <2>3. ASSUME NEW r \in runs, verdict[r[1]] = "allowed" PROVE holds'[r[2]] # None
    <3>1. r[2] \in Node /\ r[2] # cur[p]
      BY <1>a DEF CalmInv, Closing, RunsOf, TypeOK
    <3> QED BY <1>b, <2>3, <3>1 DEF CalmInv
  <2> QED BY <1>c, <2>1, <2>2, <2>3 DEF CalmInv, RunsOf
<1>8. DownInv'
  <2>1. ASSUME Orderly, NEW n \in Node, ~on[n], \A q \in Program : active(q)' => n \notin nodes[q]
        PROVE  holds'[n] = None
    <3>1. CASE n = cur[p]
      BY <1>b, <2>1, <3>1 DEF Orderly
    <3>2. CASE n # cur[p] /\ n \in nodes[p]
      <4>1. pc'[p] = "done" /\ todo[p] = {}
        BY <1>a, <2>1, <3>2 DEF active, TypeOK
      <4>2. Through(p, n)
        BY <1>a, <3>2, <4>1 DEF Through, Closing
      <4> QED BY <1>b, <2>1, <3>2, <4>2 DEF EmptyInv
    <3>3. CASE n # cur[p] /\ n \notin nodes[p]
      <4>1. \A q \in Program : active(q) => n \notin nodes[q]
        BY <1>a, <2>1, <3>3 DEF active, TypeOK
      <4> QED BY <1>b, <2>1, <3>3, <4>1 DEF DownInv
    <3> QED BY <3>1, <3>2, <3>3
  <2> QED BY <1>c, <2>1 DEF DownInv, Orderly, Faults, Overlap
<1>9. EmptyInv'
  <2>1. ASSUME Orderly, NEW q \in Program, NEW n \in nodes[q]
        PROVE  /\ pc'[q] \in {"admit", "persist", "launch"} => on[n]
               /\ pc'[q] = "admit" \/ (pc'[q] = "persist" /\ <<q, n>> \in todo[q])
                    => holds'[n] = None
               /\ Through(q, n)' => holds'[n] = None
    <3>1. holds'[cur[p]] = None /\ n \in Node
      BY <1>b, <2>1 DEF Orderly, TypeOK
    <3>2. CASE q # p
      <4>1. pc'[q] = pc[q] /\ (Through(q, n)' => Through(q, n))
        BY <1>a, <1>c, <3>2 DEF Through, TypeOK
      <4> QED BY <1>b, <2>1, <3>1, <4>1 DEF EmptyInv
    <3>3. CASE q = p
      <4>1. pc'[p] \in {"teardown", "done"} /\ (Through(p, n)' => Through(p, n) \/ n = cur[p])
        BY <1>a, <1>c DEF Through, Closing, TypeOK
      <4> QED BY <1>b, <2>1, <3>1, <3>3, <4>1 DEF EmptyInv
    <3> QED BY <3>2, <3>3
  <2> QED BY <1>c, <2>1 DEF EmptyInv, Orderly, Faults, Overlap
<1>10. OnceInv'
  BY HoldsAssumption DEF DeleteHold, Continue, Faults, TypeOK, OnceInv, Orderly, Overlap, HasPut
<1>11. OwedInv'
  <2>1. ASSUME Orderly, NEW r \in ran, verdict[r[1]] = "allowed"
        PROVE  charges[r] > 0 \/ holds'[r[2]] = r[1]
    <3>1. r = <<r[1], r[2]>> /\ r[2] \in Node
      BY DEF TypeOK
    <3>2. holds[cur[p]] = read[p] /\ charges[<<read[p], cur[p]>>] > 0
      BY <1>a, <2>1 DEF Orderly, TurnInv, ChargeInv
    <3>3. charges[r] > 0 \/ holds[r[2]] = r[1]
      BY <2>1 DEF OwedInv
    <3> QED BY <1>b, <3>1, <3>2, <3>3
  <2> QED BY <1>c, <2>1 DEF OwedInv, Orderly, Faults, Overlap
<1> QED BY <1>1, <1>2, <1>3, <1>4, <1>5, <1>6, <1>7, <1>8, <1>9, <1>10, <1>11

\* A program starts, on nodes that no other is at when programs take turns; on may
\* change for its nodes only.
LEMMA StartInv ==
  ASSUME IInv, NEW p \in Program, NEW at \in {"admit", "teardown"}, NEW ns \in SUBSET Node,
         NEW work \in SUBSET (Program \X Node), Begin(p, at, ns, work), UNCHANGED deployment,
         \A i \in work : i[2] \in ns,
         at = "admit" => work = {<<p, n>> : n \in ns} /\ \A n \in ns : ~on[n] /\ on'[n],
         Orderly /\ at = "teardown" => \A n \in ns : \E i \in work : i[2] = n,
         on' \in [Node -> BOOLEAN], \A n \in Node \ ns : on'[n] = on[n],
         Orderly /\ at = "teardown" => \A n \in ns : on[n]
  PROVE  IInv'
<1> USE DEF IInv
<1>a. /\ pc[p] = "idle" /\ pc' = [pc EXCEPT ![p] = at] /\ nodes' = [nodes EXCEPT ![p] = ns]
      /\ todo' = [todo EXCEPT ![p] = work] /\ gen' = [gen EXCEPT ![p] = generation]
      /\ UNCHANGED <<deployment, generation, cur, read, holds, verdict, runs, charges, ran>>
  BY DEF Begin
<1>b. ~Overlap => \A q \in Program : active(q) => nodes[q] \cap ns = {}
  BY DEF Begin, Quiet
<1>c. /\ pc'[p] = at /\ nodes'[p] = ns /\ todo'[p] = work
      /\ \A q \in Program : q # p => pc'[q] = pc[q] /\ nodes'[q] = nodes[q] /\ todo'[q] = todo[q]
  BY <1>a DEF TypeOK
<1>d. \A q \in Program, n \in Node : HasPut(q, n) => q # p /\ HasPut(q, n)'
  BY <1>a, <1>c DEF HasPut
<1>1. TypeOK'
  <2>1. generation \in 1..generation
    BY HoldsAssumption DEF TypeOK, Deployment
  <2>2. pc' \in [Program -> {"idle", "admit", "persist", "launch",
                             "teardown", "get", "reconcile", "delete", "done"}]
        /\ \A q \in Program : pc'[q] \in {"reconcile", "delete"} => read[q] # None
    BY <1>a DEF TypeOK
  <2>3. /\ nodes' \in [Program -> SUBSET Node] /\ gen' \in [Program -> 1..generation]
        /\ todo' \in [Program -> SUBSET (Program \X Node)]
    BY <1>a, <2>1 DEF TypeOK
  <2> QED BY <1>a, <2>2, <2>3 DEF TypeOK
<1>2. WorkInv'
  <2> SUFFICES ASSUME NEW q \in Program
               PROVE  /\ \A i \in todo'[q] : i[2] \in nodes'[q]
                      /\ pc'[q] \in Closing => cur[q] \in nodes'[q]
                      /\ pc'[q] = "admit" => todo'[q] = {<<q, n>> : n \in nodes'[q]}
    BY <1>a DEF WorkInv, Fleet
  <2> QED BY <1>c DEF WorkInv, Closing, Fleet
<1>3. RanInv'
  BY <1>a, <1>c DEF RanInv, TypeOK
<1>4. PutInv'
  BY <1>a, <1>d DEF PutInv
<1>5. ChargeInv'
  BY <1>a, <1>c DEF ChargeInv
<1>6. TurnInv'
  <2> SUFFICES ASSUME ~Overlap PROVE TurnInv'
    BY <1>a DEF TurnInv, Overlap
  <2>1. ASSUME NEW q \in Program, NEW s \in Program, active(q)', active(s)',
               nodes'[q] \cap nodes'[s] # {}
        PROVE  q = s
    <3>1. /\ q # p => active(q) /\ nodes'[q] = nodes[q]
          /\ s # p => active(s) /\ nodes'[s] = nodes[s]
      BY <1>c, <2>1 DEF active
    <3>2. (q = p => nodes'[q] = ns) /\ (s = p => nodes'[s] = ns)
      BY <1>c
    <3> QED BY <1>b, <2>1, <3>1, <3>2 DEF TurnInv
  <2>2. \A q \in Program : pc'[q] \in {"reconcile", "delete"} => holds[cur[q]] = read[q]
    BY <1>c DEF TurnInv
  <2> QED BY <1>a, <2>1, <2>2 DEF TurnInv
<1>7. CalmInv'
  <2> SUFFICES ASSUME Calm PROVE CalmInv'
    BY <1>a DEF CalmInv, Calm, Faults, Overlap
  <2>1. ASSUME NEW q \in Program, NEW n \in nodes'[q]
        PROVE  /\ pc'[q] = "persist" /\ <<q, n>> \notin todo'[q] => holds[n] = q
               /\ pc'[q] = "launch" /\ verdict[q] = "allowed" => holds[n] = q
    BY <1>c, <2>1 DEF CalmInv
  <2>2. \A q \in Program : pc'[q] \in Closing => RunsOf(cur[q]) = {}
    BY <1>c DEF CalmInv, Closing
  <2> QED BY <1>a, <2>1, <2>2 DEF CalmInv, RunsOf
<1>8. DownInv'
  <2>1. ASSUME Orderly, NEW n \in Node, ~on'[n], \A q \in Program : active(q)' => n \notin nodes'[q]
        PROVE  holds[n] = None
    <3>1. n \notin ns /\ ~on[n]
      BY <1>c, <2>1 DEF active
    <3>2. \A q \in Program : active(q) => n \notin nodes[q]
      BY <1>a, <1>c, <2>1, <3>1 DEF active
    <3> QED BY <2>1, <3>1, <3>2 DEF DownInv
  <2> QED BY <1>a, <2>1 DEF DownInv, Orderly, Faults, Overlap
<1>9. EmptyInv'
  <2>1. ASSUME Orderly, NEW q \in Program, NEW n \in nodes'[q]
        PROVE  /\ pc'[q] \in {"admit", "persist", "launch"} => on'[n]
               /\ pc'[q] = "admit" \/ (pc'[q] = "persist" /\ <<q, n>> \in todo'[q])
                    => holds[n] = None
               /\ Through(q, n)' => holds[n] = None
    <3>1. CASE q # p
      <4>1. /\ pc'[q] = pc[q] /\ todo'[q] = todo[q] /\ nodes'[q] = nodes[q] /\ n \in Node
            /\ Through(q, n)' => Through(q, n)
        BY <1>a, <1>c, <2>1, <3>1 DEF Through, TypeOK
      <4>2. pc[q] \in {"admit", "persist", "launch"} => n \notin ns
        BY <1>b, <2>1, <4>1 DEF Orderly, active
      <4> QED BY <2>1, <4>1, <4>2 DEF EmptyInv
    <3>2. CASE q = p
      <4>1. CASE at = "admit"
        <5>1. ~on[n] /\ on'[n] /\ n \in Node /\ \A s \in Program : active(s) => n \notin nodes[s]
          BY <1>b, <1>c, <2>1, <3>2, <4>1 DEF Orderly
        <5>2. holds[n] = None
          BY <2>1, <5>1 DEF DownInv
        <5> QED BY <5>1, <5>2
      <4>2. CASE at = "teardown"
        BY <1>c, <2>1, <3>2, <4>2 DEF Through
      <4> QED BY <4>1, <4>2
    <3> QED BY <3>1, <3>2
  <2> QED BY <1>a, <2>1 DEF EmptyInv, Orderly, Faults, Overlap
<1>10. OnceInv'
  <2> SUFFICES ASSUME Orderly PROVE OnceInv'
    BY <1>a DEF OnceInv, Orderly, Faults, Overlap
  <2>1. ASSUME NEW q \in Program, NEW n \in Node, charges[<<q, n>>] > 0, holds[n] = q
        PROVE  \E s \in Program : pc'[s] = "delete" /\ cur[s] = n
    <3>1. PICK s \in Program : pc[s] = "delete" /\ cur[s] = n
      BY <2>1 DEF OnceInv
    <3>2. pc'[s] = "delete"
      BY <1>a, <1>c, <3>1
    <3> QED BY <3>1, <3>2
  <2> QED BY <1>a, <1>d, <2>1 DEF OnceInv
<1>11. OwedInv'
  BY <1>a DEF OwedInv, Orderly, Faults, Overlap
<1> QED BY <1>1, <1>2, <1>3, <1>4, <1>5, <1>6, <1>7, <1>8, <1>9, <1>10, <1>11

\* Nothing is there at first.
LEMMA InitInv == Init => IInv
<1> SUFFICES ASSUME Init PROVE IInv
  OBVIOUS
<1>1. TypeOK
  BY HoldsAssumption DEF Init, TypeOK, Deployment
<1>2. WorkInv /\ RanInv /\ PutInv /\ ChargeInv
  BY HoldsAssumption DEF Init, WorkInv, RanInv, PutInv, ChargeInv, Closing
<1>3. TurnInv /\ CalmInv
  BY DEF Init, TurnInv, CalmInv, active, Closing
<1>4. DownInv /\ EmptyInv /\ OnceInv /\ OwedInv
  BY DEF Init, DownInv, EmptyInv, OnceInv, OwedInv, Through, Closing
<1> QED BY <1>1, <1>2, <1>3, <1>4 DEF IInv

\* Every step keeps the invariant.
LEMMA StepInv == IInv /\ [Next]_vars => IInv'
<1> SUFFICES ASSUME IInv, [Next]_vars PROVE IInv'
  OBVIOUS
<1>1. CASE UNCHANGED vars
  <2>1. TypeOK' /\ WorkInv' /\ RanInv' /\ PutInv' /\ ChargeInv'
    BY <1>1 DEF vars, program, IInv, TypeOK, WorkInv, RanInv, PutInv, HasPut, ChargeInv, Closing,
         Fleet
  <2>2. TurnInv' /\ CalmInv' /\ DownInv'
    BY <1>1 DEF vars, program, IInv, TurnInv, CalmInv, Calm, DownInv, Orderly, Faults, Overlap,
         active,
       Closing, RunsOf
  <2>3. EmptyInv' /\ OnceInv' /\ OwedInv'
    BY <1>1 DEF vars, program, IInv, EmptyInv, OnceInv, OwedInv, Orderly, Faults, Overlap, Through,
       Closing, HasPut
  <2> QED BY <2>1, <2>2, <2>3 DEF IInv
<1>2. ASSUME NEW p \in Program, NEW ns \in SUBSET Node, StartResume(p, ns), UNCHANGED deployment
      PROVE  IInv'
  <2>1. on' = [n \in Node |-> on[n] \/ n \in ns] /\ \A n \in ns : ~on[n]
    BY <1>2 DEF StartResume
  <2>2. on' \in [Node -> BOOLEAN] /\ (\A n \in Node \ ns : on'[n] = on[n]) /\ \A n \in ns : on'[n]
    BY <2>1 DEF IInv, TypeOK
  <2> QED BY <1>2, <2>1, <2>2, StartInv DEF StartResume
<1>3. ASSUME NEW p \in Program, NEW ns \in SUBSET Node, StartSuspend(p, ns), UNCHANGED deployment
      PROVE  IInv'
  <2>1. on' = [n \in Node |-> on[n] /\ n \notin ns] /\ \A n \in ns : on[n]
    BY <1>3 DEF StartSuspend
  <2>2. on' \in [Node -> BOOLEAN] /\ \A n \in Node \ ns : on'[n] = on[n]
    BY <2>1 DEF IInv, TypeOK
  <2>3. ASSUME NEW n \in ns PROVE \E i \in {<<p, m>> : m \in ns} : i[2] = n
    <3>1. <<p, n>> \in {<<p, m>> : m \in ns} /\ <<p, n>>[2] = n
      OBVIOUS
    <3> QED BY <3>1, Zenon
  <2> QED BY <1>3, <2>1, <2>2, <2>3, StartInv DEF StartSuspend
<1>4. ASSUME NEW p \in Program, NEW stale \in SUBSET runs, StartSweep(p, stale),
             UNCHANGED deployment
      PROVE  IInv'
  <2>1. stale \in SUBSET (Program \X Node) /\ {r[2] : r \in stale} \in SUBSET Node
    BY DEF IInv, TypeOK
  <2>2. /\ Begin(p, "teardown", {r[2] : r \in stale}, stale) /\ UNCHANGED on
        /\ stale \subseteq {r \in runs : gen[r[1]] # generation}
    BY <1>4 DEF StartSweep
  <2>3. ~Orderly
    <3>1. generation = 1 => stale = {}
      BY <2>1, <2>2 DEF IInv, TypeOK
    <3>2. {r[2] : r \in stale} # {}
      BY <2>2 DEF Begin
    <3> QED BY <3>1, <3>2 DEF Orderly
  <2>4. on' \in [Node -> BOOLEAN] /\ \A n \in Node : on'[n] = on[n]
    BY <2>2 DEF IInv, TypeOK
  <2> QED BY <1>4, <2>1, <2>2, <2>3, <2>4, StartInv
<1>5. ASSUME NEW p \in Program, UNCHANGED deployment,
             AdmitAllows(p) \/ AdmitRefuses(p) \/ AdmitFails(p)
      PROVE  IInv'
  <2>1. CASE Admission(p, "allowed", "persist")
    BY <1>5, <2>1, AdmissionInv
  <2>2. CASE \/ Admission(p, "free", "launch") \/ Admission(p, "refused", "done")
             \/ Admission(p, "error", "launch") \/ Admission(p, "error", "done")
    BY <1>5, <2>2, AdmissionInv
  <2> QED BY <1>5, <2>1, <2>2 DEF AdmitAllows, AdmitRefuses, AdmitFails
<1>6. ASSUME NEW p \in Program, UNCHANGED deployment, Step(p) PROVE IInv'
  BY <1>5, <1>6, CrashInv, PersistInv, LaunchInv, TeardownInv, GetInv, ReconcileInv,
       DeleteInv DEF Step
<1> QED BY <1>1, <1>2, <1>3, <1>4, <1>6, ApplyInv DEF Next

-----------------------------------------------------------------------------
\* The strengthened invariant holds in every reachable state.
THEOREM Invariance == Spec => []IInv
BY InitInv, StepInv, PTL DEF Spec

\* As long as an instance runs whose launch was admitted, there is a hold to be
\* charged.
THEOREM HoldsOutlastRuns == Spec => []RunHasHold
<1>1. IInv => RunHasHold
  BY DEF IInv, CalmInv, Calm, RunHasHold
<1> QED BY <1>1, Invariance, PTL

\* No run is charged twice.
THEOREM ChargesOnce == Spec => []ChargedOnce
<1>1. IInv => ChargedOnce
  BY DEF IInv, OnceInv, ChargedOnce
<1> QED BY <1>1, Invariance, PTL

\* A node that is suspended has had each of its admitted runs charged.
THEOREM ChargesEvery == Spec => []EveryRunCharged
<1>1. ASSUME IInv, Orderly, NEW r \in ran, verdict[r[1]] = "allowed", ~on[r[2]],
             \A p \in Program : active(p) => r[2] \notin nodes[p]
      PROVE  charges[r] > 0
  <2>1. r[1] \in Program /\ r[2] \in Node
    BY <1>1 DEF IInv, TypeOK
  <2>2. holds[r[2]] = None
    BY <1>1, <2>1 DEF IInv, DownInv
  <2> QED BY <1>1, <2>1, <2>2, HoldsAssumption DEF IInv, OwedInv
<1>2. IInv => EveryRunCharged
  BY <1>1 DEF EveryRunCharged
<1> QED BY <1>2, Invariance, PTL

\* A hold that leaves the disk has been charged, whatever fails on the way.
LEMMA DeletedStep ==
  IInv /\ [Next]_vars =>
    (~Overlap => \A n \in Node :
       holds[n] # None /\ holds'[n] = None => charges[<<holds[n], n>>] > 0)
<1> SUFFICES ASSUME IInv, [Next]_vars, ~Overlap, NEW n \in Node, holds[n] # None, holds'[n] = None
             PROVE  charges[<<holds[n], n>>] > 0
  OBVIOUS
<1>1. ASSUME NEW p \in Program, DeleteHold(p) PROVE charges[<<holds[n], n>>] > 0
  <2>1. pc[p] = "delete" /\ n = cur[p]
    BY <1>1 DEF DeleteHold, IInv, TypeOK
  <2> QED BY <2>1 DEF IInv, TurnInv, ChargeInv
<1>2. ASSUME NEW p \in Program, NEW m \in Node, PersistHold(p, m) PROVE FALSE
  BY <1>2, HoldsAssumption DEF PersistHold, IInv, TypeOK
<1>3. CASE UNCHANGED holds
  BY <1>3
<1>4. ASSUME NEW p \in Program, Step(p)
      PROVE  UNCHANGED holds \/ DeleteHold(p) \/ \E m \in Node : PersistHold(p, m)
  BY <1>4 DEF Step, Crash, AdmitAllows, AdmitRefuses, AdmitFails, Admission, LaunchNode, Teardown,
     GetHold, HoldReconciled, ReconcileFails
<1>5. UNCHANGED holds \/ \E p \in Program : DeleteHold(p) \/ \E m \in Node : PersistHold(p, m)
  BY <1>4 DEF Next, vars, Apply, StartResume, StartSuspend, StartSweep, Begin
<1> QED BY <1>1, <1>2, <1>3, <1>5

\* reconcileHold: a hold leaves the disk only after its charge.
THEOREM DeletesCharged == Spec => DeletedOnlyWhenCharged
BY Invariance, DeletedStep, PTL DEF Spec, DeletedOnlyWhenCharged
=============================================================================
