------------------------- MODULE PeerAssemblyProofs -------------------------
(***************************************************************************)
(* What PeerAssembly promises for any nodes and programs, in every         *)
(* deployment: that a wire-up repeated over the same members gives the     *)
(* same manifest, and that a cohort finds its own.                         *)
(***************************************************************************)
EXTENDS PeerAssembly, FiniteSetTheorems, TLAPS

\* Members that have names of their own.
Named(ms) == \A i, j \in DOMAIN ms : ms[i].ID = ms[j].ID => i = j

Sorted(s) == \A i, j \in DOMAIN s : i < j => s[i].ID < s[j].ID

Names(ms) == {ms[i].ID : i \in DOMAIN ms}

-----------------------------------------------------------------------------
(* Sorting.                                                                 *)

\* Members with names of their own can be sorted: each goes where the number of
\* names up to its own says.
LEMMA CanBeSorted ==
  ASSUME NEW n \in Nat, NEW ms, DOMAIN ms = 1..n, \A i \in 1..n : ms[i].ID \in Nat, Named(ms)
  PROVE  \E s \in [1..n -> Range(ms)] : Range(s) = Range(ms) /\ Sorted(s)
<1> DEFINE D == 1..n
           upto(i) == {j \in D : ms[j].ID <= ms[i].ID}
           place == [i \in D |-> Cardinality(upto(i))]
<1>1. IsFiniteSet(D) /\ Cardinality(D) = n
  BY FS_Interval
<1>2. \A i \in D : IsFiniteSet(upto(i)) /\ Cardinality(upto(i)) \in Nat /\ Cardinality(upto(i)) <= n
  BY <1>1, FS_Subset, FS_CardinalityType
<1>3. \A i \in D : Cardinality(upto(i)) # 0
  <2> SUFFICES ASSUME NEW i \in D, Cardinality(upto(i)) = 0 PROVE FALSE
    OBVIOUS
  <2>1. upto(i) = {}
    BY <1>2, FS_EmptySet
  <2>2. i \in upto(i)
    OBVIOUS
  <2> QED BY <2>1, <2>2
<1>4. place \in [D -> D]
  <2>1. \A i \in D : Cardinality(upto(i)) \in D
    <3> HIDE DEF upto
    <3> QED BY <1>2, <1>3
  <2> QED BY <2>1
<1>5. ASSUME NEW i \in D, NEW j \in D, ms[i].ID < ms[j].ID PROVE place[i] < place[j]
  <2>1. upto(i) \subseteq upto(j) /\ j \in upto(j) /\ j \notin upto(i)
    BY <1>5
  <2>2. Cardinality(upto(i)) <= Cardinality(upto(j)) /\ Cardinality(upto(i)) # Cardinality(upto(j))
    BY <1>2, <2>1, FS_Subset
  <2>3. place[i] = Cardinality(upto(i)) /\ place[j] = Cardinality(upto(j))
    OBVIOUS
  <2>4. Cardinality(upto(i)) \in Nat /\ Cardinality(upto(j)) \in Nat
    BY <1>2
  <2> HIDE DEF place, upto
  <2> QED BY <2>2, <2>3, <2>4
<1> HIDE DEF place
<1>6. place \in Injection(D, D)
  <2> SUFFICES ASSUME NEW i \in D, NEW j \in D, place[i] = place[j] PROVE i = j
    BY <1>4 DEF Injection, IsInjective
  <2>1. place[i] \in Nat /\ place[j] \in Nat
    BY <1>4
  <2>2. ms[i].ID \in Nat /\ ms[j].ID \in Nat /\ ~(ms[i].ID < ms[j].ID) /\ ~(ms[j].ID < ms[i].ID)
    BY <1>5, <2>1
  <2> QED BY <2>2 DEF Named
<1>7. \A k \in D : \E i \in D : place[i] = k
  <2>1. place \in Surjection(D, D)
    BY <1>1, <1>6, FS_Injection
  <2> QED BY <2>1 DEF Surjection
<1> DEFINE at == [k \in D |-> CHOOSE i \in D : place[i] = k]
           s == [k \in D |-> ms[at[k]]]
<1>8. \A k \in D : at[k] \in D /\ place[at[k]] = k
  BY <1>7
<1>9. \A i \in D : at[place[i]] = i
  BY <1>4, <1>6, <1>8 DEF Injection, IsInjective
<1> HIDE DEF at
<1>10. s \in [D -> Range(ms)] /\ Range(s) = Range(ms)
  <2>1. \A i \in D : \E k \in D : s[k] = ms[i]
    BY <1>4, <1>9
  <2> QED BY <1>8, <2>1 DEF Range
<1>11. ASSUME NEW k \in D, NEW l \in D, k < l PROVE s[k].ID < s[l].ID
  <2>1. /\ ms[at[k]].ID \in Nat /\ ms[at[l]].ID \in Nat /\ at[k] \in D /\ at[l] \in D
        /\ place[at[k]] = k /\ place[at[l]] = l
    BY <1>8
  <2>2. ~(ms[at[l]].ID < ms[at[k]].ID)
    BY <1>5, <1>11, <2>1
  <2>3. ms[at[l]].ID # ms[at[k]].ID
    BY <1>11, <2>1 DEF Named
  <2> QED BY <2>1, <2>2, <2>3
<1>12. Sorted(s)
  BY <1>10, <1>11 DEF Sorted
<1> QED BY <1>10, <1>12

\* So that is what ordered does.
LEMMA OrderedIs ==
  ASSUME NEW n \in Nat, NEW ms, DOMAIN ms = 1..n, \A i \in 1..n : ms[i].ID \in Nat, Named(ms)
  PROVE  /\ ordered(ms) \in [1..n -> Range(ms)] /\ Range(ordered(ms)) = Range(ms)
         /\ Sorted(ordered(ms)) /\ \A i \in 1..n : ordered(ms)[i].ID \in Nat
<1>1. \E s \in [DOMAIN ms -> Range(ms)] :
        Range(s) = Range(ms) /\ \A i, j \in DOMAIN s : i < j => s[i].ID < s[j].ID
  BY CanBeSorted DEF Sorted
<1>2. ordered(ms) \in [1..n -> Range(ms)] /\ Range(ordered(ms)) = Range(ms) /\ Sorted(ordered(ms))
  BY <1>1 DEF ordered, Sorted
<1> QED BY <1>2 DEF Range

\* In a sorted sequence the place of a name is the number of the names below it.
LEMMA PlaceOf ==
  ASSUME NEW n \in Nat, NEW s, DOMAIN s = 1..n, \A i \in 1..n : s[i].ID \in Nat, Sorted(s), NEW i \in 1..n
  PROVE  Cardinality({k \in Names(s) : k < s[i].ID}) = i - 1
<1> DEFINE B == {k \in Names(s) : k < s[i].ID}
           f == [j \in 1..(i - 1) |-> s[j].ID]
<1>1. f \in Bijection(1..(i - 1), B)
  <2>1. \A j \in 1..(i - 1) : j \in 1..n /\ s[j].ID \in B
    BY DEF Sorted, Names
  <2>2. \A j, k \in 1..(i - 1) : f[j] = f[k] => j = k
    <3> SUFFICES ASSUME NEW j \in 1..(i - 1), NEW k \in 1..(i - 1), j < k PROVE s[j].ID # s[k].ID
      BY <2>1
    <3> QED BY <2>1 DEF Sorted
  <2>3. ASSUME NEW b \in B PROVE \E j \in 1..(i - 1) : f[j] = b
    <3>1. PICK j \in 1..n : b = s[j].ID
      BY DEF Names
    <3>2. j < i
      BY <3>1 DEF Sorted
    <3> QED BY <3>1, <3>2
  <2> QED BY <2>1, <2>2, <2>3 DEF Bijection, Injection, Surjection, IsInjective
<1>2. IsFiniteSet(1..(i - 1)) /\ Cardinality(1..(i - 1)) = i - 1
  BY FS_Interval
<1> QED BY <1>1, <1>2, FS_Bijection DEF ExistsBijection

\* Names of their own are as many as the members.
LEMMA NamesCount ==
  ASSUME NEW n \in Nat, NEW ms, DOMAIN ms = 1..n, Named(ms)
  PROVE  IsFiniteSet(Names(ms)) /\ Cardinality(Names(ms)) = n
<1> DEFINE f == [i \in 1..n |-> ms[i].ID]
<1>1. f \in Bijection(1..n, Names(ms))
  BY DEF Bijection, Injection, Surjection, IsInjective, Named, Names
<1>2. IsFiniteSet(1..n) /\ Cardinality(1..n) = n
  BY FS_Interval
<1> QED BY <1>1, <1>2, FS_Bijection DEF ExistsBijection

\* The names are those of the members, whatever their order.
LEMMA NamesOf == ASSUME NEW ms PROVE Names(ms) = {m.ID : m \in Range(ms)}
BY DEF Names, Range

\* A member of a sorted sequence is where its name says, whatever order it was
\* sorted from, and the sequences of the same members are equally long.
LEMMA SameOrder ==
  ASSUME NEW n \in Nat, NEW ms, DOMAIN ms = 1..n, \A i \in 1..n : ms[i].ID \in Nat, Named(ms),
         NEW m \in Nat, NEW ns, DOMAIN ns = 1..m, \A i \in 1..m : ns[i].ID \in Nat, Named(ns),
         Range(ms) = Range(ns)
  PROVE  n = m /\ ordered(ms) = ordered(ns)
<1> DEFINE s == ordered(ms)
           t == ordered(ns)
<1>1. /\ s \in [1..n -> Range(ms)] /\ Range(s) = Range(ms) /\ Sorted(s) /\ \A i \in 1..n : s[i].ID \in Nat
      /\ t \in [1..m -> Range(ns)] /\ Range(t) = Range(ns) /\ Sorted(t) /\ \A i \in 1..m : t[i].ID \in Nat
  BY OrderedIs
<1> HIDE DEF s, t
<1>2. Names(ms) = Names(ns) /\ Names(s) = Names(t)
  BY <1>1, NamesOf
<1>3. n = m
  BY <1>2, NamesCount
<1>4. ASSUME NEW i \in 1..n PROVE s[i] = t[i]
  <2>1. PICK j \in 1..m : s[i] = t[j]
    <3>1. s[i] \in Range(ms)
      BY <1>1
    <3>2. s[i] \in Range(t)
      BY <1>1, <3>1
    <3> QED BY <1>1, <3>2 DEF Range
  <2>2. Cardinality({k \in Names(s) : k < s[i].ID}) = i - 1
    BY <1>1, PlaceOf
  <2>3. Cardinality({k \in Names(t) : k < t[j].ID}) = j - 1
    BY <1>1, PlaceOf
  <2>4. i = j
    BY <1>2, <2>1, <2>2, <2>3
  <2> QED BY <2>1, <2>4
<1>5. s = t
  BY <1>1, <1>3, <1>4
<1> QED BY <1>3, <1>5 DEF s, t

\* So their manifest is the same.
LEMMA SameManifest ==
  ASSUME NEW n \in Nat, NEW ms, DOMAIN ms = 1..n, \A i \in 1..n : ms[i].ID \in Nat, Named(ms),
         NEW m \in Nat, NEW ns, DOMAIN ns = 1..m, \A i \in 1..m : ns[i].ID \in Nat, Named(ns),
         Range(ms) = Range(ns)
  PROVE  Manifest(ms) = Manifest(ns)
<1>1. n = m /\ ordered(ms) = ordered(ns)
  BY SameOrder
<1> QED BY <1>1 DEF Manifest, cohortKey

\* The manifest of one member or more goes under the lowest name.
LEMMA ManifestIs ==
  ASSUME NEW n \in Nat \ {0}, NEW ms, DOMAIN ms = 1..n, \A i \in 1..n : ms[i].ID \in Nat, Named(ms)
  PROVE  /\ cohortKey(ms) \in Names(ms) /\ \A k \in Names(ms) : cohortKey(ms) <= k
         /\ DOMAIN Manifest(ms).Peers = 1..n /\ Manifest(ms).Cohort = cohortKey(ms)
<1> DEFINE s == ordered(ms)
<1>1. s \in [1..n -> Range(ms)] /\ Range(s) = Range(ms) /\ Sorted(s) /\ \A i \in 1..n : s[i].ID \in Nat
  BY OrderedIs
<1>2. cohortKey(ms) = s[1].ID /\ Manifest(ms).Cohort = cohortKey(ms) /\ DOMAIN Manifest(ms).Peers = 1..n
  BY DEF cohortKey, Manifest
<1> HIDE DEF s
<1>3. Names(s) = Names(ms)
  BY <1>1, NamesOf
<1>4. cohortKey(ms) \in Names(ms) /\ \A k \in Names(ms) : cohortKey(ms) <= k
  <2>1. s[1].ID \in Names(s)
    BY <1>1 DEF Names
  <2>2. ASSUME NEW i \in 1..n PROVE s[1].ID <= s[i].ID
    BY <1>1, <2>2 DEF Sorted
  <2> QED BY <1>1, <1>2, <1>3, <2>1, <2>2 DEF Names
<1> QED BY <1>2, <1>4

\* It has a peer for each rank, which is one of the members.
LEMMA ManifestPeer ==
  ASSUME NEW n \in Nat \ {0}, NEW ms, DOMAIN ms = 1..n, \A i \in 1..n : ms[i].ID \in Nat, Named(ms),
         NEW i \in 1..n
  PROVE  \E m \in Range(ms) :
           Manifest(ms).Peers[i] = [Rank |-> i - 1, Entity |-> m.ID, Address |-> m.Address]
<1>1. ordered(ms)[i] \in Range(ms)
  BY OrderedIs
<1>2. Manifest(ms).Peers[i] =
        [Rank |-> i - 1, Entity |-> ordered(ms)[i].ID, Address |-> ordered(ms)[i].Address]
  BY DEF Manifest
<1> QED BY <1>1, <1>2

\* Each member is one of them, with the number of the names below its own for a rank.
LEMMA ManifestRanks ==
  ASSUME NEW n \in Nat \ {0}, NEW ms, DOMAIN ms = 1..n, \A i \in 1..n : ms[i].ID \in Nat, Named(ms),
         NEW i \in 1..n
  PROVE  \E j \in 1..n :
           Manifest(ms).Peers[j] = [Rank |-> Cardinality({k \in Names(ms) : k < ms[i].ID}),
                                    Entity |-> ms[i].ID, Address |-> ms[i].Address]
<1> DEFINE s == ordered(ms)
<1>1. s \in [1..n -> Range(ms)] /\ Range(s) = Range(ms) /\ Sorted(s) /\ \A j \in 1..n : s[j].ID \in Nat
  BY OrderedIs
<1>2. \A j \in 1..n : Manifest(ms).Peers[j] = [Rank |-> j - 1, Entity |-> s[j].ID, Address |-> s[j].Address]
  BY DEF Manifest
<1> HIDE DEF s
<1>3. Names(s) = Names(ms)
  BY <1>1, NamesOf
<1>4. PICK j \in 1..n : ms[i] = s[j]
  BY <1>1 DEF Range
<1>5. Cardinality({k \in Names(s) : k < s[j].ID}) = j - 1
  BY <1>1, PlaceOf
<1> QED BY <1>2, <1>3, <1>4, <1>5

\* Members with names of their own are one of the orders of their set.
LEMMA OneOrder ==
  ASSUME NEW n \in Nat, NEW ms, ms = [i \in 1..n |-> ms[i]], Named(ms)
  PROVE  ms \in SetToSeqs(Range(ms)) /\ Cardinality(Range(ms)) = n
<1>1. ms \in Bijection(1..n, Range(ms))
  BY DEF Bijection, Injection, Surjection, IsInjective, Named, Range
<1>2. IsFiniteSet(1..n) /\ Cardinality(1..n) = n
  BY FS_Interval
<1>3. Cardinality(Range(ms)) = n
  BY <1>1, <1>2, FS_Bijection DEF ExistsBijection
<1>4. ms \in [1..n -> Range(ms)] /\ \A i, j \in 1..n : i # j => ms[i] # ms[j]
  BY <1>1 DEF Bijection, Injection, IsInjective
<1> QED BY <1>3, <1>4 DEF SetToSeqs

-----------------------------------------------------------------------------
(* The inductive invariant.                                                 *)

Typed ==
  /\ deployment \in Deployments
  /\ owner \in [Node -> Program \cup {None}] /\ ip \in [Node -> 0..deployment.launches]
  /\ pc \in [Program -> {"none", "reconcile", "assemble", "ready", "failed"}]
  /\ hosts \in [Program -> Seq(Node)] /\ members \in [Program -> Seq(Obs)]
  /\ \A p \in Program : IsInjective(hosts[p])

Owned(p) == \A i \in DOMAIN hosts[p] : owner[hosts[p][i]] = p

\* A cohort keeps its nodes until it is done with them, where resumes of a node do
\* not overlap.
Held == \A p \in Program :
  /\ pc[p] \in {"reconcile", "assemble"} /\ ~deployment.overlap => Owned(p)
  /\ pc[p] \in {"reconcile", "assemble", "ready"} => hosts[p] # <<>>

\* The members are the cohort's; where resumes of a node do not overlap, what was said
\* of them is still so while they are wired up.
Met == \A p \in Program : pc[p] = "assemble" =>
  /\ DOMAIN members[p] = DOMAIN hosts[p]
  /\ \A i \in DOMAIN hosts[p] :
       /\ members[p][i].ID = hosts[p][i]
       /\ ~deployment.overlap => members[p][i].Address \in {NoAddress, Detail(hosts[p][i])}

\* What is published is the manifest of members with names of their own and an address.
Issued == \A x \in published : \E ms \in SetToSeqs(x.of) :
  /\ Cardinality(x.of) \in Nat \ {0} /\ Range(ms) = x.of /\ Range(ms) \subseteq Obs
  /\ Named(ms) /\ addressed(ms) /\ x.manifest = Manifest(ms)

\* The bucket, and what is on its way there, has been published.
Stored ==
  /\ DOMAIN bucket \subseteq Node /\ \A k \in DOMAIN bucket : bucket[k] \in {x.manifest : x \in published}
  /\ inflight \subseteq {x.manifest : x \in published}
  /\ deployment.faults = {} => inflight = {}

\* The members of a cohort that came up, as they are.
Shown(p) == [i \in DOMAIN hosts[p] |-> [ID |-> hosts[p][i], Address |-> Detail(hosts[p][i])]]

\* Where no request lands late and resumes of a node do not overlap, nobody writes over
\* the manifest of a cohort that still has its nodes.
Kept == deployment.faults = {} /\ ~deployment.overlap => \A p \in Program : pc[p] = "ready" /\ Owned(p) =>
  /\ cohortKey(Shown(p)) \in DOMAIN bucket
  /\ bucket[cohortKey(Shown(p))] = Manifest(Shown(p))

IInv == Typed /\ Held /\ Met /\ Issued /\ Stored /\ Kept

\* There are no cohorts at first.
LEMMA InitIInv == Init => IInv
<1> SUFFICES ASSUME Init PROVE IInv
  OBVIOUS
<1>1. Typed
  BY AssemblyAssumption DEF Init, Typed, NoAddress, Deployment, IsInjective
<1>2. Held /\ Met /\ Issued /\ Kept
  BY DEF Init, Held, Met, Issued, Kept
<1>3. Stored
  BY DEF Init, Stored
<1> QED BY <1>1, <1>2, <1>3 DEF IInv

-----------------------------------------------------------------------------
(* The invariant is inductive.                                              *)

\* The members a cohort is shown with are its hosts.
LEMMA ShownFacts ==
  ASSUME IInv, NEW p \in Program, hosts[p] # <<>>
  PROVE  \E n \in Nat \ {0} :
           /\ DOMAIN hosts[p] = 1..n /\ DOMAIN Shown(p) = 1..n
           /\ \A i \in 1..n : /\ hosts[p][i] \in Node /\ hosts[p][i] \in Nat
                              /\ Shown(p)[i] = [ID |-> hosts[p][i], Address |-> Detail(hosts[p][i])]
           /\ Named(Shown(p)) /\ Names(Shown(p)) = Range(hosts[p])
           /\ cohortKey(Shown(p)) \in Range(hosts[p])
<1>1. hosts[p] \in Seq(Node) /\ IsInjective(hosts[p]) /\ Node \subseteq Nat
  BY AssemblyAssumption DEF IInv, Typed
<1>2. PICK n \in Nat \ {0} : DOMAIN hosts[p] = 1..n /\ \A i \in 1..n : hosts[p][i] \in Node
  BY <1>1
<1>3. /\ DOMAIN Shown(p) = 1..n
      /\ \A i \in 1..n : Shown(p)[i] = [ID |-> hosts[p][i], Address |-> Detail(hosts[p][i])]
  BY <1>2 DEF Shown
<1>4. \A i \in 1..n : Shown(p)[i].ID = hosts[p][i]
  BY <1>3
<1>5. Named(Shown(p)) /\ Names(Shown(p)) = Range(hosts[p])
  BY <1>1, <1>2, <1>3, <1>4 DEF Named, Names, Range, IsInjective
<1>6. cohortKey(Shown(p)) \in Names(Shown(p))
  BY <1>1, <1>2, <1>3, <1>4, <1>5, ManifestIs
<1> QED BY <1>1, <1>2, <1>3, <1>5, <1>6

\* What is wired up are the members of the cohort, with names of their own; if something
\* was said of them all and no resume overlaps, it is the cohort as it is.
LEMMA WiredFacts ==
  ASSUME IInv, NEW p \in Program, pc[p] = "assemble"
  PROVE  /\ members[p] \in SetToSeqs(Range(members[p])) /\ Cardinality(Range(members[p])) \in Nat \ {0}
         /\ Range(members[p]) \subseteq Obs /\ Named(members[p])
         /\ cohortKey(members[p]) \in Range(hosts[p])
         /\ addressed(members[p]) /\ ~deployment.overlap => members[p] = Shown(p)
<1>1. hosts[p] # <<>> /\ DOMAIN members[p] = DOMAIN hosts[p]
  BY DEF IInv, Held, Met
<1>2. PICK n \in Nat \ {0} :
        /\ DOMAIN hosts[p] = 1..n /\ DOMAIN Shown(p) = 1..n
        /\ \A i \in 1..n : Shown(p)[i] = [ID |-> hosts[p][i], Address |-> Detail(hosts[p][i])]
        /\ Named(Shown(p)) /\ \A i \in 1..n : hosts[p][i] \in Nat
  BY <1>1, ShownFacts
<1>3. members[p] \in Seq(Obs)
  BY DEF IInv, Typed
<1>4. members[p] = [i \in 1..n |-> members[p][i]] /\ \A i \in 1..n : members[p][i] \in Obs
  BY <1>1, <1>2, <1>3
<1>5. \A i \in 1..n : /\ members[p][i] = [ID |-> hosts[p][i], Address |-> members[p][i].Address]
                      /\ members[p][i].ID = hosts[p][i] /\ hosts[p][i] \in Nat
                      /\ ~deployment.overlap => members[p][i].Address \in {NoAddress, Detail(hosts[p][i])}
  BY <1>2, <1>4 DEF IInv, Met, Obs
<1>6. Named(members[p])
  <2>1. \A i \in 1..n : members[p][i].ID = hosts[p][i]
    BY <1>5
  <2>2. IsInjective(hosts[p])
    BY DEF IInv, Typed
  <2> QED BY <1>1, <1>2, <2>1, <2>2 DEF Named, IsInjective
<1>7. Range(members[p]) \subseteq Obs
  BY <1>1, <1>2, <1>4 DEF Range
<1>8. members[p] \in SetToSeqs(Range(members[p])) /\ Cardinality(Range(members[p])) = n
  BY <1>4, <1>6, OneOrder
<1>9. ASSUME addressed(members[p]), ~deployment.overlap PROVE members[p] = Shown(p)
  <2>1. \A i \in 1..n : members[p][i] = Shown(p)[i]
    <3> SUFFICES ASSUME NEW i \in 1..n PROVE members[p][i] = Shown(p)[i]
      OBVIOUS
    <3>1. members[p][i].Address = Detail(hosts[p][i])
      BY <1>1, <1>2, <1>5, <1>9 DEF addressed
    <3> QED BY <1>2, <1>5, <3>1
  <2>2. Shown(p) = [i \in 1..n |-> Shown(p)[i]]
    BY <1>2 DEF Shown
  <2> QED BY <1>4, <2>1, <2>2
<1>10. cohortKey(members[p]) \in Range(hosts[p])
  <2>1. DOMAIN members[p] = 1..n /\ \A i \in 1..n : members[p][i].ID \in Nat
    BY <1>1, <1>2, <1>5
  <2>2. cohortKey(members[p]) \in Names(members[p])
    BY <1>6, <2>1, ManifestIs
  <2> QED BY <1>2, <1>5, <2>1, <2>2 DEF Names, Range
<1> QED BY <1>6, <1>7, <1>8, <1>9, <1>10

\* Where resumes do not overlap, a cohort is of nodes no other has.
LEMMA ResumeStep ==
  ASSUME IInv, UNCHANGED deployment, NEW p \in Program, NEW ns \in SUBSET Node, NEW fresh \in SUBSET ns,
         Resume(p, ns, fresh)
  PROVE  IInv'
<1>0. Node \subseteq Nat /\ None \notin Program /\ deployment.launches \in Nat /\ deployment.nodes \in Nat
  BY AssemblyAssumption DEF IInv, Typed, Deployment
<1>1. PICK order \in SetToSeqs(ns) : hosts' = [hosts EXCEPT ![p] = order]
  BY DEF Resume
<1>2. /\ pc[p] = "none" /\ pc' = [pc EXCEPT ![p] = "reconcile"]
      /\ Cardinality(ns) >= 2 /\ ns \subseteq 1..deployment.nodes
      /\ \A n \in ns : owner[n] = None \/ deployment.overlap
      /\ \A n \in fresh : ip[n] < deployment.launches
      /\ owner' = [n \in Node |-> IF n \in ns THEN p ELSE owner[n]]
      /\ ip' = [n \in Node |-> IF n \in fresh THEN ip[n] + 1 ELSE ip[n]]
      /\ UNCHANGED <<members, bucket, inflight, published>>
  BY DEF Resume, goes
<1>3. Cardinality(ns) \in Nat
  <2>1. IsFiniteSet(ns)
    <3> PICK m \in Nat : m = deployment.nodes
      BY <1>0
    <3>1. IsFiniteSet(1..m)
      BY FS_Interval
    <3> QED BY <1>2, <3>1, FS_Subset
  <2> QED BY <2>1, FS_CardinalityType
<1>4. /\ order \in [1..Cardinality(ns) -> ns] /\ IsInjective(order)
  BY <1>1 DEF SetToSeqs, IsInjective
<1>5. order \in Seq(Node) /\ order # <<>> /\ DOMAIN order = 1..Cardinality(ns)
  <2>1. PICK c \in Nat : c = Cardinality(ns) /\ c >= 2
    BY <1>2, <1>3
  <2>2. order \in [1..c -> Node]
    BY <1>4, <2>1
  <2> QED BY <2>1, <2>2
<1>6. /\ hosts'[p] = order /\ pc'[p] = "reconcile"
      /\ \A q \in Program : q # p => hosts'[q] = hosts[q] /\ pc'[q] = pc[q]
  BY <1>1, <1>2 DEF IInv, Typed
<1>7. Typed'
  <2>1. hosts' \in [Program -> Seq(Node)] /\ \A q \in Program : IsInjective(hosts'[q])
    BY <1>1, <1>4, <1>5, <1>6 DEF IInv, Typed
  <2>2. ip' \in [Node -> 0..deployment.launches]
    BY <1>0, <1>2 DEF IInv, Typed
  <2> QED BY <1>2, <2>1, <2>2 DEF IInv, Typed, Obs
<1>8. ASSUME ~deployment.overlap, NEW q \in Program, q # p, NEW i \in DOMAIN hosts[q]
      PROVE  /\ owner[hosts[q][i]] = q => owner'[hosts[q][i]] = q /\ ip'[hosts[q][i]] = ip[hosts[q][i]]
             /\ owner'[hosts[q][i]] = q => owner[hosts[q][i]] = q
  <2>1. hosts[q][i] \in Node
    BY DEF IInv, Typed
  <2> QED BY <1>0, <1>2, <1>8, <2>1
<1>9. Owned(p)'
  BY <1>2, <1>4, <1>5, <1>6 DEF Owned
<1>10. ASSUME ~deployment.overlap PROVE \A q \in Program : q # p => (Owned(q)' <=> Owned(q))
  BY <1>10, <1>6, <1>8 DEF Owned
<1>11. Held'
  BY <1>5, <1>6, <1>9, <1>10 DEF IInv, Held
<1>12. Met'
  <2> SUFFICES ASSUME NEW q \in Program, pc'[q] = "assemble"
               PROVE  /\ DOMAIN members[q] = DOMAIN hosts'[q]
                      /\ \A i \in DOMAIN hosts'[q] :
                           /\ members[q][i].ID = hosts'[q][i]
                           /\ ~deployment.overlap => members[q][i].Address \in {NoAddress, Detail(hosts[q][i])'}
    BY <1>2 DEF Met, NoAddress
  <2>1. q # p /\ pc[q] = "assemble" /\ hosts'[q] = hosts[q]
    BY <1>6
  <2>2. /\ DOMAIN members[q] = DOMAIN hosts[q]
        /\ \A i \in DOMAIN hosts[q] : members[q][i].ID = hosts[q][i]
    BY <2>1 DEF IInv, Met
  <2>3. ASSUME ~deployment.overlap, NEW i \in DOMAIN hosts[q]
        PROVE  members[q][i].Address \in {NoAddress, Detail(hosts[q][i])'}
    <3>1. Owned(q)
      BY <2>1, <2>3 DEF IInv, Held
    <3>2. ip'[hosts[q][i]] = ip[hosts[q][i]]
      BY <1>8, <2>1, <2>3, <3>1 DEF Owned
    <3>3. members[q][i].Address \in {NoAddress, Detail(hosts[q][i])}
      BY <2>1, <2>3 DEF IInv, Met
    <3> QED BY <2>1, <3>2, <3>3 DEF Detail
  <2> QED BY <2>1, <2>2, <2>3
<1>13. Issued' /\ Stored'
  BY <1>2 DEF IInv, Issued, Stored, Obs
<1>14. Kept'
  <2> SUFFICES ASSUME deployment.faults = {}, ~deployment.overlap, NEW q \in Program, pc'[q] = "ready", Owned(q)'
               PROVE  /\ cohortKey(Shown(q)') \in DOMAIN bucket
                      /\ bucket[cohortKey(Shown(q)')] = Manifest(Shown(q)')
    BY <1>2 DEF Kept, Manifest, cohortKey, ordered
  <2>1. q # p /\ pc[q] = "ready" /\ hosts'[q] = hosts[q] /\ Owned(q)
    BY <1>6, <1>10
  <2>2. Shown(q)' = Shown(q)
    BY <1>8, <2>1 DEF Shown, Owned, Detail
  <2> QED BY <2>1, <2>2 DEF IInv, Kept
<1> QED BY <1>7, <1>11, <1>12, <1>13, <1>14 DEF IInv

\* The barrier shows what the Enroller says of the instances that run, or nothing.
LEMMA EnrolledStep ==
  ASSUME IInv, UNCHANGED deployment, NEW p \in Program, NEW silent \in SUBSET Range(hosts[p]),
         IsEnrolled(p, silent)
  PROVE  IInv'
<1>1. /\ pc[p] = "reconcile" /\ pc' = [pc EXCEPT ![p] = "assemble"]
      /\ UNCHANGED <<deployment, owner, ip, hosts, bucket, inflight, published>>
  BY DEF IsEnrolled, goes
<1> DEFINE shown == [i \in DOMAIN hosts[p] |->
                       [ID |-> hosts[p][i],
                        Address |-> IF hosts[p][i] \in silent THEN NoAddress ELSE Detail(hosts[p][i])]]
<1>2. members' = [members EXCEPT ![p] = shown]
  BY DEF IsEnrolled
<1>3. shown \in Seq(Obs)
  <2>1. hosts[p] \in Seq(Node) /\ deployment.launches \in Nat
    BY AssemblyAssumption DEF IInv, Typed, Deployment
  <2>2. \A i \in DOMAIN hosts[p] : hosts[p][i] \in Node /\ ip[hosts[p][i]] \in 0..deployment.launches
    BY <2>1 DEF IInv, Typed
  <2>3. \A i \in DOMAIN hosts[p] : shown[i] \in Obs
    BY <2>1, <2>2 DEF Obs, NoAddress, Detail
  <2>4. PICK n \in Nat : DOMAIN hosts[p] = 1..n
    BY <2>1
  <2>5. shown \in [1..n -> Obs]
    BY <2>3, <2>4
  <2> HIDE DEF shown
  <2> QED BY <2>5
<1> HIDE DEF shown
<1>4. /\ pc'[p] = "assemble" /\ members'[p] = shown
      /\ \A q \in Program : q # p => pc'[q] = pc[q] /\ members'[q] = members[q]
      /\ pc' \in [Program -> {"none", "reconcile", "assemble", "ready", "failed"}]
      /\ members' \in [Program -> Seq(Obs)]
  BY <1>1, <1>2, <1>3 DEF IInv, Typed
<1>5. Typed'
  BY <1>1, <1>4 DEF IInv, Typed, Obs
<1>6. Held'
  BY <1>1, <1>4 DEF IInv, Held, Owned
<1>7. Met'
  <2>1. /\ DOMAIN shown = DOMAIN hosts[p]
        /\ \A i \in DOMAIN hosts[p] : /\ shown[i].ID = hosts[p][i]
                                      /\ shown[i].Address \in {NoAddress, Detail(hosts[p][i])}
    BY DEF shown
  <2> QED BY <1>1, <1>4, <2>1 DEF IInv, Met, Detail
<1>8. Issued' /\ Stored'
  BY <1>1 DEF IInv, Issued, Stored, Obs
<1>9. Kept'
  BY <1>1, <1>4 DEF IInv, Kept, Owned, Shown, Detail
<1> QED BY <1>5, <1>6, <1>7, <1>8, <1>9 DEF IInv

\* A process that is gone has shown no more; nothing changes for the others.
LEMMA ExitFacts ==
  ASSUME IInv, NEW p \in Program, NEW from \in SUBSET {"reconcile", "assemble"}, NEW to \in {"ready", "failed"},
         exits(p, from, to)
  PROVE  /\ pc[p] \in from /\ pc'[p] = to
         /\ hosts'[p] = IF to = "ready" THEN hosts[p] ELSE <<>>
         /\ \A q \in Program : q # p => pc'[q] = pc[q] /\ members'[q] = members[q] /\ hosts'[q] = hosts[q]
         /\ pc' \in [Program -> {"none", "reconcile", "assemble", "ready", "failed"}]
         /\ members' \in [Program -> Seq(Obs)] /\ hosts' \in [Program -> Seq(Node)]
         /\ \A q \in Program : IsInjective(hosts'[q])
<1>1. /\ pc[p] \in from /\ pc' = [pc EXCEPT ![p] = to] /\ members' = [members EXCEPT ![p] = <<>>]
      /\ hosts' = [hosts EXCEPT ![p] = IF to = "ready" THEN hosts[p] ELSE <<>>]
  BY DEF exits, goes, IInv, Typed
<1>2. /\ pc \in [Program -> {"none", "reconcile", "assemble", "ready", "failed"}]
      /\ hosts \in [Program -> Seq(Node)] /\ members \in [Program -> Seq(Obs)]
      /\ \A q \in Program : IsInjective(hosts[q])
  BY DEF IInv, Typed
<1>3. <<>> \in Seq(Node) /\ <<>> \in Seq(Obs) /\ IsInjective(<<>>)
  BY DEF IsInjective
<1>4. \A q \in Program : IsInjective(hosts'[q])
  BY <1>1, <1>2, <1>3
<1> QED BY <1>1, <1>2, <1>3, <1>4

\* Before it publishes, or instead.
LEMMA FailStep ==
  ASSUME IInv, UNCHANGED deployment, NEW p \in Program, AssembleRefuses(p) \/ Fails(p)
  PROVE  IInv'
<1>1. /\ exits(p, {"reconcile", "assemble"}, "failed") \/ exits(p, {"assemble"}, "failed")
      /\ UNCHANGED <<deployment, owner, ip, bucket, inflight, published>>
  BY DEF AssembleRefuses, Fails
<1>2. /\ pc'[p] = "failed"
      /\ \A q \in Program : q # p => pc'[q] = pc[q] /\ members'[q] = members[q] /\ hosts'[q] = hosts[q]
      /\ pc' \in [Program -> {"none", "reconcile", "assemble", "ready", "failed"}]
      /\ members' \in [Program -> Seq(Obs)] /\ hosts' \in [Program -> Seq(Node)]
      /\ \A q \in Program : IsInjective(hosts'[q])
  BY <1>1, ExitFacts
<1>3. Typed'
  BY <1>1, <1>2 DEF IInv, Typed, Obs
<1>4. \A q \in Program : q # p => (Owned(q)' <=> Owned(q)) /\ Shown(q)' = Shown(q)
  BY <1>1, <1>2 DEF Owned, Shown, Detail
<1>5. Held' /\ Met'
  <2>1. Held'
    BY <1>2, <1>4 DEF IInv, Held
  <2>2. Met'
    <3> SUFFICES ASSUME NEW q \in Program, pc'[q] = "assemble"
                 PROVE  /\ DOMAIN members'[q] = DOMAIN hosts'[q]
                        /\ \A i \in DOMAIN hosts'[q] :
                             /\ members'[q][i].ID = hosts'[q][i]
                             /\ ~deployment.overlap =>
                                  members'[q][i].Address \in {NoAddress, Detail(hosts'[q][i])}
      BY <1>1 DEF Met, Detail
    <3>1. pc[q] = "assemble" /\ members'[q] = members[q] /\ hosts'[q] = hosts[q]
      BY <1>2
    <3> QED BY <3>1 DEF IInv, Met
  <2> QED BY <2>1, <2>2
<1>6. Issued' /\ Stored'
  BY <1>1 DEF IInv, Issued, Stored, Obs
<1>7. Kept'
  <2> SUFFICES ASSUME deployment.faults = {}, ~deployment.overlap, NEW q \in Program, pc'[q] = "ready", Owned(q)'
               PROVE  /\ cohortKey(Shown(q)') \in DOMAIN bucket
                      /\ bucket[cohortKey(Shown(q)')] = Manifest(Shown(q)')
    BY <1>1 DEF Kept, Manifest, cohortKey, ordered
  <2>1. q # p
    BY <1>2
  <2> QED BY <1>2, <1>4, <2>1 DEF IInv, Kept
<1> QED BY <1>3, <1>5, <1>6, <1>7 DEF IInv

\* What a process writes is under the name of a node that it has, so that it is not
\* what another has written.
LEMMA PublishStep ==
  ASSUME IInv, UNCHANGED deployment, NEW p \in Program, PublishOK(p) \/ PublishFails(p)
  PROVE  IInv'
<1> DEFINE m == Manifest(members[p])
<1>1. PICK to \in {"ready", "failed"} :
        /\ exits(p, {"assemble"}, to)
        /\ addressed(members[p])
        /\ published' = published \cup {[cohort |-> hosts[p], of |-> Range(members[p]), manifest |-> m]}
        /\ UNCHANGED <<deployment, owner, ip>>
        /\ \/ Put(m) /\ UNCHANGED inflight
           \/ to = "failed" /\ UNCHANGED <<bucket, inflight>>
           \/ /\ to = "failed" /\ "late" \in deployment.faults /\ UNCHANGED bucket
              /\ inflight' = inflight \cup {m}
  BY DEF PublishOK, PublishFails, Publish
<1>2. /\ pc[p] = "assemble" /\ pc'[p] = to
      /\ hosts'[p] = IF to = "ready" THEN hosts[p] ELSE <<>>
      /\ \A q \in Program : q # p => pc'[q] = pc[q] /\ members'[q] = members[q] /\ hosts'[q] = hosts[q]
      /\ pc' \in [Program -> {"none", "reconcile", "assemble", "ready", "failed"}]
      /\ members' \in [Program -> Seq(Obs)] /\ hosts' \in [Program -> Seq(Node)]
      /\ \A q \in Program : IsInjective(hosts'[q])
  BY <1>1, ExitFacts
<1>3. /\ members[p] \in SetToSeqs(Range(members[p])) /\ Cardinality(Range(members[p])) \in Nat \ {0}
      /\ Range(members[p]) \subseteq Obs /\ Named(members[p])
      /\ cohortKey(members[p]) \in Range(hosts[p])
      /\ ~deployment.overlap => members[p] = Shown(p)
  BY <1>1, <1>2, WiredFacts
<1>4. hosts[p] # <<>> /\ (~deployment.overlap => Owned(p))
  BY <1>2 DEF IInv, Held
<1>5. /\ ~deployment.overlap => m.Cohort = cohortKey(Shown(p)) /\ m = Manifest(Shown(p))
      /\ m.Cohort \in Range(hosts[p]) /\ m.Cohort \in Node
  <2>1. ~deployment.overlap => m.Cohort = cohortKey(Shown(p)) /\ m = Manifest(Shown(p))
    BY <1>3 DEF Manifest
  <2>2. m.Cohort \in Range(hosts[p])
    BY <1>3 DEF Manifest
  <2>3. Range(hosts[p]) \subseteq Node
    BY DEF IInv, Typed, Range
  <2> QED BY <2>1, <2>2, <2>3
<1> HIDE DEF m
<1>6. /\ DOMAIN bucket' \subseteq DOMAIN bucket \cup {m.Cohort} /\ DOMAIN bucket \subseteq DOMAIN bucket'
      /\ \A k \in DOMAIN bucket' : bucket'[k] = m \/ (k \in DOMAIN bucket /\ bucket'[k] = bucket[k])
      /\ \A k \in DOMAIN bucket : k # m.Cohort => bucket'[k] = bucket[k]
      /\ to = "ready" => m.Cohort \in DOMAIN bucket' /\ bucket'[m.Cohort] = m
      /\ inflight' \subseteq inflight \cup {m} /\ (deployment.faults = {} => inflight' = inflight)
  BY <1>1 DEF Put
<1>7. Typed'
  BY <1>1, <1>2 DEF IInv, Typed, Obs
<1>8. Held' /\ Met'
  <2>1. \A q \in Program : q # p => (Owned(q)' <=> Owned(q))
    BY <1>1, <1>2 DEF Owned
  <2>2. Held'
    BY <1>1, <1>2, <1>4, <2>1 DEF IInv, Held
  <2>3. Met'
    <3> SUFFICES ASSUME NEW q \in Program, pc'[q] = "assemble"
                 PROVE  /\ DOMAIN members'[q] = DOMAIN hosts'[q]
                        /\ \A i \in DOMAIN hosts'[q] :
                             /\ members'[q][i].ID = hosts'[q][i]
                             /\ ~deployment.overlap =>
                                  members'[q][i].Address \in {NoAddress, Detail(hosts'[q][i])}
      BY <1>1 DEF Met, Detail
    <3>1. pc[q] = "assemble" /\ members'[q] = members[q] /\ hosts'[q] = hosts[q]
      BY <1>2
    <3> QED BY <3>1 DEF IInv, Met
  <2> QED BY <2>2, <2>3
<1>9. Issued'
  <2> DEFINE new == [cohort |-> hosts[p], of |-> Range(members[p]), manifest |-> m]
  <2>1. \E ms \in SetToSeqs(new.of) :
          /\ Cardinality(new.of) \in Nat \ {0} /\ Range(ms) = new.of /\ Range(ms) \subseteq Obs
          /\ Named(ms) /\ addressed(ms) /\ new.manifest = Manifest(ms)
    BY <1>1, <1>3 DEF m
  <2> HIDE DEF new
  <2>2. published' = published \cup {new} /\ Obs' = Obs
    BY <1>1 DEF Obs, new
  <2> QED BY <2>1, <2>2 DEF IInv, Issued
<1>10. Stored'
  <2> DEFINE new == [cohort |-> hosts[p], of |-> Range(members[p]), manifest |-> m]
  <2>0. new.manifest = m /\ published' = published \cup {new}
    BY <1>1
  <2> HIDE DEF new
  <2>1. {x.manifest : x \in published'} = {x.manifest : x \in published} \cup {m}
    BY <2>0
  <2> QED BY <1>1, <1>5, <1>6, <2>1 DEF IInv, Stored
<1>11. Kept'
  <2> SUFFICES ASSUME deployment.faults = {}, ~deployment.overlap, NEW q \in Program, pc'[q] = "ready", Owned(q)'
               PROVE  /\ cohortKey(Shown(q)') \in DOMAIN bucket'
                      /\ bucket'[cohortKey(Shown(q)')] = Manifest(Shown(q)')
    BY <1>1 DEF Kept, Manifest, cohortKey, ordered
  <2>1. hosts'[q] = hosts[q] /\ Shown(q)' = Shown(q) /\ Owned(q)
    BY <1>1, <1>2 DEF Shown, Owned, Detail
  <2>2. CASE q = p
    BY <1>2, <1>5, <1>6, <2>1, <2>2
  <2>3. CASE q # p
    <3>1. pc[q] = "ready" /\ hosts[q] # <<>>
      BY <1>2, <2>3 DEF IInv, Held
    <3>2. cohortKey(Shown(q)) \in DOMAIN bucket /\ bucket[cohortKey(Shown(q))] = Manifest(Shown(q))
      BY <2>1, <3>1 DEF IInv, Kept
    <3>3. cohortKey(Shown(q)) \in Range(hosts[q])
      BY <3>1, ShownFacts
    <3>4. cohortKey(Shown(q)) # m.Cohort
      BY <1>4, <1>5, <2>1, <2>3, <3>3 DEF Owned, Range
    <3> QED BY <1>6, <2>1, <3>2, <3>4
  <2> QED BY <2>2, <2>3
<1> QED BY <1>7, <1>8, <1>9, <1>10, <1>11 DEF IInv

\* An order of observed members is a sequence of them.
LEMMA OrderFacts ==
  ASSUME IInv, NEW S, Cardinality(S) \in Nat \ {0}, NEW ms \in SetToSeqs(S), Range(ms) \subseteq Obs
  PROVE  \E n \in Nat \ {0} :
           DOMAIN ms = 1..n /\ \A i \in 1..n : ms[i] \in Obs /\ ms[i].ID \in Node /\ ms[i].ID \in Nat
<1>1. DOMAIN ms = 1..Cardinality(S)
  BY DEF SetToSeqs
<1>2. \A i \in DOMAIN ms : ms[i] \in Obs
  BY DEF Range
<1> QED BY <1>1, <1>2, AssemblyAssumption DEF Obs

\* A late request lands, where requests may be late.
LEMMA LandsStep ==
  ASSUME IInv, UNCHANGED deployment, NEW m \in inflight, Lands(m)
  PROVE  IInv'
<1>1. /\ UNCHANGED <<deployment, owner, ip, pc, hosts, members, published>>
      /\ inflight' = inflight \ {m} /\ Put(m)
  BY DEF Lands
<1>2. Typed' /\ Held' /\ Met'
  BY <1>1 DEF IInv, Typed, Held, Met, Owned, Obs, Detail
<1>3. Issued'
  BY <1>1 DEF IInv, Issued, Obs
<1>4. m.Cohort \in Node /\ m \in {x.manifest : x \in published}
  <2>1. PICK x \in published : m = x.manifest
    BY DEF IInv, Stored
  <2>2. PICK ms \in SetToSeqs(x.of) :
          Cardinality(x.of) \in Nat \ {0} /\ Range(ms) \subseteq Obs /\ Named(ms) /\ m = Manifest(ms)
    BY <2>1 DEF IInv, Issued
  <2>3. PICK n \in Nat \ {0} : DOMAIN ms = 1..n /\ \A i \in 1..n : ms[i].ID \in Node /\ ms[i].ID \in Nat
    BY <2>2, OrderFacts
  <2>4. m.Cohort \in Names(ms)
    BY <2>2, <2>3, ManifestIs
  <2>5. m.Cohort \in Node
    BY <2>3, <2>4 DEF Names
  <2> QED BY <2>1, <2>5
<1>5. Stored'
  BY <1>1, <1>4 DEF IInv, Stored, Put
<1>6. Kept'
  BY <1>1 DEF IInv, Stored, Kept
<1> QED BY <1>2, <1>3, <1>5, <1>6 DEF IInv

\* A node that left its cohort is no longer what it was published with.
LEMMA LeaveStep ==
  ASSUME IInv, UNCHANGED deployment, NEW n \in Node, Leave(n)
  PROVE  IInv'
<1>1. /\ owner[n] # None /\ pc[owner[n]] \in {"ready", "failed"}
      /\ owner' = [owner EXCEPT ![n] = None]
      /\ UNCHANGED <<deployment, ip, pc, hosts, members, bucket, inflight, published>>
  BY DEF Leave
<1>2. /\ owner' \in [Node -> Program \cup {None}] /\ owner'[n] = None /\ None \notin Program
      /\ \A k \in Node : k # n => owner'[k] = owner[k]
  BY <1>1, AssemblyAssumption DEF IInv, Typed
<1>3. \A q \in Program : \A i \in DOMAIN hosts[q] : hosts[q][i] \in Node
  BY DEF IInv, Typed
<1>4. Typed'
  BY <1>1, <1>2 DEF IInv, Typed, Obs
<1>5. Held'
  <2> SUFFICES ASSUME ~deployment.overlap, NEW q \in Program, pc[q] \in {"reconcile", "assemble"},
                      NEW i \in DOMAIN hosts[q]
               PROVE  owner'[hosts[q][i]] = q
    BY <1>1 DEF IInv, Held, Owned
  <2>1. owner[hosts[q][i]] = q
    BY DEF IInv, Held, Owned
  <2> QED BY <1>1, <1>2, <1>3, <2>1
<1>6. Met' /\ Issued' /\ Stored'
  BY <1>1 DEF IInv, Met, Issued, Stored, Obs, Detail
<1>7. Kept'
  <2>1. \A q \in Program : Owned(q)' => Owned(q)
    BY <1>1, <1>2, <1>3 DEF Owned
  <2> QED BY <1>1, <2>1 DEF IInv, Kept, Shown, Detail
<1> QED BY <1>4, <1>5, <1>6, <1>7 DEF IInv

\* Every step keeps the invariant.
LEMMA StepIInv == IInv /\ [Next]_vars => IInv'
<1> SUFFICES ASSUME IInv, [Next]_vars PROVE IInv'
  OBVIOUS
<1>1. CASE UNCHANGED vars
  <2>1. UNCHANGED <<deployment, owner, ip, pc, hosts, members, bucket, inflight, published>>
    BY <1>1 DEF vars
  <2>2. Typed' /\ Held' /\ Met'
    BY <2>1 DEF IInv, Typed, Held, Met, Owned, Obs, Detail
  <2>3. Issued' /\ Stored' /\ Kept'
    BY <2>1 DEF IInv, Issued, Stored, Kept, Owned, Shown, Obs, Detail
  <2> QED BY <2>2, <2>3 DEF IInv
<1>2. CASE Next
  BY <1>2, ResumeStep, EnrolledStep, PublishStep, FailStep, LandsStep, LeaveStep DEF Next
<1> QED BY <1>1, <1>2

\* The inductive invariant holds in every reachable state.
THEOREM Invariance == Spec => []IInv
BY InitIInv, StepIInv, PTL DEF Spec

\* Hosts, members and manifests are what they are taken for.
THEOREM TypesHold == Spec => []TypeOK
<1>1. IInv => TypeOK
  <2> SUFFICES ASSUME IInv PROVE TypeOK
    OBVIOUS
  <2>1. \A p \in Program : IsInjective(hosts[p]) /\ Range(hosts[p]) \subseteq Node /\ Range(members[p]) \subseteq Obs
    BY DEF IInv, Typed, Range
  <2>2. ASSUME NEW x \in published PROVE Range(x.manifest.Peers) \subseteq Peer
    <3>1. PICK ms \in SetToSeqs(x.of) :
            /\ Cardinality(x.of) \in Nat \ {0} /\ Range(ms) \subseteq Obs /\ Named(ms) /\ addressed(ms)
            /\ x.manifest = Manifest(ms)
      BY DEF IInv, Issued
    <3>2. PICK n \in Nat \ {0} :
            DOMAIN ms = 1..n /\ \A i \in 1..n : ms[i] \in Obs /\ ms[i].ID \in Node /\ ms[i].ID \in Nat
      BY <3>1, OrderFacts
    <3>3. \A m \in Range(ms) : m.ID \in Node /\ m.Address \in (1..deployment.launches) \cup {AllProbesOK}
      BY <3>1, <3>2, AssemblyAssumption DEF IInv, Typed, Deployment, addressed, NoAddress, Obs, Range
    <3>4. DOMAIN ms = 1..n /\ Named(ms) /\ \A i \in 1..n : ms[i].ID \in Nat
      BY <3>1, <3>2
    <3>5. ASSUME NEW i \in 1..n PROVE Manifest(ms).Peers[i] \in Peer
      <4>1. PICK m \in Range(ms) :
              Manifest(ms).Peers[i] = [Rank |-> i - 1, Entity |-> m.ID, Address |-> m.Address]
        BY <3>4, ManifestPeer
      <4>2. i - 1 \in Nat /\ m.ID \in Node /\ m.Address \in (1..deployment.launches) \cup {AllProbesOK}
        BY <3>3
      <4> QED BY <4>1, <4>2 DEF Peer
    <3>6. DOMAIN Manifest(ms).Peers = 1..n /\ x.manifest = Manifest(ms)
      BY <3>1, <3>4, ManifestIs
    <3> QED BY <3>5, <3>6 DEF Range
  <2>3. DOMAIN bucket \subseteq Node /\ Range(bucket) \subseteq {x.manifest : x \in published}
    BY DEF IInv, Stored, Range
  <2> QED BY <2>1, <2>2, <2>3 DEF IInv, Typed, Stored, TypeOK
<1> QED BY <1>1, Invariance, PTL

\* A wire-up repeated over the same members gives the same manifest, whatever
\* the order they come in and whoever repeats it (Assemble sorts by name).
THEOREM ReissueHolds == Spec => []ReissueIsIdentical
<1>1. IInv => ReissueIsIdentical
  <2> SUFFICES ASSUME IInv, NEW x \in published, NEW y \in published, x.of = y.of
               PROVE  x.manifest = y.manifest
    BY DEF ReissueIsIdentical
  <2>1. PICK ms \in SetToSeqs(x.of) :
          /\ Cardinality(x.of) \in Nat \ {0} /\ Range(ms) = x.of /\ Range(ms) \subseteq Obs
          /\ Named(ms) /\ x.manifest = Manifest(ms)
    BY DEF IInv, Issued
  <2>2. PICK ns \in SetToSeqs(x.of) :
          Range(ns) = x.of /\ Range(ns) \subseteq Obs /\ Named(ns) /\ y.manifest = Manifest(ns)
    BY DEF IInv, Issued
  <2>3. PICK n \in Nat \ {0} : DOMAIN ms = 1..n /\ \A i \in 1..n : ms[i].ID \in Nat
    BY <2>1, OrderFacts
  <2>4. PICK m \in Nat \ {0} : DOMAIN ns = 1..m /\ \A i \in 1..m : ns[i].ID \in Nat
    BY <2>1, <2>2, OrderFacts
  <2> QED BY <2>1, <2>2, <2>3, <2>4, SameManifest
<1> QED BY <1>1, Invariance, PTL

\* Where no request lands late and resumes of a node do not overlap, a cohort that came
\* up and still has its nodes finds its own manifest in the bucket, with what the
\* Enroller says of each member (manifestKey, S3Publisher.Publish).
THEOREM OwnManifestHolds == Spec => []OwnManifest
<1>1. IInv => OwnManifest
  <2> SUFFICES ASSUME IInv, NEW p \in Program, deployment.faults = {}, ~deployment.overlap, pc[p] = "ready",
                      \A n \in Range(hosts[p]) : owner[n] = p
               PROVE  \E k \in Range(hosts[p]) :
                        /\ \A n \in Range(hosts[p]) : k <= n
                        /\ k \in DOMAIN bucket /\ bucket[k].Cohort = k
                        /\ Len(bucket[k].Peers) = Cardinality(Range(hosts[p]))
                        /\ \A n \in Range(hosts[p]) :
                             [Rank |-> Cardinality({m \in Range(hosts[p]) : m < n}), Entity |-> n, Address |-> Detail(n)]
                               \in Range(bucket[k].Peers)
    BY DEF OwnManifest
  <2> DEFINE ms == Shown(p)
             key == cohortKey(ms)
  <2>1. hosts[p] # <<>> /\ Owned(p)
    BY DEF IInv, Held, Owned, Range
  <2>2. PICK n \in Nat \ {0} :
          /\ DOMAIN hosts[p] = 1..n /\ DOMAIN ms = 1..n
          /\ \A i \in 1..n : /\ hosts[p][i] \in Node /\ hosts[p][i] \in Nat
                             /\ ms[i] = [ID |-> hosts[p][i], Address |-> Detail(hosts[p][i])]
          /\ Named(ms) /\ Names(ms) = Range(hosts[p]) /\ key \in Range(hosts[p])
    BY <2>1, ShownFacts
  <2>3. key \in DOMAIN bucket /\ bucket[key] = Manifest(ms)
    BY <2>1 DEF IInv, Kept
  <2>4. \A i \in 1..n : ms[i].ID = hosts[p][i] /\ ms[i].Address = Detail(hosts[p][i])
    BY <2>2
  <2> HIDE DEF ms, key
  <2>5. /\ key = cohortKey(ms) /\ \A k \in Names(ms) : cohortKey(ms) <= k
        /\ DOMAIN Manifest(ms).Peers = 1..n /\ Manifest(ms).Cohort = cohortKey(ms)
    BY <2>2, <2>4, ManifestIs DEF key
  <2>6. Cardinality(Range(hosts[p])) = n
    BY <2>2, NamesCount
  <2>7. Len(bucket[key].Peers) = n
    BY <2>3, <2>5 DEF Manifest
  <2>8. ASSUME NEW i \in 1..n
        PROVE  [Rank |-> Cardinality({m \in Range(hosts[p]) : m < hosts[p][i]}), Entity |-> hosts[p][i],
                Address |-> Detail(hosts[p][i])] \in Range(bucket[key].Peers)
    <3>1. PICK j \in 1..n :
            Manifest(ms).Peers[j] = [Rank |-> Cardinality({k \in Names(ms) : k < ms[i].ID}),
                                     Entity |-> ms[i].ID, Address |-> ms[i].Address]
      BY <2>2, <2>4, ManifestRanks
    <3>2. Manifest(ms).Peers[j] \in Range(Manifest(ms).Peers)
      BY <2>5 DEF Range
    <3> QED BY <2>2, <2>3, <2>4, <3>1, <3>2
  <2>9. \A k \in Range(hosts[p]) : \E i \in 1..n : k = hosts[p][i]
    BY <2>2 DEF Range
  <2>10. /\ \A k \in Range(hosts[p]) : key <= k
         /\ key \in Range(hosts[p]) /\ key \in DOMAIN bucket /\ bucket[key].Cohort = key
    BY <2>2, <2>3, <2>5
  <2>11. ASSUME NEW k \in Range(hosts[p])
         PROVE  [Rank |-> Cardinality({m \in Range(hosts[p]) : m < k}), Entity |-> k, Address |-> Detail(k)]
                  \in Range(bucket[key].Peers)
    BY <2>8, <2>9
  <2> QED BY <2>6, <2>7, <2>10, <2>11
<1> QED BY <1>1, Invariance, PTL
=============================================================================
