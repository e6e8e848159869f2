--------------------------- MODULE NodeSyncProofs ---------------------------
(***************************************************************************)
(* Proofs about NodeSync, for any number of services, ports, nodes and     *)
(* workers, failures, crashes and changes: TypeOK, MembersExact and        *)
(* PoolsSettled.                                                           *)
(*                                                                         *)
(* What updatedPoolMembers returns is proved by induction over the old     *)
(* members, as the absence of a smallest counterexample.  It is exact only *)
(* for old members without duplicates (PoolsInv), as it compares numbers   *)
(* of members and addresses.  SettledInv says which list of nodes a        *)
(* service has, or who is going to bring the current one.                  *)
(***************************************************************************)
EXTENDS NodeSync, TLAPS, FiniteSetTheorems, WellFoundedInduction

-----------------------------------------------------------------------------
(***************************************************************************)
(* The inductive invariant                                                 *)
(***************************************************************************)

Busy(p) == call[p] # NoCall

\* The types of the variables, in parts that steps change together.
NsxtOK ==
  /\ pools \in [Svc -> [Port -> Seq(Address) \cup {NoPool}]]
  /\ servers \in [Svc -> SUBSET Port]

CountsOK ==
  /\ counts \in [DOMAIN Bound -> Nat]
  /\ \A b \in DOMAIN Bound : counts[b] <= Bound[b]

ControllerOK ==
  /\ nodes \subseteq Node /\ knownHosts \subseteq Node
  /\ phase \in [Svc -> {"absent", "present", "deleting"}]
  /\ queue \subseteq Svc /\ cache \subseteq Svc /\ servicesToUpdate \subseteq Svc
  /\ late \subseteq Svc
  /\ sync \in [on : BOOLEAN, hosts : SUBSET Node, todo : SUBSET Svc, retry : SUBSET Svc]

ProviderOK ==
  /\ holder \in [Svc -> Proc \cup {NoProc}]
  /\ pc \in [Proc -> {"idle", "lock", "work", "unlock", "exists"}]
  /\ call \in [Proc -> Call] /\ err \in [Proc -> BOOLEAN]

TypesInv == NsxtOK /\ CountsOK /\ ControllerOK /\ ProviderOK

\* A goroutine is inside an operation of its own kind, and an error ends the operation.
ControlInv ==
  /\ \A p \in Proc :
       /\ pc[p] = "idle" <=> ~Busy(p)
       /\ Busy(p) => (call[p].op = "update" <=> p = Sync)
       /\ pc[p] = "exists" => p = Sync
       /\ pc[p] # "unlock" => ~err[p]
  /\ Busy(Sync) => sync.on /\ call[Sync].hosts = sync.hosts

\* The key of a service is held by the goroutine that works on it.
LockInv ==
  \A p \in Proc, s \in Svc :
    holder[s] = p <=> pc[p] \in {"work", "unlock"} /\ call[p].svc = s

\* A service is processed by one worker at a time.
WorkerInv ==
  /\ \A v, w \in Worker : Busy(v) /\ Busy(w) /\ call[v].svc = call[w].svc => v = w
  /\ \A w \in Worker : Busy(w) /\ call[w].op = "delete" => phase[call[w].svc] = "deleting"

NoDuplicates(m) == \A i, j \in 1 .. Len(m) : m[i] = m[j] => i = j

\* No address is twice in a pool, and a virtual server has a pool.
PoolsInv ==
  \A s \in Svc, q \in Port :
    /\ pools[s][q] # NoPool => NoDuplicates(pools[s][q])
    /\ q \in servers[s] => pools[s][q] # NoPool

\* What call c has to achieve for port q.
PortDone(c, q) ==
  \/ c.op = "ensure" /\ Exact(c.svc, q, c.hosts) /\ q \in servers[c.svc]
  \/ c.op = "update" /\ (pools[c.svc][q] = NoPool \/ Exact(c.svc, q, c.hosts))
  \/ c.op = "delete" /\ pools[c.svc][q] = NoPool

ProgressInv ==
  \A p \in Proc : Busy(p) /\ pc[p] # "exists" /\ ~err[p] =>
    /\ \A q \in Port \ call[p].todo : PortDone(call[p], q)
    /\ pc[p] = "lock" /\ call[p].op # "delete" => call[p].todo = Port
    /\ pc[p] = "unlock" => call[p].todo = {}

ExactFor(s, hosts) == \A q \in Port : Exact(s, q, hosts)

\* The node sync loop is going to write the pools of s with its list.
Pending(s) == sync.on /\ (s \in sync.todo \/ (pc[Sync] = "lock" /\ call[Sync].svc = s))

\* The pools of s are as the node sync loop wants them, or it remembers that they are not.
Settled(s) ==
  IF sync.on
  THEN \/ s \in sync.todo \/ s \in sync.retry
       \/ Busy(Sync) /\ call[Sync].svc = s
       \/ ExactFor(s, sync.hosts)
  ELSE s \in servicesToUpdate \/ ExactFor(s, knownHosts)

\* What holds of a service that is not queued, while it is processed or not.
ServiceSettled(s) ==
  /\ s \in cache
  /\ ~Processed(s) => servers[s] = Port /\ (s \in late \/ Settled(s))
  /\ \A w \in Worker :
       Busy(w) /\ call[w].svc = s /\ pc[w] \in {"work", "unlock"} /\ ~err[w] =>
         s \in late \/ call[w].hosts = Target \/ Pending(s)

SettledInv == \A s \in Svc : phase[s] = "present" /\ s \notin queue => ServiceSettled(s)

NodeInv ==
  /\ TypesInv /\ ControlInv /\ LockInv /\ WorkerInv /\ PoolsInv /\ ProgressInv
  /\ SettledInv

-----------------------------------------------------------------------------
(***************************************************************************)
(* Induction                                                               *)
(***************************************************************************)

\* A set of natural numbers has a least element.
LEMMA LeastElement ==
  ASSUME NEW T \in SUBSET Nat, T # {}
  PROVE  \E n \in T : \A k \in T : n <= k
<1> DEFINE R == {ss \in Nat \X Nat : ss[1] < ss[2]}
<1>1. IsWellFoundedOn(R, Nat)
  BY NatLessThanWellFounded DEF OpToRel
<1> HIDE DEF R
<1>2. PICK n \in T : \A k \in T : ~(<<k, n>> \in R)
  BY <1>1, WFMin
<1>3. ASSUME NEW k \in T PROVE n <= k
  <2>1. n \in Nat /\ k \in Nat /\ ~(<<k, n>> \in R)
    BY <1>2
  <2>2. ~(k < n)
    BY <2>1 DEF R
  <2> QED
    BY <2>1, <2>2
<1> QED
  BY <1>3

\* Induction for a property that is given as a set.
LEMMA Induction ==
  ASSUME NEW T \in SUBSET Nat, 0 \in T, \A n \in T : n + 1 \in T
  PROVE  T = Nat
<1> SUFFICES ASSUME Nat \ T # {} PROVE FALSE
  OBVIOUS
<1>1. PICK n \in Nat \ T : \A k \in Nat \ T : n <= k
  <2>1. Nat \ T \in SUBSET Nat
    OBVIOUS
  <2> QED
    BY <2>1, LeastElement
<1>2. n - 1 \in Nat /\ n = (n - 1) + 1
  BY <1>1
<1>3. n - 1 \in T
  BY <1>1, <1>2
<1> QED
  BY <1>1, <1>2, <1>3

-----------------------------------------------------------------------------
(***************************************************************************)
(* The members of a pool                                                   *)
(***************************************************************************)

\* One more member is looked at.
Kept(k, a, A) == IF a \in A THEN Append(k, a) ELSE k

\* The function StillNodes is defined with exists.
LEMMA StillNodesDefined ==
  ASSUME NEW m, NEW A, NEW N \in Nat
  PROVE  \E f : f = [n \in 0 .. N |-> IF n = 0 THEN <<>> ELSE Kept(f[n - 1], m[n], A)]
<1> DEFINE D(f, M) == f = [n \in 0 .. M |-> IF n = 0 THEN <<>> ELSE Kept(f[n - 1], m[n], A)]
           T == {M \in Nat : \E f : D(f, M)}
<1>1. 0 \in T
  <2>1. D([n \in 0 .. 0 |-> <<>>], 0)
    OBVIOUS
  <2> QED
    BY <2>1
<1>2. ASSUME NEW M \in T PROVE M + 1 \in T
  <2>1. PICK f : D(f, M)
    OBVIOUS
  <2> DEFINE g == [n \in 0 .. M + 1 |-> IF n = M + 1 THEN Kept(f[M], m[M + 1], A) ELSE f[n]]
  <2>2. ASSUME NEW n \in 0 .. M + 1
        PROVE  g[n] = IF n = 0 THEN <<>> ELSE Kept(g[n - 1], m[n], A)
    <3>1. CASE n = 0
      <4>1. n \in 0 .. M /\ n # M + 1
        BY <3>1
      <4> QED
        BY <2>1, <3>1, <4>1
    <3>2. CASE n # 0 /\ n # M + 1
      <4>1. n \in 0 .. M /\ n - 1 \in 0 .. M /\ n - 1 # M + 1
        BY <3>2
      <4>2. g[n] = f[n] /\ g[n - 1] = f[n - 1]
        BY <3>2, <4>1
      <4>3. f[n] = Kept(f[n - 1], m[n], A)
        BY <2>1, <3>2, <4>1
      <4> QED
        BY <3>2, <4>2, <4>3
    <3>3. CASE n = M + 1
      <4>1. M \in 0 .. M + 1 /\ M # M + 1 /\ n - 1 = M /\ n # 0
        BY <3>3
      <4>2. g[M] = f[M] /\ g[n] = Kept(f[M], m[M + 1], A)
        BY <3>3, <4>1
      <4> QED
        BY <3>3, <4>1, <4>2
    <3> QED
      BY <3>1, <3>2, <3>3
  <2>3. D(g, M + 1)
    <3> DEFINE h == [n \in 0 .. M + 1 |-> IF n = 0 THEN <<>> ELSE Kept(g[n - 1], m[n], A)]
    <3>1. \A n \in 0 .. M + 1 : g[n] = h[n]
      BY <2>2
    <3> HIDE DEF g
    <3>2. g = h
      BY <3>1 DEF g
    <3> QED
      BY <3>2
  <2> HIDE DEF D, g
  <2>4. M + 1 \in Nat /\ \E h : D(h, M + 1)
    BY <2>3
  <2> QED
    BY <2>4
<1> HIDE DEF T
<1>3. T = Nat
  <2>1. T \in SUBSET Nat
    BY DEF T
  <2> QED
    BY <1>1, <1>2, <2>1, Induction
<1> QED
  BY <1>3 DEF T

\* The members that are left are the old ones with an address of a node.
LEMMA StillNodesKeeps ==
  ASSUME NEW m \in Seq(Address), NEW A
  PROVE  LET k == StillNodes(m, A) IN
         /\ k \in Seq(Address) /\ ToSet(k) = ToSet(m) \cap A
         /\ NoDuplicates(m) => NoDuplicates(k)
<1> DEFINE N == Len(m)
           F == CHOOSE f : f = [n \in 0 .. N |->
                                  IF n = 0 THEN <<>> ELSE Kept(f[n - 1], m[n], A)]
<1>1. StillNodes(m, A) = F[N]
  BY DEF StillNodes, Kept
<1>2. N \in Nat
  OBVIOUS
<1>3. F = [n \in 0 .. N |-> IF n = 0 THEN <<>> ELSE Kept(F[n - 1], m[n], A)]
  BY <1>2, StillNodesDefined
<1> HIDE DEF F, N
<1> DEFINE I(n) == /\ F[n] \in Seq(Address)
                   /\ \A i \in 1 .. Len(F[n]) : \E j \in 1 .. n : F[n][i] = m[j]
                   /\ \A i \in 1 .. Len(F[n]) : F[n][i] \in A
                   /\ \A j \in 1 .. n : m[j] \in A => \E i \in 1 .. Len(F[n]) : F[n][i] = m[j]
                   /\ NoDuplicates(m) => NoDuplicates(F[n])
           T == {n \in Nat : n <= N => I(n)}
<1>4. 0 \in T
  <2>1. F[0] = <<>>
    BY <1>2, <1>3
  <2>2. I(0)
    BY <2>1 DEF NoDuplicates
  <2> HIDE DEF I
  <2> QED
    BY <2>2
<1>5. ASSUME NEW n \in T PROVE n + 1 \in T
  <2> SUFFICES ASSUME n + 1 <= N PROVE I(n + 1)
    OBVIOUS
  <2>1. n \in Nat /\ n <= N /\ I(n)
    BY <1>2
  <2>2. n + 1 \in 0 .. N /\ n + 1 # 0 /\ (n + 1) - 1 = n /\ n + 1 \in 1 .. N
    BY <1>2, <2>1
  <2>3. F[n + 1] = Kept(F[n], m[n + 1], A)
    BY <1>3, <2>2
  <2>4. CASE m[n + 1] \notin A
    <3>1. F[n + 1] = F[n]
      BY <2>3, <2>4 DEF Kept
    <3> QED
      BY <2>1, <2>4, <3>1
  <2>5. CASE m[n + 1] \in A
    <3> DEFINE k == F[n]  a == m[n + 1]  l == F[n + 1]
    <3>1. a \in Address
      BY <2>2 DEF N
    <3>2. l = Append(k, a) /\ k \in Seq(Address)
      BY <2>1, <2>3, <2>5 DEF Kept
    <3>3. /\ l \in Seq(Address) /\ Len(l) = Len(k) + 1 /\ l[Len(k) + 1] = a /\ Len(k) \in Nat
          /\ \A i \in 1 .. Len(k) : l[i] = k[i]
      BY <3>1, <3>2
    <3> HIDE DEF k, a, l
    <3>4. /\ \A i \in 1 .. Len(k) : \E j \in 1 .. n : k[i] = m[j]
          /\ \A i \in 1 .. Len(k) : k[i] \in A
          /\ \A j \in 1 .. n : m[j] \in A => \E i \in 1 .. Len(k) : k[i] = m[j]
          /\ NoDuplicates(m) => NoDuplicates(k)
      BY <2>1 DEF k
    <3>5. a = m[n + 1] /\ a \in A
      BY <2>5 DEF a
    <3>6. ASSUME NEW i \in 1 .. Len(l) PROVE (\E j \in 1 .. n + 1 : l[i] = m[j]) /\ l[i] \in A
      <4>1. CASE i = Len(k) + 1
        <5>1. n + 1 \in 1 .. n + 1
          BY <2>1
        <5> QED
          BY <3>3, <3>5, <4>1, <5>1
      <4>2. CASE i # Len(k) + 1
        <5>1. i \in 1 .. Len(k)
          BY <3>3, <4>2
        <5>2. PICK j \in 1 .. n : k[i] = m[j]
          BY <3>4, <5>1
        <5>3. j \in 1 .. n + 1 /\ l[i] = k[i] /\ k[i] \in A
          BY <2>1, <3>3, <3>4, <5>1
        <5> QED
          BY <5>2, <5>3
      <4> QED
        BY <4>1, <4>2
    <3>7. ASSUME NEW j \in 1 .. n + 1, m[j] \in A PROVE \E i \in 1 .. Len(l) : l[i] = m[j]
      <4>1. CASE j = n + 1
        <5>1. Len(k) + 1 \in 1 .. Len(l)
          BY <3>3
        <5> QED
          BY <3>3, <3>5, <4>1, <5>1
      <4>2. CASE j # n + 1
        <5>1. j \in 1 .. n
          BY <2>1, <4>2
        <5>2. PICK i \in 1 .. Len(k) : k[i] = m[j]
          BY <3>4, <3>7, <5>1
        <5>3. i \in 1 .. Len(l) /\ l[i] = k[i]
          BY <3>3, <5>2
        <5> QED
          BY <5>2, <5>3
      <4> QED
        BY <4>1, <4>2
    <3>8. ASSUME NoDuplicates(m) PROVE NoDuplicates(l)
      <4>1. ASSUME NEW i \in 1 .. Len(k) PROVE k[i] # a
        <5>1. PICK j \in 1 .. n : k[i] = m[j]
          BY <3>4
        <5>2. j \in 1 .. Len(m) /\ n + 1 \in 1 .. Len(m) /\ j # n + 1
          BY <2>1, <2>2, <1>2 DEF N
        <5> QED
          BY <3>5, <3>8, <5>1, <5>2 DEF NoDuplicates
      <4>2. NoDuplicates(k)
        BY <3>4, <3>8
      <4>3. ASSUME NEW i \in 1 .. Len(l), NEW j \in 1 .. Len(l), l[i] = l[j] PROVE i = j
        <5>1. CASE i \in 1 .. Len(k) /\ j \in 1 .. Len(k)
          BY <3>3, <4>2, <4>3, <5>1 DEF NoDuplicates
        <5>2. CASE i = Len(k) + 1 /\ j \in 1 .. Len(k)
          BY <3>3, <4>1, <4>3, <5>2
        <5>3. CASE i \in 1 .. Len(k) /\ j = Len(k) + 1
          BY <3>3, <4>1, <4>3, <5>3
        <5> QED
          BY <3>3, <5>1, <5>2, <5>3
      <4> QED
        BY <4>3 DEF NoDuplicates
    <3> QED
      BY <3>3, <3>6, <3>7, <3>8 DEF l
  <2> QED
    BY <2>4, <2>5
<1> HIDE DEF I
<1>6. I(N)
  <2>1. T \in SUBSET Nat
    OBVIOUS
  <2> HIDE DEF T
  <2>2. T = Nat
    BY <1>4, <1>5, <2>1, Induction
  <2> QED
    BY <1>2, <2>2 DEF T
<1>7. ToSet(F[N]) = ToSet(m) \cap A
  <2>1. DOMAIN F[N] = 1 .. Len(F[N]) /\ DOMAIN m = 1 .. N
    BY <1>6 DEF N, I
  <2>2. ASSUME NEW i \in 1 .. Len(F[N]) PROVE F[N][i] \in A /\ \E j \in 1 .. N : F[N][i] = m[j]
    BY <1>6 DEF I
  <2>3. ASSUME NEW j \in 1 .. N, m[j] \in A PROVE \E i \in 1 .. Len(F[N]) : F[N][i] = m[j]
    BY <1>6, <2>3 DEF I
  <2>4. ToSet(F[N]) \subseteq ToSet(m) \cap A
    BY <2>1, <2>2 DEF ToSet
  <2>5. ToSet(m) \cap A \subseteq ToSet(F[N])
    BY <2>1, <2>3 DEF ToSet
  <2> QED
    BY <2>4, <2>5
<1> QED
  BY <1>1, <1>6, <1>7 DEF I

\* A list without duplicates is as long as it has elements.
LEMMA NumberOfMembers ==
  ASSUME NEW m \in Seq(Address), NoDuplicates(m)
  PROVE  IsFiniteSet(ToSet(m)) /\ Cardinality(ToSet(m)) = Len(m)
<1> DEFINE n == Len(m)
<1>0. n \in Nat
  OBVIOUS
<1> HIDE DEF n
<1>1. IsFiniteSet(1 .. n) /\ Cardinality(1 .. n) = n
  <2>1. /\ IsFiniteSet(1 .. n)
        /\ Cardinality(1 .. n) = IF 1 > n THEN 0 ELSE n - 1 + 1
    BY <1>0, FS_Interval
  <2> QED
    BY <1>0, <2>1
<1>2. m \in Bijection(1 .. Len(m), ToSet(m))
  <2>1. DOMAIN m = 1 .. Len(m) /\ m \in [1 .. Len(m) -> Address]
    OBVIOUS
  <2>2. m \in [1 .. Len(m) -> ToSet(m)] /\ \A y \in ToSet(m) : \E i \in 1 .. Len(m) : m[i] = y
    BY <2>1 DEF ToSet
  <2>3. \A i, j \in 1 .. Len(m) : m[i] = m[j] => i = j
    BY DEF NoDuplicates
  <2> QED
    BY <2>1, <2>2, <2>3 DEF Bijection, Injection, Surjection, IsInjective
<1>3. ExistsBijection(1 .. Len(m), ToSet(m))
  BY <1>2 DEF ExistsBijection
<1> QED
  BY <1>1, <1>3, FS_Bijection DEF n

\* The addresses of nodes.
LEMMA AddressesOfNodes ==
  ASSUME NEW hosts \in SUBSET Node
  PROVE  LET A == collectNodeInternalAddresses(hosts) IN
         A \subseteq Address /\ IsFiniteSet(A) /\ Cardinality(A) \in Nat
<1> DEFINE B == {AddressOf[n] : n \in hosts}  A == collectNodeInternalAddresses(hosts)
           f == [n \in hosts |-> AddressOf[n]]
<1>1. A \subseteq Address /\ A \subseteq B
  BY AddressAssumption DEF collectNodeInternalAddresses
<1>2. IsFiniteSet(hosts)
  BY NodeAssumption, FS_Subset
<1>3. f \in Surjection(hosts, B)
  BY DEF Surjection
<1> HIDE DEF f, B, A
<1>4. IsFiniteSet(B)
  BY <1>2, <1>3, FS_Surjection
<1>5. IsFiniteSet(A)
  BY <1>1, <1>4, FS_Subset
<1> QED
  BY <1>1, <1>5, FS_CardinalityType DEF A

\* The members in any order.
LEMMA AnyOrder ==
  ASSUME NEW S \in SUBSET Address, IsFiniteSet(S), NEW m \in SetToSeqs(S)
  PROVE  m \in Seq(Address) /\ ToSet(m) = S /\ NoDuplicates(m)
<1> DEFINE n == Cardinality(S)
<1>1. n \in Nat
  BY FS_CardinalityType
<1>2. m \in [1 .. n -> S] /\ \A i, j \in 1 .. n : i # j => m[i] # m[j]
  BY DEF SetToSeqs
<1>3. m \in Seq(Address) /\ Len(m) = n /\ DOMAIN m = 1 .. n
  BY <1>1, <1>2
<1>4. m \in Injection(1 .. n, S)
  BY <1>2 DEF Injection, IsInjective
<1>5. Cardinality(1 .. n) = n
  BY <1>1, FS_Interval
<1> HIDE DEF n
<1>6. m \in Surjection(1 .. n, S)
  <2>1. Cardinality(1 .. n) = Cardinality(S)
    BY <1>5 DEF n
  <2> QED
    BY <1>4, <2>1, FS_Injection
<1>7. ToSet(m) = S
  BY <1>2, <1>3, <1>6 DEF ToSet, Surjection
<1> QED
  BY <1>2, <1>3, <1>7 DEF NoDuplicates

\* Two lists without a common member, one after the other.
LEMMA Concatenation ==
  ASSUME NEW k \in Seq(Address), NEW l \in Seq(Address), NoDuplicates(k), NoDuplicates(l),
         ToSet(k) \cap ToSet(l) = {}
  PROVE  LET m == k \o l IN
         m \in Seq(Address) /\ ToSet(m) = ToSet(k) \cup ToSet(l) /\ NoDuplicates(m)
<1> DEFINE m == k \o l
<1>1. /\ m \in Seq(Address) /\ Len(m) = Len(k) + Len(l) /\ Len(k) \in Nat /\ Len(l) \in Nat
      /\ \A i \in 1 .. Len(k) : m[i] = k[i]
      /\ \A i \in 1 .. Len(l) : m[Len(k) + i] = l[i]
  OBVIOUS
<1>2. /\ DOMAIN m = 1 .. Len(m) /\ DOMAIN k = 1 .. Len(k) /\ DOMAIN l = 1 .. Len(l)
  BY <1>1
<1> HIDE DEF m
<1>3. ASSUME NEW i \in 1 .. Len(m)
      PROVE  \/ i \in 1 .. Len(k) /\ m[i] = k[i]
             \/ i - Len(k) \in 1 .. Len(l) /\ m[i] = l[i - Len(k)]
  <2>1. CASE i <= Len(k)
    BY <1>1, <2>1
  <2>2. CASE i > Len(k)
    <3>1. i - Len(k) \in 1 .. Len(l) /\ i = Len(k) + (i - Len(k))
      BY <1>1, <2>2
    <3>2. m[Len(k) + (i - Len(k))] = l[i - Len(k)]
      BY <1>1, <3>1
    <3> QED
      BY <3>1, <3>2
  <2> QED
    BY <1>1, <2>1, <2>2
<1>4. ToSet(m) = ToSet(k) \cup ToSet(l)
  <2>1. ToSet(m) \subseteq ToSet(k) \cup ToSet(l)
    BY <1>2, <1>3 DEF ToSet
  <2>2. ASSUME NEW i \in 1 .. Len(k) PROVE k[i] \in ToSet(m)
    <3>1. i \in 1 .. Len(m) /\ m[i] = k[i]
      BY <1>1
    <3> QED
      BY <1>2, <3>1 DEF ToSet
  <2>3. ASSUME NEW i \in 1 .. Len(l) PROVE l[i] \in ToSet(m)
    <3>1. Len(k) + i \in 1 .. Len(m) /\ m[Len(k) + i] = l[i]
      BY <1>1
    <3> QED
      BY <1>2, <3>1 DEF ToSet
  <2>4. ToSet(k) \subseteq ToSet(m) /\ ToSet(l) \subseteq ToSet(m)
    BY <1>2, <2>2, <2>3 DEF ToSet
  <2> QED
    BY <2>1, <2>4
<1>5. ASSUME NEW i \in 1 .. Len(k), NEW j \in 1 .. Len(l) PROVE k[i] # l[j]
  BY <1>2 DEF ToSet
<1>6. ASSUME NEW i \in 1 .. Len(m), NEW j \in 1 .. Len(m), m[i] = m[j] PROVE i = j
  <2>1. CASE i \in 1 .. Len(k) /\ m[i] = k[i] /\ j \in 1 .. Len(k) /\ m[j] = k[j]
    BY <1>6, <2>1 DEF NoDuplicates
  <2>2. CASE /\ i - Len(k) \in 1 .. Len(l) /\ m[i] = l[i - Len(k)]
             /\ j - Len(k) \in 1 .. Len(l) /\ m[j] = l[j - Len(k)]
    <3>1. i - Len(k) = j - Len(k)
      BY <1>6, <2>2 DEF NoDuplicates
    <3> QED
      BY <1>1, <3>1
  <2>3. CASE /\ i \in 1 .. Len(k) /\ m[i] = k[i]
             /\ j - Len(k) \in 1 .. Len(l) /\ m[j] = l[j - Len(k)]
    BY <1>5, <1>6, <2>3
  <2>4. CASE /\ i - Len(k) \in 1 .. Len(l) /\ m[i] = l[i - Len(k)]
             /\ j \in 1 .. Len(k) /\ m[j] = k[j]
    BY <1>5, <1>6, <2>4
  <2> QED
    BY <1>3, <2>1, <2>2, <2>3, <2>4
<1> QED
  BY <1>1, <1>4, <1>6 DEF m, NoDuplicates

\* Members that are the addresses of the nodes, each once.
Members(hosts) ==
  {m \in Seq(Address) :
     /\ NoDuplicates(m) /\ ToSet(m) = collectNodeInternalAddresses(hosts)
     /\ Len(m) = Cardinality(collectNodeInternalAddresses(hosts))}

\* updatedPoolMembers gives exactly the addresses of the nodes, if it is given members
\* without duplicates.
LEMMA UpdatedMembersExact ==
  ASSUME NEW old \in Seq(Address), NoDuplicates(old), NEW hosts \in SUBSET Node,
         NEW m \in updatedPoolMembers(old, hosts)
  PROVE  m \in Members(hosts)
<1> DEFINE A == collectNodeInternalAddresses(hosts)  k == StillNodes(old, A)
<1>1. A \subseteq Address /\ IsFiniteSet(A) /\ Cardinality(A) \in Nat
  BY AddressesOfNodes
<1>2. k \in Seq(Address) /\ ToSet(k) = ToSet(old) \cap A /\ NoDuplicates(k)
  BY StillNodesKeeps
<1>3. m \in IF Cardinality(A) > Len(k) THEN {k \o new : new \in SetToSeqs(A \ ToSet(old))} ELSE {k}
  BY DEF updatedPoolMembers
<1> HIDE DEF A, k
<1>4. m \in Seq(Address) /\ ToSet(m) = A /\ NoDuplicates(m)
  <2>1. CASE Cardinality(A) > Len(k)
    <3>1. PICK new \in SetToSeqs(A \ ToSet(old)) : m = k \o new
      BY <1>3, <2>1
    <3>2. A \ ToSet(old) \in SUBSET Address /\ IsFiniteSet(A \ ToSet(old))
      BY <1>1, FS_Difference
    <3>3. new \in Seq(Address) /\ ToSet(new) = A \ ToSet(old) /\ NoDuplicates(new)
      BY <3>2, AnyOrder
    <3>4. ToSet(k) \cap ToSet(new) = {} /\ ToSet(k) \cup ToSet(new) = A
      BY <1>2, <3>3
    <3> QED
      BY <1>2, <3>1, <3>3, <3>4, Concatenation
  <2>2. CASE ~(Cardinality(A) > Len(k))
    <3>1. m = k
      BY <1>3, <2>2
    <3>2. Cardinality(ToSet(k)) = Len(k) /\ ToSet(k) \in SUBSET A
      BY <1>2, NumberOfMembers
    <3>3. Cardinality(ToSet(k)) <= Cardinality(A)
      BY <1>1, <3>2, FS_Subset
    <3>4. Cardinality(ToSet(k)) = Cardinality(A)
      BY <1>1, <1>2, <2>2, <3>2, <3>3
    <3>5. ToSet(k) = A
      BY <1>1, <3>2, <3>4, FS_Subset
    <3> QED
      BY <1>2, <3>1, <3>5
  <2> QED
    BY <2>1, <2>2
<1>5. Len(m) = Cardinality(A)
  BY <1>4, NumberOfMembers
<1> QED
  BY <1>4, <1>5 DEF Members, A

-----------------------------------------------------------------------------
(***************************************************************************)
(* The initial state, and the types                                        *)
(***************************************************************************)

\* The type invariant follows from the types in parts.
LEMMA TypesImplyTypeOK == TypesInv => TypeOK
<1> SUFFICES ASSUME TypesInv PROVE TypeOK
  OBVIOUS
<1>1. ASSUME NEW s \in Svc, NEW q \in Port
      PROVE  pools[s][q] = NoPool \/ ToSet(pools[s][q]) \subseteq Address
  <2>1. pools[s][q] \in Seq(Address) \cup {NoPool}
    BY DEF TypesInv, NsxtOK
  <2>2. ASSUME NEW m \in Seq(Address) PROVE ToSet(m) \subseteq Address
    BY DEF ToSet
  <2> QED
    BY <2>1, <2>2
<1>2. ASSUME NEW b \in DOMAIN Bound PROVE counts[b] \in 0 .. Bound[b]
  <2>1. Bound[b] \in Nat
    BY NodeSyncBounds DEF Bound
  <2>2. counts[b] \in Nat /\ counts[b] <= Bound[b]
    BY DEF TypesInv, CountsOK
  <2> QED
    BY <2>1, <2>2
<1> QED
  BY <1>1, <1>2 DEF TypeOK, TypesInv, NsxtOK, ControllerOK, ProviderOK

\* A process that is inside an operation has a call with all its parameters.
FullCall ==
  [op : {"ensure", "delete", "update"}, svc : Svc, hosts : SUBSET Node, todo : SUBSET Port]

LEMMA CallType ==
  ASSUME ProviderOK, NEW p \in Proc, Busy(p)
  PROVE  call[p] \in FullCall
BY DEF ProviderOK, Busy, Call, FullCall

LEMMA FullCallIsCall ==
  /\ FullCall \subseteq Call /\ NoCall \in Call
  /\ \A c \in FullCall : c # NoCall
BY DEF Call, FullCall, NoCall

\* A bound is used up by one.
LEMMA CountType ==
  ASSUME CountsOK, NEW b \in DOMAIN Bound, Count(b)
  PROVE  CountsOK'
<1>1. Bound[b] \in Nat /\ counts[b] \in Nat /\ counts[b] < Bound[b]
  BY NodeSyncBounds DEF Bound, Count, CountsOK
<1>2. counts' = [counts EXCEPT ![b] = @ + 1] /\ counts \in [DOMAIN Bound -> Nat]
  BY DEF Count, CountsOK
<1>3. counts' \in [DOMAIN Bound -> Nat]
  BY <1>1, <1>2
<1>4. ASSUME NEW x \in DOMAIN Bound PROVE counts'[x] <= Bound[x]
  <2>1. CASE x = b
    BY <1>1, <1>2, <2>1
  <2>2. CASE x # b
    BY <1>2, <2>2 DEF CountsOK
  <2> QED
    BY <2>1, <2>2
<1> QED
  BY <1>3, <1>4 DEF CountsOK

LEMMA BoundNames == DOMAIN Bound = {"faults", "crashes", "nodes", "changes"}
BY DEF Bound

\* The controller starts with nothing known and nothing under way.
LEMMA InitInv == Init => NodeInv
<1> SUFFICES ASSUME Init PROVE NodeInv
  OBVIOUS
<1>1. TypesInv
  <2>1. NsxtOK
    BY DEF Init, NsxtOK
  <2>2. CountsOK
    BY NodeSyncBounds DEF Init, CountsOK, Bound
  <2>3. ControllerOK
    BY DEF Init, ControllerOK, NoPass
  <2>4. ProviderOK
    BY FullCallIsCall DEF Init, ProviderOK
  <2> QED
    BY <2>1, <2>2, <2>3, <2>4 DEF TypesInv
<1>2. Sync \in Proc /\ Worker \subseteq Proc /\ NoProc \notin Proc
  BY SyncAssumption DEF Proc
<1>3. \A p \in Proc : pc[p] = "idle" /\ ~Busy(p) /\ ~err[p]
  BY DEF Init, Busy
<1>4. ControlInv
  BY <1>2, <1>3 DEF ControlInv
<1>5. LockInv
  BY <1>2, <1>3 DEF LockInv, Init
<1>6. WorkerInv /\ ProgressInv
  BY <1>2, <1>3 DEF WorkerInv, ProgressInv
<1>7. PoolsInv
  BY DEF PoolsInv, Init
<1>8. SettledInv
  BY DEF SettledInv, Init
<1> QED
  BY <1>1, <1>4, <1>5, <1>6, <1>7, <1>8 DEF NodeInv

-----------------------------------------------------------------------------
(***************************************************************************)
(* The steps of a process that holds the key of its service                *)
(***************************************************************************)

\* The process goes on with the ports in todo, all others being done.
Advance(p) ==
  /\ UNCHANGED <<err, counts>>
  /\ \E c \in FullCall :
       /\ call' = [call EXCEPT ![p] = c]
       /\ c.op = call[p].op /\ c.svc = call[p].svc /\ c.hosts = call[p].hosts
       /\ \/ pc' = pc
          \/ c.todo = {} /\ pc' = [pc EXCEPT ![p] = "unlock"]
  /\ \A q \in Port : q \notin call'[p].todo => PortDone(call[p], q)'

\* What such a step may do to NSX-T.
OwnService(p) ==
  LET s == call[p].svc IN
  /\ NsxtOK' /\ PoolsInv'
  /\ \A t \in Svc : t # s => pools'[t] = pools[t] /\ servers'[t] = servers[t]
  /\ call[p].op = "update" =>
       /\ servers' = servers
       /\ \A q \in Port : pools[s][q] = NoPool => pools'[s][q] = NoPool

Inside(p) == pc[p] = "work" /\ UNCHANGED outside /\ OwnService(p) /\ (Advance(p) \/ Fault(p))

\* The members of a pool after the write.
LEMMA NewMembersExact ==
  ASSUME TypesInv, PoolsInv, NEW s \in Svc, NEW q \in Port, NEW hosts \in SUBSET Node,
         NEW m \in NewMembers(s, q, hosts)
  PROVE  m \in Members(hosts)
<1> DEFINE old == IF pools[s][q] = NoPool THEN <<>> ELSE pools[s][q]
<1>1. old \in Seq(Address) /\ NoDuplicates(old)
  <2>1. pools[s][q] \in Seq(Address) \cup {NoPool}
    BY DEF TypesInv, NsxtOK
  <2>2. CASE pools[s][q] = NoPool
    BY <2>2 DEF NoDuplicates
  <2>3. CASE pools[s][q] # NoPool
    BY <2>1, <2>3 DEF PoolsInv
  <2> QED
    BY <2>2, <2>3
<1>2. m \in updatedPoolMembers(old, hosts)
  BY DEF NewMembers
<1> HIDE DEF old
<1> QED
  BY <1>1, <1>2, UpdatedMembersExact

\* A pool with such members.
LEMMA WriteMembers ==
  ASSUME TypesInv, PoolsInv, NEW s \in Svc, NEW q \in Port, NEW hosts \in SUBSET Node,
         NEW m \in Members(hosts), SetMembers(s, q, m),
         UNCHANGED servers \/ servers' = [servers EXCEPT ![s] = @ \cup {q}]
  PROVE  /\ NsxtOK' /\ PoolsInv' /\ Exact(s, q, hosts)'
         /\ \A t \in Svc : t # s => pools'[t] = pools[t] /\ servers'[t] = servers[t]
         /\ \A r \in Port : r # q => pools'[s][r] = pools[s][r]
<1>1. /\ m \in Seq(Address) /\ NoDuplicates(m)
      /\ ToSet(m) = collectNodeInternalAddresses(hosts)
      /\ Len(m) = Cardinality(collectNodeInternalAddresses(hosts))
  BY DEF Members
<1>2. m # NoPool
  BY <1>1, NodeAssumption
<1>3. /\ pools \in [Svc -> [Port -> Seq(Address) \cup {NoPool}]]
      /\ servers \in [Svc -> SUBSET Port]
      /\ pools' = [pools EXCEPT ![s][q] = m]
  BY DEF TypesInv, NsxtOK, SetMembers
<1>4. NsxtOK'
  BY <1>1, <1>3 DEF NsxtOK
<1>5. pools'[s][q] = m /\ \A t \in Svc, r \in Port : t # s \/ r # q => pools'[t][r] = pools[t][r]
  BY <1>3
<1>6. \A t \in Svc : t # s => pools'[t] = pools[t] /\ servers'[t] = servers[t]
  BY <1>3
<1>7. PoolsInv'
  <2> SUFFICES ASSUME NEW t \in Svc, NEW r \in Port
               PROVE  /\ pools'[t][r] # NoPool => NoDuplicates(pools'[t][r])
                      /\ r \in servers'[t] => pools'[t][r] # NoPool
    BY DEF PoolsInv
  <2>1. CASE t = s /\ r = q
    BY <1>1, <1>2, <1>5, <2>1
  <2>2. CASE t # s \/ r # q
    <3>1. pools'[t][r] = pools[t][r]
      BY <1>5, <2>2
    <3>2. r \in servers'[t] => r \in servers[t]
      BY <1>3, <2>2
    <3> QED
      BY <3>1, <3>2 DEF PoolsInv
  <2> QED
    BY <2>1, <2>2
<1>8. Exact(s, q, hosts)'
  BY <1>1, <1>2, <1>5 DEF Exact
<1> QED
  BY <1>4, <1>5, <1>6, <1>7, <1>8

\* A step that leaves NSX-T alone.
LEMMA NothingWritten ==
  ASSUME TypesInv, PoolsInv, UNCHANGED nsxt, NEW p \in Proc
  PROVE  OwnService(p)
BY DEF OwnService, TypesInv, NsxtOK, PoolsInv, nsxt

\* The call goes on with the ports in todo: the others are done.
LEMMA GoesOn ==
  ASSUME ProviderOK, NEW p \in Proc, Busy(p), NEW todo \in SUBSET Port, Continue(p, todo),
         \A r \in Port : r \notin todo => PortDone(call[p], r)'
  PROVE  Advance(p)
<1> DEFINE c == [call[p] EXCEPT !.todo = todo]
<1>1. call[p] \in FullCall /\ call \in [Proc -> Call]
  BY CallType DEF ProviderOK
<1>2. /\ c \in FullCall /\ c.op = call[p].op /\ c.svc = call[p].svc /\ c.hosts = call[p].hosts
      /\ c.todo = todo
  BY <1>1 DEF FullCall
<1>3. call' = [call EXCEPT ![p] = c] /\ UNCHANGED <<pc, err, counts>>
  BY DEF Continue
<1> HIDE DEF c
<1>4. call'[p].todo = todo
  BY <1>1, <1>2, <1>3
<1>5. ASSUME NEW r \in Port, r \notin call'[p].todo PROVE PortDone(call[p], r)'
  BY <1>4, <1>5
<1> QED
  BY <1>2, <1>3, <1>5 DEF Advance

\* A port is done, after the others.
LEMMA PortIsDone ==
  ASSUME ProviderOK, NEW p \in Proc, Busy(p), NEW q \in Port, Continue(p, call[p].todo \ {q}),
         PortDone(call[p], q)',
         \A r \in Port : r # q /\ r \notin call[p].todo => PortDone(call[p], r)'
  PROVE  Advance(p)
<1>1. PICK todo \in SUBSET Port : todo = call[p].todo \ {q}
  <2>1. call[p] \in FullCall
    BY CallType
  <2> QED
    BY <2>1 DEF FullCall
<1>2. ASSUME NEW r \in Port, r \notin todo PROVE PortDone(call[p], r)'
  BY <1>1, <1>2
<1> QED
  BY <1>1, <1>2, GoesOn

\* Where a process is that holds a key, and what it knows.
LEMMA AtWork ==
  ASSUME NodeInv, NEW p \in Proc, pc[p] = "work"
  PROVE  /\ Busy(p) /\ ~err[p] /\ call[p] \in FullCall /\ call[p].svc \in Svc
         /\ call[p].hosts \in SUBSET Node /\ call[p].todo \in SUBSET Port
         /\ holder[call[p].svc] = p
         /\ \A q \in Port : q \notin call[p].todo => PortDone(call[p], q)
<1>1. Busy(p) /\ ~err[p]
  BY DEF NodeInv, ControlInv
<1>2. call[p] \in FullCall
  BY <1>1, CallType DEF NodeInv, TypesInv
<1>3. /\ call[p].svc \in Svc /\ call[p].hosts \in SUBSET Node /\ call[p].todo \in SUBSET Port
  BY <1>2 DEF FullCall
<1>4. holder[call[p].svc] = p
  BY <1>3 DEF NodeInv, LockInv
<1>5. \A q \in Port : q \notin call[p].todo => PortDone(call[p], q)
  BY <1>1 DEF NodeInv, ProgressInv
<1> QED
  BY <1>1, <1>2, <1>3, <1>4, <1>5

\* What is done for a port stays done while nothing happens to it.
LEMMA StaysDone ==
  ASSUME NEW p \in Proc, NEW r \in Port, PortDone(call[p], r),
         call'[p].op = call[p].op, call'[p].svc = call[p].svc, call'[p].hosts = call[p].hosts,
         pools'[call[p].svc][r] = pools[call[p].svc][r],
         r \in servers[call[p].svc] => r \in servers'[call[p].svc]
  PROVE  PortDone(call[p], r)'
BY DEF PortDone, Exact

\* The call of p after Continue.
LEMMA ContinueCall ==
  ASSUME ProviderOK, NEW p \in Proc, Busy(p), NEW todo \in SUBSET Port, Continue(p, todo)
  PROVE  /\ call'[p].op = call[p].op /\ call'[p].svc = call[p].svc
         /\ call'[p].hosts = call[p].hosts /\ call'[p].todo = todo
<1>1. call[p] \in FullCall /\ call \in [Proc -> Call]
  BY CallType DEF ProviderOK
<1> QED
  BY <1>1 DEF Continue, FullCall

\* EnsureLoadBalancer, for one port.
LEMMA ReconcileInside ==
  ASSUME NodeInv, NEW p \in Proc, Reconcile(p)
  PROVE  Inside(p)
<1>1. pc[p] = "work" /\ call[p].op = "ensure" /\ UNCHANGED outside
  BY DEF Reconcile
<1>2. /\ Busy(p) /\ call[p] \in FullCall /\ call[p].svc \in Svc
      /\ call[p].hosts \in SUBSET Node /\ call[p].todo \in SUBSET Port
      /\ \A q \in Port : q \notin call[p].todo => PortDone(call[p], q)
  BY <1>1, AtWork
<1>3. TypesInv /\ PoolsInv /\ ProviderOK
  BY DEF NodeInv, TypesInv
<1>4. PICK s \in Svc, hosts \in SUBSET Node, todo \in SUBSET Port :
             s = call[p].svc /\ hosts = call[p].hosts /\ todo = call[p].todo
  BY <1>2
<1>5. PICK q \in todo : \E m \in NewMembers(s, q, hosts) :
       \/ /\ SetMembers(s, q, m)
          /\ servers' = [servers EXCEPT ![s] = @ \cup {q}]
          /\ Continue(p, todo \ {q}) \/ (q \notin servers[s] /\ Fault(p))
       \/ /\ SetMembers(s, q, m)
          /\ pools[s][q] # m \/ q \notin servers[s]
          /\ Fault(p) /\ UNCHANGED servers
       \/ pools[s][q] # m /\ Fault(p) /\ UNCHANGED nsxt
  BY <1>4 DEF Reconcile
<1>6. PICK m \in NewMembers(s, q, hosts) :
       \/ /\ SetMembers(s, q, m)
          /\ servers' = [servers EXCEPT ![s] = @ \cup {q}]
          /\ Continue(p, todo \ {q}) \/ (q \notin servers[s] /\ Fault(p))
       \/ SetMembers(s, q, m) /\ Fault(p) /\ UNCHANGED servers
       \/ Fault(p) /\ UNCHANGED nsxt
  BY <1>5
<1>7. q \in Port /\ m \in Members(hosts)
  BY <1>3, NewMembersExact
<1> DEFINE W == UNCHANGED servers \/ servers' = [servers EXCEPT ![s] = @ \cup {q}]
<1>8. ASSUME SetMembers(s, q, m), W
      PROVE  /\ OwnService(p) /\ Exact(s, q, hosts)'
             /\ \A r \in Port : r # q => pools'[s][r] = pools[s][r]
  <2>1. /\ NsxtOK' /\ PoolsInv' /\ Exact(s, q, hosts)'
        /\ \A t \in Svc : t # s => pools'[t] = pools[t] /\ servers'[t] = servers[t]
        /\ \A r \in Port : r # q => pools'[s][r] = pools[s][r]
    BY <1>3, <1>7, <1>8, WriteMembers
  <2> QED
    BY <1>1, <1>4, <2>1 DEF OwnService
<1>9. CASE Fault(p)
  <2>1. OwnService(p)
    BY <1>3, <1>6, <1>8, NothingWritten
  <2> QED
    BY <1>1, <1>9, <2>1 DEF Inside
<1>10. CASE ~Fault(p)
  <2>1. /\ SetMembers(s, q, m) /\ servers' = [servers EXCEPT ![s] = @ \cup {q}]
        /\ Continue(p, todo \ {q}) /\ servers \in [Svc -> SUBSET Port]
    BY <1>3, <1>6, <1>7, <1>10 DEF TypesInv, NsxtOK
  <2>2. /\ OwnService(p) /\ Exact(s, q, hosts)'
        /\ \A r \in Port : r # q => pools'[s][r] = pools[s][r]
    BY <1>8, <2>1
  <2>3. /\ call'[p].op = call[p].op /\ call'[p].svc = s /\ call'[p].hosts = hosts
    BY <1>2, <1>3, <1>4, <2>1, ContinueCall
  <2>4. PortDone(call[p], q)'
    <3>1. q \in servers'[s]
      BY <2>1
    <3> QED
      BY <1>1, <2>2, <2>3, <3>1 DEF PortDone
  <2>5. ASSUME NEW r \in Port, r # q, r \notin call[p].todo PROVE PortDone(call[p], r)'
    <3>1. PortDone(call[p], r)
      BY <1>2, <2>5
    <3>2. pools'[s][r] = pools[s][r] /\ (r \in servers[s] => r \in servers'[s])
      BY <2>1, <2>2, <2>5
    <3> QED
      BY <1>4, <2>3, <3>1, <3>2, StaysDone
  <2>6. Advance(p)
    BY <1>2, <1>3, <1>4, <1>7, <2>1, <2>4, <2>5, PortIsDone
  <2> QED
    BY <1>1, <2>2, <2>6 DEF Inside
<1> QED
  BY <1>9, <1>10

\* UpdateLoadBalancer, for one port.
LEMMA UpdateInside ==
  ASSUME NodeInv, NEW p \in Proc, UpdatePoolMembers(p)
  PROVE  Inside(p)
<1>1. pc[p] = "work" /\ call[p].op = "update" /\ UNCHANGED outside /\ UNCHANGED servers
  BY DEF UpdatePoolMembers
<1>2. /\ Busy(p) /\ call[p] \in FullCall /\ call[p].svc \in Svc
      /\ call[p].hosts \in SUBSET Node /\ call[p].todo \in SUBSET Port
      /\ \A q \in Port : q \notin call[p].todo => PortDone(call[p], q)
  BY <1>1, AtWork
<1>3. TypesInv /\ PoolsInv /\ ProviderOK
  BY DEF NodeInv, TypesInv
<1>4. PICK s \in Svc, hosts \in SUBSET Node, todo \in SUBSET Port :
             s = call[p].svc /\ hosts = call[p].hosts /\ todo = call[p].todo
  BY <1>2
<1>5. PICK q \in todo :
       \/ pools[s][q] = NoPool /\ Continue(p, todo \ {q}) /\ UNCHANGED pools
       \/ /\ pools[s][q] # NoPool
          /\ \E m \in NewMembers(s, q, hosts) :
               \/ SetMembers(s, q, m) /\ Continue(p, todo \ {q})
               \/ m # pools[s][q] /\ Fault(p) /\ (SetMembers(s, q, m) \/ UNCHANGED pools)
  BY <1>4 DEF UpdatePoolMembers
<1>6. q \in Port
  OBVIOUS
\* The other ports are done as before.
<1>7. ASSUME Continue(p, todo \ {q}), PortDone(call[p], q)',
             \A r \in Port : r # q => pools'[s][r] = pools[s][r]
      PROVE  Advance(p)
  <2>1. call'[p].op = call[p].op /\ call'[p].svc = s /\ call'[p].hosts = hosts
    BY <1>2, <1>3, <1>4, <1>7, ContinueCall
  <2>2. ASSUME NEW r \in Port, r # q, r \notin call[p].todo PROVE PortDone(call[p], r)'
    <3>1. PortDone(call[p], r)
      BY <1>2, <2>2
    <3>2. pools'[s][r] = pools[s][r] /\ (r \in servers[s] => r \in servers'[s])
      BY <1>1, <1>7, <2>2
    <3> QED
      BY <1>4, <2>1, <3>1, <3>2, StaysDone
  <2> QED
    BY <1>2, <1>3, <1>4, <1>6, <1>7, <2>2, PortIsDone
<1>8. CASE pools[s][q] = NoPool /\ Continue(p, todo \ {q}) /\ UNCHANGED pools
  <2>1. OwnService(p)
    BY <1>1, <1>3, <1>8, NothingWritten DEF nsxt
  <2>2. call'[p].op = call[p].op /\ call'[p].svc = s
    BY <1>2, <1>3, <1>4, <1>8, ContinueCall
  <2>3. PortDone(call[p], q)'
    BY <1>1, <1>8, <2>2 DEF PortDone
  <2> QED
    BY <1>1, <1>7, <1>8, <2>1, <2>3 DEF Inside
<1>9. ASSUME pools[s][q] # NoPool, NEW m \in NewMembers(s, q, hosts),
             \/ SetMembers(s, q, m) /\ Continue(p, todo \ {q})
             \/ Fault(p) /\ (SetMembers(s, q, m) \/ UNCHANGED pools)
      PROVE  Inside(p)
  <2>1. m \in Members(hosts)
    BY <1>3, <1>6, NewMembersExact
  <2>2. ASSUME SetMembers(s, q, m)
        PROVE  /\ OwnService(p) /\ Exact(s, q, hosts)'
               /\ \A r \in Port : r # q => pools'[s][r] = pools[s][r]
    <3>1. /\ NsxtOK' /\ PoolsInv' /\ Exact(s, q, hosts)'
          /\ \A t \in Svc : t # s => pools'[t] = pools[t] /\ servers'[t] = servers[t]
          /\ \A r \in Port : r # q => pools'[s][r] = pools[s][r]
      BY <1>1, <1>3, <1>6, <2>1, <2>2, WriteMembers
    <3> QED
      BY <1>1, <1>4, <1>9, <3>1 DEF OwnService
  <2>3. CASE Fault(p)
    <3>1. SetMembers(s, q, m) \/ UNCHANGED pools
      BY <1>9
    <3>2. OwnService(p)
      BY <1>1, <1>3, <2>2, <3>1, NothingWritten DEF nsxt
    <3> QED
      BY <1>1, <2>3, <3>2 DEF Inside
  <2>4. CASE SetMembers(s, q, m) /\ Continue(p, todo \ {q})
    <3>1. call'[p].op = call[p].op /\ call'[p].svc = s /\ call'[p].hosts = hosts
      BY <1>2, <1>3, <1>4, <2>4, ContinueCall
    <3>2. PortDone(call[p], q)'
      BY <1>1, <2>2, <2>4, <3>1 DEF PortDone
    <3> QED
      BY <1>1, <1>7, <2>2, <2>4, <3>2 DEF Inside
  <2> QED
    BY <1>9, <2>3, <2>4
<1> QED
  BY <1>5, <1>8, <1>9

\* EnsureLoadBalancerDeleted: virtual servers first, then pools.
LEMMA CleanUpInside ==
  ASSUME NodeInv, NEW p \in Proc, CleanUp(p)
  PROVE  Inside(p)
<1>1. pc[p] = "work" /\ call[p].op = "delete" /\ UNCHANGED outside
  BY DEF CleanUp
<1>2. /\ Busy(p) /\ call[p] \in FullCall /\ call[p].svc \in Svc /\ call[p].todo \in SUBSET Port
      /\ \A q \in Port : q \notin call[p].todo => PortDone(call[p], q)
  BY <1>1, AtWork
<1>3. /\ TypesInv /\ PoolsInv /\ ProviderOK
      /\ pools \in [Svc -> [Port -> Seq(Address) \cup {NoPool}]]
      /\ servers \in [Svc -> SUBSET Port]
  BY DEF NodeInv, TypesInv, NsxtOK
<1>4. PICK s \in Svc, todo \in SUBSET Port : s = call[p].svc /\ todo = call[p].todo
  BY <1>2
<1>5. \/ \E q \in servers[s] :
          \/ /\ servers' = [servers EXCEPT ![s] = @ \ {q}]
             /\ Continue(p, todo) \/ Fault(p)
             /\ UNCHANGED pools
          \/ Fault(p) /\ UNCHANGED nsxt
      \/ /\ servers[s] = {}
         /\ \E q \in todo :
              \/ SetMembers(s, q, NoPool) /\ (Continue(p, todo \ {q}) \/ Fault(p))
              \/ Fault(p) /\ UNCHANGED pools
         /\ UNCHANGED servers
  BY <1>4 DEF CleanUp
<1>6. ASSUME UNCHANGED nsxt, Fault(p) PROVE Inside(p)
  BY <1>1, <1>3, <1>6, NothingWritten DEF Inside
<1>7. ASSUME NEW q \in servers[s], servers' = [servers EXCEPT ![s] = @ \ {q}],
             Continue(p, todo) \/ Fault(p), UNCHANGED pools
      PROVE  Inside(p)
  <2>1. NsxtOK'
    BY <1>3, <1>7 DEF NsxtOK
  <2>2. PoolsInv'
    BY <1>3, <1>7 DEF PoolsInv
  <2>3. OwnService(p)
    BY <1>1, <1>3, <1>4, <1>7, <2>1, <2>2 DEF OwnService
  <2>4. ASSUME Continue(p, todo) PROVE Advance(p)
    <3>1. call'[p].op = call[p].op /\ call'[p].svc = s
      BY <1>2, <1>3, <1>4, <2>4, ContinueCall
    <3>2. ASSUME NEW r \in Port, r \notin todo PROVE PortDone(call[p], r)'
      <4>1. PortDone(call[p], r)
        BY <1>2, <1>4, <3>2
      <4> QED
        BY <1>1, <1>4, <1>7, <3>1, <4>1 DEF PortDone
    <3> QED
      BY <1>2, <1>3, <2>4, <3>2, GoesOn
  <2> QED
    BY <1>1, <1>7, <2>3, <2>4 DEF Inside
<1>8. ASSUME servers[s] = {}, NEW q \in todo, SetMembers(s, q, NoPool),
             Continue(p, todo \ {q}) \/ Fault(p), UNCHANGED servers
      PROVE  Inside(p)
  <2>1. /\ pools' = [pools EXCEPT ![s][q] = NoPool] /\ q \in Port
        /\ pools'[s][q] = NoPool
        /\ \A t \in Svc, r \in Port : t # s \/ r # q => pools'[t][r] = pools[t][r]
        /\ \A t \in Svc : t # s => pools'[t] = pools[t]
    BY <1>3, <1>8 DEF SetMembers
  <2>2. NsxtOK'
    BY <1>3, <1>8, <2>1 DEF NsxtOK
  <2>3. PoolsInv'
    <3> SUFFICES ASSUME NEW t \in Svc, NEW r \in Port
                 PROVE  /\ pools'[t][r] # NoPool => NoDuplicates(pools'[t][r])
                        /\ r \in servers'[t] => pools'[t][r] # NoPool
      BY DEF PoolsInv
    <3>1. CASE t = s /\ r = q
      BY <1>8, <2>1, <3>1
    <3>2. CASE t # s \/ r # q
      BY <1>3, <1>8, <2>1, <3>2 DEF PoolsInv
    <3> QED
      BY <3>1, <3>2
  <2>4. OwnService(p)
    BY <1>1, <1>3, <1>4, <1>8, <2>1, <2>2, <2>3 DEF OwnService
  <2>5. ASSUME Continue(p, todo \ {q}) PROVE Advance(p)
    <3>1. call'[p].op = call[p].op /\ call'[p].svc = s
      BY <1>2, <1>3, <1>4, <2>5, ContinueCall
    <3>2. PortDone(call[p], q)'
      BY <1>1, <2>1, <3>1 DEF PortDone
    <3>3. ASSUME NEW r \in Port, r # q, r \notin call[p].todo PROVE PortDone(call[p], r)'
      <4>1. PortDone(call[p], r)
        BY <1>2, <3>3
      <4>2. pools'[s][r] = pools[s][r]
        BY <2>1, <3>3
      <4> QED
        BY <1>1, <1>4, <3>1, <4>1, <4>2 DEF PortDone
    <3> QED
      BY <1>2, <1>3, <1>4, <2>1, <2>5, <3>2, <3>3, PortIsDone
  <2> QED
    BY <1>1, <1>8, <2>4, <2>5 DEF Inside
<1> QED
  BY <1>5, <1>6, <1>7, <1>8 DEF nsxt

\* The operation is done for all ports.
LEMMA DoneInside ==
  ASSUME NodeInv, NEW p \in Proc, Done(p)
  PROVE  Inside(p)
<1>1. /\ pc[p] = "work" /\ call[p].todo = {} /\ pc' = [pc EXCEPT ![p] = "unlock"]
      /\ UNCHANGED <<nsxt, call, err, counts, outside>>
  BY DEF Done
<1>2. /\ Busy(p) /\ call[p] \in FullCall
      /\ \A q \in Port : q \notin call[p].todo => PortDone(call[p], q)
  BY <1>1, AtWork
<1>3. TypesInv /\ PoolsInv /\ call \in [Proc -> Call]
  BY DEF NodeInv, TypesInv, ProviderOK
<1>4. OwnService(p)
  BY <1>1, <1>3, NothingWritten
<1>5. call' = [call EXCEPT ![p] = call[p]]
  BY <1>1, <1>3
<1>6. ASSUME NEW q \in Port PROVE PortDone(call[p], q)'
  BY <1>1, <1>2 DEF PortDone, Exact, nsxt
<1>7. Advance(p)
  BY <1>1, <1>2, <1>5, <1>6 DEF Advance
<1> QED
  BY <1>1, <1>4, <1>7 DEF Inside

\* The processes after such a step.
SameCalls(p) ==
  /\ \A r \in Proc : r # p => call'[r] = call[r] /\ pc'[r] = pc[r] /\ err'[r] = err[r]
  /\ call'[p].op = call[p].op /\ call'[p].svc = call[p].svc /\ call'[p].hosts = call[p].hosts
  /\ \A r \in Proc : Busy(r)' <=> Busy(r)

LEMMA InsideShape ==
  ASSUME NodeInv, NEW p \in Proc, Inside(p)
  PROVE  /\ SameCalls(p) /\ ProviderOK' /\ CountsOK'
         /\ pc'[p] \in {"work", "unlock"} /\ (pc'[p] # "unlock" => ~err'[p])
         /\ ~err'[p] => /\ \A q \in Port : q \notin call'[p].todo => PortDone(call[p], q)'
                        /\ pc'[p] = "unlock" => call'[p].todo = {}
<1>1. /\ pc[p] = "work" /\ Busy(p) /\ ~err[p] /\ call[p] \in FullCall
  BY AtWork DEF Inside
<1>2. /\ ProviderOK /\ CountsOK /\ call \in [Proc -> Call] /\ err \in [Proc -> BOOLEAN]
      /\ holder \in [Svc -> Proc \cup {NoProc}] /\ holder' = holder
      /\ pc \in [Proc -> {"idle", "lock", "work", "unlock", "exists"}]
  BY DEF NodeInv, TypesInv, ProviderOK, Inside, outside
<1>3. CASE Fault(p)
  <2>1. /\ call' = call /\ err' = [err EXCEPT ![p] = TRUE]
        /\ pc' = [pc EXCEPT ![p] = "unlock"] /\ Count("faults")
    BY <1>3 DEF Fault
  <2>2. CountsOK'
    BY <1>2, <2>1, CountType, BoundNames
  <2>3. SameCalls(p)
    BY <1>2, <2>1 DEF SameCalls, Busy
  <2>4. ProviderOK'
    BY <1>2, <2>1 DEF ProviderOK
  <2> QED
    BY <1>2, <2>1, <2>2, <2>3, <2>4
<1>4. CASE Advance(p)
  <2>1. PICK c \in FullCall :
         /\ call' = [call EXCEPT ![p] = c]
         /\ c.op = call[p].op /\ c.svc = call[p].svc /\ c.hosts = call[p].hosts
         /\ \/ pc' = pc
            \/ c.todo = {} /\ pc' = [pc EXCEPT ![p] = "unlock"]
    BY <1>4 DEF Advance
  <2>2. /\ err' = err /\ counts' = counts
        /\ \A q \in Port : q \notin call'[p].todo => PortDone(call[p], q)'
    BY <1>4 DEF Advance
  <2>3. c \in Call /\ c # NoCall
    BY FullCallIsCall
  <2>4. call'[p] = c /\ \A r \in Proc : r # p => call'[r] = call[r]
    BY <1>2, <2>1
  <2>5. \A r \in Proc : r # p => pc'[r] = pc[r]
    BY <1>2, <2>1
  <2>6. SameCalls(p)
    BY <1>1, <2>1, <2>2, <2>3, <2>4, <2>5 DEF SameCalls, Busy
  <2>7. ProviderOK'
    <3>1. call' \in [Proc -> Call]
      BY <1>2, <2>1, <2>3
    <3>2. pc' \in [Proc -> {"idle", "lock", "work", "unlock", "exists"}]
      BY <1>2, <2>1
    <3> QED
      BY <1>2, <2>2, <3>1, <3>2 DEF ProviderOK
  <2>8. CountsOK'
    BY <1>2, <2>2 DEF CountsOK
  <2>9. pc'[p] \in {"work", "unlock"} /\ (pc'[p] = "unlock" => call'[p].todo = {})
    BY <1>1, <1>2, <2>1, <2>4
  <2>10. ~err'[p]
    BY <1>1, <2>2
  <2> QED
    BY <2>2, <2>6, <2>7, <2>8, <2>9, <2>10
<1> QED
  BY <1>3, <1>4 DEF Inside

\* Of the other processes only one that waits for the key may be about the same service.
LEMMA OthersAtService ==
  ASSUME NodeInv, NEW p \in Proc, pc[p] = "work", NEW r \in Proc, r # p, Busy(r),
         pc[r] # "exists", call[r].svc = call[p].svc
  PROVE  pc[r] = "lock" /\ (call[r].op = "delete" => call[p].op = "update")
<1>1. /\ Busy(p) /\ call[p].svc \in Svc /\ holder[call[p].svc] = p /\ call[p] \in FullCall
  BY AtWork
<1>2. pc[r] \in {"idle", "lock", "work", "unlock", "exists"} /\ pc[r] # "idle"
  BY DEF NodeInv, TypesInv, ProviderOK, ControlInv
<1>3. pc[r] \notin {"work", "unlock"}
  BY <1>1 DEF NodeInv, LockInv
<1>4. ASSUME call[r].op = "delete" PROVE call[p].op = "update"
  <2>1. r # Sync
    BY <1>4 DEF NodeInv, ControlInv
  <2>2. r \in Worker
    BY <2>1 DEF Proc
  <2>3. p \notin Worker
    BY <1>1, <2>2 DEF NodeInv, WorkerInv
  <2>4. p = Sync
    BY <2>3 DEF Proc
  <2> QED
    BY <1>1, <2>4 DEF NodeInv, ControlInv
<1> QED
  BY <1>2, <1>3, <1>4

\* A step inside an operation preserves the invariant.
LEMMA InsideKeepsInv ==
  ASSUME NodeInv, NEW p \in Proc, Inside(p)
  PROVE  NodeInv'
<1>1. /\ pc[p] = "work" /\ Busy(p) /\ ~err[p] /\ call[p] \in FullCall /\ call[p].svc \in Svc
      /\ holder[call[p].svc] = p
  BY AtWork DEF Inside
<1>2. /\ SameCalls(p) /\ ProviderOK' /\ CountsOK'
      /\ pc'[p] \in {"work", "unlock"} /\ (pc'[p] # "unlock" => ~err'[p])
      /\ ~err'[p] => /\ \A q \in Port : q \notin call'[p].todo => PortDone(call[p], q)'
                     /\ pc'[p] = "unlock" => call'[p].todo = {}
  BY InsideShape
<1>3. /\ OwnService(p) /\ NsxtOK' /\ PoolsInv'
      /\ UNCHANGED <<nodes, phase, queue, cache, knownHosts, servicesToUpdate, sync, holder, late>>
  BY DEF Inside, OwnService, outside, controller
<1>4. PICK s \in Svc : s = call[p].svc
  BY <1>1
<1>5. /\ \A t \in Svc : t # s => pools'[t] = pools[t] /\ servers'[t] = servers[t]
      /\ call[p].op = "update" =>
           /\ servers' = servers
           /\ \A q \in Port : pools[s][q] = NoPool => pools'[s][q] = NoPool
  BY <1>3, <1>4 DEF OwnService
<1>6. /\ \A r \in Proc : r # p => call'[r] = call[r] /\ pc'[r] = pc[r] /\ err'[r] = err[r]
      /\ call'[p].op = call[p].op /\ call'[p].svc = s /\ call'[p].hosts = call[p].hosts
      /\ \A r \in Proc : Busy(r)' <=> Busy(r)
  BY <1>2, <1>4 DEF SameCalls
<1>7. Sync \in Proc /\ Worker \subseteq Proc
  BY DEF Proc
<1>8. TypesInv'
  BY <1>2, <1>3 DEF NodeInv, TypesInv, ControllerOK
<1>9. ControlInv'
  <2>1. ASSUME NEW r \in Proc
        PROVE  /\ pc'[r] = "idle" <=> ~Busy(r)'
               /\ Busy(r)' => (call'[r].op = "update" <=> r = Sync)
               /\ pc'[r] = "exists" => r = Sync
               /\ pc'[r] # "unlock" => ~err'[r]
    <3>1. CASE r = p
      BY <1>1, <1>2, <1>6, <3>1 DEF NodeInv, ControlInv
    <3>2. CASE r # p
      BY <1>6, <3>2 DEF NodeInv, ControlInv
    <3> QED
      BY <3>1, <3>2
  <2>2. Busy(Sync)' => sync'.on /\ call'[Sync].hosts = sync'.hosts
    BY <1>3, <1>6, <1>7 DEF NodeInv, ControlInv
  <2> QED
    BY <2>1, <2>2 DEF ControlInv
<1>10. LockInv'
  <2> SUFFICES ASSUME NEW r \in Proc, NEW t \in Svc
               PROVE  holder'[t] = r <=> pc'[r] \in {"work", "unlock"} /\ call'[r].svc = t
    BY DEF LockInv
  <2>1. holder[t] = r <=> pc[r] \in {"work", "unlock"} /\ call[r].svc = t
    BY DEF NodeInv, LockInv
  <2>2. CASE r = p
    BY <1>1, <1>2, <1>3, <1>4, <1>6, <2>1, <2>2
  <2>3. CASE r # p
    BY <1>3, <1>6, <2>1, <2>3
  <2> QED
    BY <2>2, <2>3
<1>11. \A r \in Proc : call'[r].svc = call[r].svc /\ call'[r].op = call[r].op
  BY <1>4, <1>6
<1>12. WorkerInv'
  BY <1>3, <1>6, <1>7, <1>11 DEF NodeInv, WorkerInv
<1>13. ProgressInv'
  <2> SUFFICES ASSUME NEW r \in Proc, Busy(r)', pc'[r] # "exists", ~err'[r]
               PROVE  /\ \A q \in Port \ call'[r].todo : PortDone(call[r], q)'
                      /\ pc'[r] = "lock" /\ call'[r].op # "delete" => call'[r].todo = Port
                      /\ pc'[r] = "unlock" => call'[r].todo = {}
    BY DEF ProgressInv
  <2>1. CASE r = p
    BY <1>2, <2>1
  <2>2. CASE r # p
    <3>1. /\ call'[r] = call[r] /\ pc'[r] = pc[r] /\ err'[r] = err[r] /\ Busy(r)
          /\ call[r] \in FullCall
      BY <1>6, <2>2, CallType DEF NodeInv, TypesInv
    <3>2. /\ \A q \in Port \ call[r].todo : PortDone(call[r], q)
          /\ pc[r] = "lock" /\ call[r].op # "delete" => call[r].todo = Port
          /\ pc[r] = "unlock" => call[r].todo = {}
      BY <3>1 DEF NodeInv, ProgressInv
    <3>3. ASSUME NEW q \in Port, q \notin call[r].todo PROVE PortDone(call[r], q)'
      <4>1. PortDone(call[r], q)
        BY <3>2, <3>3
      <4>2. CASE call[r].svc # s
        <5>1. call[r].svc \in Svc
          BY <3>1 DEF FullCall
        <5>2. /\ pools'[call[r].svc] = pools[call[r].svc]
              /\ servers'[call[r].svc] = servers[call[r].svc]
          BY <1>5, <4>2, <5>1
        <5> QED
          BY <3>1, <4>1, <5>2, StaysDone
      <4>3. CASE call[r].svc = s
        <5>1. pc[r] = "lock" /\ (call[r].op = "delete" => call[p].op = "update")
          BY <1>1, <1>4, <2>2, <3>1, <4>3, OthersAtService
        <5>2. call[r].op = "delete" /\ call[p].op = "update"
          BY <3>2, <3>3, <5>1
        <5>3. pools[s][q] = NoPool
          BY <4>1, <4>3, <5>2 DEF PortDone
        <5>4. pools'[s][q] = NoPool
          BY <1>5, <5>2, <5>3
        <5> QED
          BY <3>1, <4>3, <5>2, <5>4 DEF PortDone
      <4> QED
        BY <4>2, <4>3
    <3> QED
      BY <3>1, <3>2, <3>3
  <2> QED
    BY <2>1, <2>2
<1>14. SettledInv'
  <2> SUFFICES ASSUME NEW t \in Svc, phase'[t] = "present", t \notin queue'
               PROVE  /\ t \in cache'
                      /\ ~Processed(t)' => servers'[t] = Port /\ (t \in late' \/ Settled(t)')
                      /\ \A w \in Worker :
                           (/\ Busy(w)' /\ call'[w].svc = t
                            /\ pc'[w] \in {"work", "unlock"} /\ ~err'[w]) =>
                             t \in late' \/ call'[w].hosts = Target' \/ Pending(t)'
    BY DEF SettledInv, ServiceSettled
  <2>1. /\ t \in cache
        /\ ~Processed(t) => servers[t] = Port /\ (t \in late \/ Settled(t))
        /\ \A w \in Worker :
             Busy(w) /\ call[w].svc = t /\ pc[w] \in {"work", "unlock"} /\ ~err[w] =>
               t \in late \/ call[w].hosts = Target \/ Pending(t)
    BY <1>3 DEF NodeInv, SettledInv, ServiceSettled
  <2>2. t \in cache'
    BY <1>3, <2>1
  <2>3. Processed(t)' <=> Processed(t)
    BY <1>6, <1>7, <1>11 DEF Processed, Busy
  <2>4. Target' = Target
    BY <1>3 DEF Target
  <2>5. ASSUME ~Processed(t) PROVE servers'[t] = Port /\ (t \in late' \/ Settled(t)')
    <3>1. servers[t] = Port /\ (t \in late \/ Settled(t))
      BY <2>1, <2>5
    <3>2. CASE t # s
      <4>1. pools'[t] = pools[t] /\ servers'[t] = servers[t]
        BY <1>5, <3>2
      <4>2. Settled(t) => Settled(t)'
        BY <1>3, <1>6, <1>7, <1>11, <4>1 DEF Settled, ExactFor, Exact
      <4> QED
        BY <1>3, <3>1, <4>1, <4>2
    <3>3. CASE t = s
      <4>1. p \notin Worker
        BY <1>1, <1>4, <2>5, <3>3 DEF Processed, Busy
      <4>2. p = Sync
        BY <4>1 DEF Proc
      <4>3. call[p].op = "update" /\ sync.on
        BY <1>1, <4>2 DEF NodeInv, ControlInv
      <4>4. servers' = servers
        BY <1>5, <4>3
      <4>5. Settled(t)'
        BY <1>1, <1>3, <1>6, <3>3, <4>2, <4>3 DEF Settled
      <4> QED
        BY <3>1, <4>4, <4>5
    <3> QED
      BY <3>2, <3>3
  <2>6. ASSUME NEW w \in Worker, Busy(w)', call'[w].svc = t, pc'[w] \in {"work", "unlock"}, ~err'[w]
        PROVE  t \in late' \/ call'[w].hosts = Target' \/ Pending(t)'
    <3>1. w \in Proc /\ Busy(w) /\ call[w].svc = t /\ call'[w].hosts = call[w].hosts
      BY <1>6, <1>7, <1>11, <2>6
    <3>2. pc[w] \in {"work", "unlock"} /\ ~err[w]
      <4>1. CASE w = p
        BY <1>1, <4>1
      <4>2. CASE w # p
        BY <1>6, <2>6, <3>1, <4>2
      <4> QED
        BY <4>1, <4>2
    <3>3. t \in late \/ call[w].hosts = Target \/ Pending(t)
      BY <2>1, <3>1, <3>2
    <3>4. Pending(t) => Pending(t)'
      <4>1. CASE p = Sync
        BY <1>1, <1>3, <4>1 DEF Pending
      <4>2. CASE p # Sync
        BY <1>3, <1>6, <1>7, <4>2 DEF Pending
      <4> QED
        BY <4>1, <4>2
    <3> QED
      BY <1>3, <2>4, <3>1, <3>3, <3>4
  <2> QED
    BY <2>2, <2>3, <2>5, <2>6
<1> QED
  BY <1>3, <1>8, <1>9, <1>10, <1>12, <1>13, <1>14 DEF NodeInv

-----------------------------------------------------------------------------
(***************************************************************************)
(* Frames: what a step does not disturb                                    *)
(***************************************************************************)

\* Only process p moves, and NSX-T is left alone.
OnlyProc(p) ==
  /\ UNCHANGED nsxt
  /\ \A r \in Proc : r # p => call'[r] = call[r] /\ pc'[r] = pc[r] /\ err'[r] = err[r]

LEMMA Processes ==
  Sync \in Proc /\ Worker \subseteq Proc /\ NoProc \notin Proc /\ Sync \notin Worker
BY SyncAssumption DEF Proc

LEMMA NsxtFrame ==
  ASSUME NodeInv, UNCHANGED nsxt
  PROVE  /\ NsxtOK' /\ PoolsInv'
         /\ \A s \in Svc, hosts \in SUBSET Node : ExactFor(s, hosts)' <=> ExactFor(s, hosts)
         /\ \A s \in Svc : servers'[s] = servers[s]
BY DEF NodeInv, TypesInv, NsxtOK, PoolsInv, ExactFor, Exact, nsxt

LEMMA ProgressFrame ==
  ASSUME NodeInv, NEW p \in Proc, OnlyProc(p),
         Busy(p)' /\ pc'[p] # "exists" /\ ~err'[p] =>
           /\ \A q \in Port \ call'[p].todo : PortDone(call[p], q)'
           /\ pc'[p] = "lock" /\ call'[p].op # "delete" => call'[p].todo = Port
           /\ pc'[p] = "unlock" => call'[p].todo = {}
  PROVE  ProgressInv'
<1> SUFFICES ASSUME NEW r \in Proc, Busy(r)', pc'[r] # "exists", ~err'[r]
             PROVE  /\ \A q \in Port \ call'[r].todo : PortDone(call[r], q)'
                    /\ pc'[r] = "lock" /\ call'[r].op # "delete" => call'[r].todo = Port
                    /\ pc'[r] = "unlock" => call'[r].todo = {}
  BY DEF ProgressInv
<1>1. CASE r = p
  BY <1>1
<1>2. CASE r # p
  <2>1. call'[r] = call[r] /\ pc'[r] = pc[r] /\ err'[r] = err[r] /\ Busy(r) /\ UNCHANGED nsxt
    BY <1>2 DEF OnlyProc, Busy
  <2>2. /\ \A q \in Port \ call[r].todo : PortDone(call[r], q)
        /\ pc[r] = "lock" /\ call[r].op # "delete" => call[r].todo = Port
        /\ pc[r] = "unlock" => call[r].todo = {}
    BY <2>1 DEF NodeInv, ProgressInv
  <2>3. ASSUME NEW q \in Port, q \notin call[r].todo PROVE PortDone(call[r], q)'
    <3>1. PortDone(call[r], q)
      BY <2>2, <2>3
    <3> QED
      BY <2>1, <3>1, StaysDone DEF nsxt
  <2> QED
    BY <2>1, <2>2, <2>3
<1> QED
  BY <1>1, <1>2

LEMMA ControlFrame ==
  ASSUME NodeInv, NEW p \in Proc, OnlyProc(p),
         pc'[p] = "idle" <=> ~Busy(p)',
         Busy(p)' => (call'[p].op = "update" <=> p = Sync),
         pc'[p] = "exists" => p = Sync,
         pc'[p] # "unlock" => ~err'[p],
         Busy(Sync)' => sync'.on /\ call'[Sync].hosts = sync'.hosts
  PROVE  ControlInv'
<1>1. ASSUME NEW r \in Proc
      PROVE  /\ pc'[r] = "idle" <=> ~Busy(r)'
             /\ Busy(r)' => (call'[r].op = "update" <=> r = Sync)
             /\ pc'[r] = "exists" => r = Sync
             /\ pc'[r] # "unlock" => ~err'[r]
  <2>1. CASE r = p
    BY <2>1
  <2>2. CASE r # p
    BY <2>2 DEF OnlyProc, Busy, NodeInv, ControlInv
  <2> QED
    BY <2>1, <2>2
<1> QED
  BY <1>1 DEF ControlInv

LEMMA LockFrame ==
  ASSUME NodeInv, NEW p \in Proc, OnlyProc(p), UNCHANGED holder,
         pc[p] \notin {"work", "unlock"}, pc'[p] \notin {"work", "unlock"}
  PROVE  LockInv'
<1> SUFFICES ASSUME NEW r \in Proc, NEW t \in Svc
             PROVE  holder'[t] = r <=> pc'[r] \in {"work", "unlock"} /\ call'[r].svc = t
  BY DEF LockInv
<1>1. holder[t] = r <=> pc[r] \in {"work", "unlock"} /\ call[r].svc = t
  BY DEF NodeInv, LockInv
<1>2. CASE r = p
  BY <1>1, <1>2
<1>3. CASE r # p
  BY <1>1, <1>3 DEF OnlyProc
<1> QED
  BY <1>2, <1>3

\* A key is given back.
LEMMA ReleaseFrame ==
  ASSUME NodeInv, NEW p \in Proc, OnlyProc(p), pc[p] = "unlock", KL!Release(p, call[p].svc),
         pc'[p] \notin {"work", "unlock"}
  PROVE  LockInv' /\ holder' \in [Svc -> Proc \cup {NoProc}]
<1>1. holder' = [holder EXCEPT ![call[p].svc] = NoProc] /\ holder \in [Svc -> Proc \cup {NoProc}]
  BY DEF KL!Release, NodeInv, TypesInv, ProviderOK
<1> SUFFICES ASSUME NEW r \in Proc, NEW t \in Svc
             PROVE  holder'[t] = r <=> pc'[r] \in {"work", "unlock"} /\ call'[r].svc = t
  BY <1>1 DEF LockInv
<1>2. holder[t] = r <=> pc[r] \in {"work", "unlock"} /\ call[r].svc = t
  BY DEF NodeInv, LockInv
<1>3. holder[t] = p <=> call[p].svc = t
  BY DEF NodeInv, LockInv
<1>4. holder'[t] = IF t = call[p].svc THEN NoProc ELSE holder[t]
  BY <1>1
<1>5. CASE r = p
  BY <1>3, <1>4, <1>5, Processes
<1>6. CASE r # p
  <2>1. call'[r] = call[r] /\ pc'[r] = pc[r]
    BY <1>6 DEF OnlyProc
  <2> QED
    BY <1>2, <1>3, <1>4, <1>6, <2>1, Processes
<1> QED
  BY <1>5, <1>6

\* No process moves.
LEMMA QuietFrame ==
  ASSUME NodeInv, UNCHANGED <<nsxt, holder, pc, call, err>>
  PROVE  /\ NsxtOK' /\ ProviderOK' /\ LockInv' /\ PoolsInv' /\ ProgressInv'
         /\ \A p \in Proc : Busy(p)' <=> Busy(p)
         /\ \A s \in Svc : Processed(s)' <=> Processed(s)
         /\ (Busy(Sync) => sync'.on /\ call[Sync].hosts = sync'.hosts) => ControlInv'
         /\ (\A w \in Worker : Busy(w) /\ call[w].op = "delete" => phase'[call[w].svc] = "deleting")
              => WorkerInv'
<1>1. NsxtOK' /\ PoolsInv'
  BY NsxtFrame
<1>2. ProviderOK' /\ LockInv'
  BY DEF NodeInv, TypesInv, ProviderOK, LockInv
<1>3. OnlyProc(Sync) /\ Sync \in Proc
  BY Processes DEF OnlyProc
<1>4. /\ \A p \in Proc : Busy(p)' <=> Busy(p)
      /\ \A s \in Svc : Processed(s)' <=> Processed(s)
  BY DEF Busy, Processed
<1>5. ProgressInv'
  <2> SUFFICES ASSUME Busy(Sync), pc[Sync] # "exists", ~err[Sync]
               PROVE  /\ \A q \in Port \ call'[Sync].todo : PortDone(call[Sync], q)'
                      /\ pc'[Sync] = "lock" /\ call'[Sync].op # "delete" => call'[Sync].todo = Port
                      /\ pc'[Sync] = "unlock" => call'[Sync].todo = {}
    BY <1>3, <1>4, ProgressFrame
  <2>1. /\ \A q \in Port \ call[Sync].todo : PortDone(call[Sync], q)
        /\ pc[Sync] = "lock" /\ call[Sync].op # "delete" => call[Sync].todo = Port
        /\ pc[Sync] = "unlock" => call[Sync].todo = {}
    BY <1>3 DEF NodeInv, ProgressInv
  <2>2. ASSUME NEW q \in Port, q \notin call[Sync].todo PROVE PortDone(call[Sync], q)'
    BY <1>3, <2>1, <2>2, StaysDone DEF nsxt
  <2> QED
    BY <2>1, <2>2
<1>6. ASSUME Busy(Sync) => sync'.on /\ call[Sync].hosts = sync'.hosts PROVE ControlInv'
  BY <1>4, <1>6 DEF NodeInv, ControlInv, Busy
<1>7. ASSUME \A w \in Worker : Busy(w) /\ call[w].op = "delete" => phase'[call[w].svc] = "deleting"
      PROVE  WorkerInv'
  BY <1>7 DEF NodeInv, WorkerInv, Busy
<1> QED
  BY <1>1, <1>2, <1>4, <1>5, <1>6, <1>7

-----------------------------------------------------------------------------
(***************************************************************************)
(* Lock                                                                    *)
(***************************************************************************)

\* A process gets the key of its service.
LEMMA LockKeepsInv ==
  ASSUME NodeInv, NEW p \in Proc, Lock(p)
  PROVE  NodeInv'
<1>1. /\ pc[p] = "lock" /\ KL!Acquire(p, call[p].svc)
      /\ UNCHANGED <<nodes, phase, nsxt, controller>>
      /\ late' = IF call[p].op # "ensure" THEN late
                 ELSE IF call[p].hosts = Target THEN late \ {call[p].svc}
                 ELSE late \cup {call[p].svc}
  BY DEF Lock
<1>2. /\ call' = call
      /\ \/ pc' = [pc EXCEPT ![p] = "work"] /\ UNCHANGED <<err, counts>>
         \/ /\ pc' = [pc EXCEPT ![p] = "unlock"] /\ err' = [err EXCEPT ![p] = TRUE]
            /\ Count("faults")
  BY DEF Lock, Fault
<1>3. Busy(p) /\ ~err[p] /\ call[p] \in FullCall /\ call[p].svc \in Svc
  <2>1. Busy(p) /\ ~err[p]
    BY <1>1 DEF NodeInv, ControlInv
  <2>2. call[p] \in FullCall
    BY <2>1, CallType DEF NodeInv, TypesInv
  <2> QED
    BY <2>1, <2>2 DEF FullCall
<1>4. PICK s \in Svc : s = call[p].svc
  BY <1>3
<1>5. /\ pc \in [Proc -> {"idle", "lock", "work", "unlock", "exists"}]
      /\ err \in [Proc -> BOOLEAN] /\ call \in [Proc -> Call]
      /\ holder \in [Svc -> Proc \cup {NoProc}]
  BY DEF NodeInv, TypesInv, ProviderOK
<1>6. holder[s] = NoProc /\ holder' = [holder EXCEPT ![s] = p]
  BY <1>1, <1>4 DEF KL!Acquire
<1>7. OnlyProc(p)
  BY <1>1, <1>2, <1>5 DEF OnlyProc
<1>8. /\ pc'[p] \in {"work", "unlock"} /\ (pc'[p] = "unlock" => err'[p])
      /\ (pc'[p] = "work" => ~err'[p])
      /\ \A r \in Proc : r # p => pc'[r] = pc[r] /\ err'[r] = err[r]
  BY <1>2, <1>3, <1>5
<1>9. UNCHANGED <<nodes, phase, queue, cache, knownHosts, servicesToUpdate, sync>>
  BY <1>1 DEF controller
<1>10. \A r \in Proc : Busy(r)' <=> Busy(r)
  BY <1>2 DEF Busy
<1>11. TypesInv'
  <2>1. CountsOK'
    <3>1. CASE UNCHANGED counts
      BY <3>1 DEF NodeInv, TypesInv, CountsOK
    <3>2. CASE Count("faults")
      BY <3>2, CountType, BoundNames DEF NodeInv, TypesInv
    <3> QED
      BY <1>2, <3>1, <3>2
  <2>2. ControllerOK'
    <3>1. late' \subseteq Svc
      BY <1>1, <1>3 DEF NodeInv, TypesInv, ControllerOK
    <3> QED
      BY <1>9, <3>1 DEF NodeInv, TypesInv, ControllerOK
  <2>3. ProviderOK'
    <3>1. holder' \in [Svc -> Proc \cup {NoProc}]
      BY <1>5, <1>6
    <3>2. pc' \in [Proc -> {"idle", "lock", "work", "unlock", "exists"}]
      BY <1>2, <1>5
    <3>3. err' \in [Proc -> BOOLEAN]
      BY <1>2, <1>5
    <3> QED
      BY <1>2, <1>5, <3>1, <3>2, <3>3 DEF ProviderOK
  <2> QED
    BY <1>1, <2>1, <2>2, <2>3, NsxtFrame DEF TypesInv
<1>12. ControlInv'
  <2>1. Busy(Sync)' => sync'.on /\ call'[Sync].hosts = sync'.hosts
    BY <1>2, <1>9, <1>10, Processes DEF NodeInv, ControlInv
  <2>2. /\ pc'[p] = "idle" <=> ~Busy(p)'
        /\ Busy(p)' => (call'[p].op = "update" <=> p = Sync)
    BY <1>2, <1>3, <1>8, <1>10 DEF NodeInv, ControlInv
  <2> QED
    BY <1>7, <1>8, <2>1, <2>2, ControlFrame
<1>13. LockInv'
  <2> SUFFICES ASSUME NEW r \in Proc, NEW t \in Svc
               PROVE  holder'[t] = r <=> pc'[r] \in {"work", "unlock"} /\ call'[r].svc = t
    BY DEF LockInv
  <2>1. holder[t] = r <=> pc[r] \in {"work", "unlock"} /\ call[r].svc = t
    BY DEF NodeInv, LockInv
  <2>2. holder'[t] = IF t = s THEN p ELSE holder[t]
    BY <1>5, <1>6
  <2>3. CASE r = p
    BY <1>1, <1>2, <1>4, <1>8, <2>1, <2>2, <2>3
  <2>4. CASE r # p
    BY <1>2, <1>6, <1>8, <2>1, <2>2, <2>4, Processes
  <2> QED
    BY <2>3, <2>4
<1>14. WorkerInv'
  BY <1>2, <1>9, <1>10, Processes DEF NodeInv, WorkerInv, Busy
<1>15. PoolsInv'
  BY <1>1, NsxtFrame
<1>16. ProgressInv'
  <2>1. /\ \A q \in Port \ call[p].todo : PortDone(call[p], q)
    BY <1>1, <1>3 DEF NodeInv, ProgressInv
  <2>2. ASSUME NEW q \in Port, q \notin call[p].todo PROVE PortDone(call[p], q)'
    BY <1>1, <1>2, <2>1, <2>2, StaysDone DEF nsxt
  <2> QED
    BY <1>2, <1>7, <1>8, <2>2, ProgressFrame
<1>17. SettledInv'
  <2> SUFFICES ASSUME NEW t \in Svc, phase'[t] = "present", t \notin queue'
               PROVE  ServiceSettled(t)'
    BY DEF SettledInv
  <2>1. ServiceSettled(t) /\ phase[t] = "present"
    BY <1>9 DEF NodeInv, SettledInv
  <2>2. Processed(t)' <=> Processed(t)
    BY <1>2 DEF Processed
  <2>3. t \in cache'
    BY <1>9, <2>1 DEF ServiceSettled
  <2>4. ASSUME ~Processed(t) PROVE servers'[t] = Port /\ (t \in late' \/ Settled(t)')
    <3>1. servers[t] = Port /\ (t \in late \/ Settled(t))
      BY <2>1, <2>4 DEF ServiceSettled
    <3>2. t \in late => t \in late'
      <4>1. CASE call[p].op = "ensure"
        <5>1. p \in Worker
          BY <1>3, <4>1 DEF NodeInv, ControlInv, Proc
        <5>2. t # s
          BY <1>3, <1>4, <2>4, <5>1 DEF Processed, Busy
        <5> QED
          BY <1>1, <1>4, <5>2
      <4>2. CASE call[p].op # "ensure"
        BY <1>1, <4>2
      <4> QED
        BY <4>1, <4>2
    <3>3. Settled(t) => Settled(t)'
      BY <1>1, <1>2, <1>9, <1>10, Processes DEF Settled, ExactFor, Exact, nsxt
    <3>4. servers'[t] = servers[t]
      BY <1>1 DEF nsxt
    <3> QED
      BY <3>1, <3>2, <3>3, <3>4
  <2>5. ASSUME NEW w \in Worker, Busy(w)', call'[w].svc = t, pc'[w] \in {"work", "unlock"}, ~err'[w]
        PROVE  t \in late' \/ call'[w].hosts = Target' \/ Pending(t)'
    <3>1. w \in Proc /\ call[w].svc = t /\ Busy(w) /\ Target' = Target
      BY <1>2, <1>9, <1>10, <2>5, Processes DEF Target
    <3>2. CASE w = p
      <4>1. call[w].op \in {"ensure", "delete", "update"} /\ call[w].op # "update"
        BY <1>3, <3>1, <3>2, Processes DEF NodeInv, ControlInv, FullCall
      <4>2. call[w].op # "delete"
        BY <2>1, <3>1 DEF NodeInv, WorkerInv
      <4>3. call[p].op = "ensure" /\ t = s
        BY <1>4, <3>1, <3>2, <4>1, <4>2
      <4> QED
        BY <1>1, <1>2, <1>4, <3>1, <3>2, <4>3
    <3>3. CASE w # p
      <4>1. pc[w] \in {"work", "unlock"} /\ ~err[w]
        BY <1>8, <2>5, <3>1, <3>3
      <4>2. holder[t] = w
        BY <3>1, <4>1 DEF NodeInv, LockInv
      <4>3. t # s
        BY <1>6, <3>1, <4>2, Processes
      <4>4. t \in late \/ call[w].hosts = Target \/ Pending(t)
        BY <2>1, <3>1, <4>1 DEF ServiceSettled
      <4>5. t \in late => t \in late'
        BY <1>1, <1>4, <4>3
      <4>6. Pending(t) => Pending(t)'
        <5>1. CASE p = Sync
          BY <1>4, <1>9, <4>3, <5>1 DEF Pending
        <5>2. CASE p # Sync
          BY <1>2, <1>8, <1>9, <5>2, Processes DEF Pending
        <5> QED
          BY <5>1, <5>2
      <4> QED
        BY <1>2, <3>1, <4>4, <4>5, <4>6
    <3> QED
      BY <3>2, <3>3
  <2> QED
    BY <2>2, <2>3, <2>4, <2>5 DEF ServiceSettled
<1> QED
  BY <1>11, <1>12, <1>13, <1>14, <1>15, <1>16, <1>17 DEF NodeInv

-----------------------------------------------------------------------------
(***************************************************************************)
(* The workers                                                             *)
(***************************************************************************)

\* The workers' part of SettledInv, for a service that no step of a worker touches.
LEMMA WorkersElsewhere ==
  ASSUME NodeInv, NEW t \in Svc, phase[t] = "present", t \notin queue, ServiceSettled(t),
         NEW p \in Worker, OnlyProc(p), UNCHANGED <<sync, knownHosts, servicesToUpdate, late>>,
         call[p] # NoCall => call[p].svc # t, call'[p] # NoCall => call'[p].svc # t,
         t \in cache'
  PROVE  ServiceSettled(t)'
<1>1. /\ p \in Proc /\ p # Sync
      /\ \A r \in Proc : r # p => call'[r] = call[r] /\ pc'[r] = pc[r] /\ err'[r] = err[r]
  BY Processes DEF OnlyProc
<1>2. Processed(t)' <=> Processed(t)
  BY <1>1, Processes DEF Processed
<1>3. /\ Target' = Target /\ (Pending(t)' <=> Pending(t)) /\ (Busy(Sync)' <=> Busy(Sync))
      /\ call'[Sync] = call[Sync]
  <2>1. Sync \in Proc /\ call'[Sync] = call[Sync] /\ pc'[Sync] = pc[Sync]
    BY <1>1, Processes
  <2>2. Target' = Target
    BY DEF Target
  <2>3. Pending(t)' <=> Pending(t)
    BY <2>1 DEF Pending
  <2>4. Busy(Sync)' <=> Busy(Sync)
    BY <2>1 DEF Busy
  <2> QED
    BY <2>1, <2>2, <2>3, <2>4
<1>4. Settled(t) => Settled(t)'
  BY <1>3 DEF Settled, ExactFor, Exact, OnlyProc, nsxt
<1>5. ~Processed(t)' => servers'[t] = Port /\ (t \in late' \/ Settled(t)')
  BY <1>2, <1>4 DEF ServiceSettled, OnlyProc, nsxt
<1>6. ASSUME NEW w \in Worker, Busy(w)', call'[w].svc = t, pc'[w] \in {"work", "unlock"}, ~err'[w]
      PROVE  t \in late' \/ call'[w].hosts = Target' \/ Pending(t)'
  <2>1. w # p
    BY <1>6 DEF Busy
  <2>2. call'[w] = call[w] /\ pc'[w] = pc[w] /\ err'[w] = err[w] /\ Busy(w)
    BY <1>1, <1>6, <2>1, Processes DEF Busy
  <2>3. t \in late \/ call[w].hosts = Target \/ Pending(t)
    BY <1>6, <2>2 DEF ServiceSettled
  <2> QED
    BY <1>3, <2>2, <2>3
<1> QED
  BY <1>5, <1>6 DEF ServiceSettled

\* A worker takes a service from the queue and starts the operation c.
LEMMA TakeKeepsInv ==
  ASSUME NodeInv, NEW w \in Worker, NEW s \in Svc, NEW c \in FullCall,
         s \in queue, ~Processed(s), Start(w, c), c.svc = s, c.op # "update",
         c.op = "delete" => phase[s] = "deleting",
         c.op # "delete" => c.todo = Port,
         c.op = "delete" => \A q \in Port : q \notin c.todo => pools[s][q] = NoPool,
         queue' = queue \ {s}, cache' = cache \cup {s},
         UNCHANGED <<nodes, phase, nsxt, knownHosts, servicesToUpdate, sync, holder, err, counts,
                     late>>
  PROVE  NodeInv'
<1>1. /\ pc[w] = "idle" /\ pc' = [pc EXCEPT ![w] = "lock"] /\ call' = [call EXCEPT ![w] = c]
      /\ w \in Proc /\ w # Sync
  BY Processes DEF Start
<1>2. /\ pc \in [Proc -> {"idle", "lock", "work", "unlock", "exists"}]
      /\ call \in [Proc -> Call]
  BY DEF NodeInv, TypesInv, ProviderOK
<1>3. c \in Call /\ c # NoCall
  BY FullCallIsCall
<1>4. /\ call'[w] = c /\ pc'[w] = "lock" /\ Busy(w)' /\ ~Busy(w) /\ ~err'[w]
  BY <1>1, <1>2, <1>3 DEF Busy, NodeInv, ControlInv
<1>5. OnlyProc(w) /\ \A r \in Proc : r # w => (Busy(r)' <=> Busy(r)) /\ call'[r] = call[r]
  BY <1>1, <1>2 DEF OnlyProc, Busy
<1>6. TypesInv'
  <2>1. ProviderOK'
    BY <1>1, <1>2, <1>3 DEF NodeInv, TypesInv, ProviderOK
  <2>2. ControllerOK' /\ CountsOK'
    BY DEF NodeInv, TypesInv, ControllerOK, CountsOK
  <2> QED
    BY <2>1, <2>2, NsxtFrame DEF TypesInv
<1>7. ControlInv'
  <2>1. Busy(Sync)' => sync'.on /\ call'[Sync].hosts = sync'.hosts
    BY <1>1, <1>5, Processes DEF NodeInv, ControlInv
  <2> QED
    BY <1>1, <1>4, <1>5, <2>1, ControlFrame
<1>8. LockInv'
  BY <1>1, <1>4, <1>5, LockFrame
<1>9. ASSUME NEW v \in Worker, Busy(v), v # w PROVE call[v].svc # s
  BY <1>9 DEF Processed, Busy
<1>10. WorkerInv'
  <2>1. ASSUME NEW u \in Worker, NEW v \in Worker, Busy(u)', Busy(v)', call'[u].svc = call'[v].svc
        PROVE  u = v
    <3>1. CASE u = w \/ v = w
      BY <1>4, <1>5, <1>9, <2>1, <3>1, Processes
    <3>2. CASE u # w /\ v # w
      BY <1>5, <2>1, <3>2, Processes DEF NodeInv, WorkerInv
    <3> QED
      BY <3>1, <3>2
  <2>2. ASSUME NEW v \in Worker, Busy(v)', call'[v].op = "delete"
        PROVE  phase'[call'[v].svc] = "deleting"
    <3>1. CASE v = w
      BY <1>4, <2>2, <3>1
    <3>2. CASE v # w
      BY <1>5, <2>2, <3>2, Processes DEF NodeInv, WorkerInv
    <3> QED
      BY <3>1, <3>2
  <2> QED
    BY <2>1, <2>2 DEF WorkerInv
<1>11. ProgressInv'
  <2>1. ASSUME NEW q \in Port, q \notin c.todo PROVE PortDone(call[w], q)'
    <3>1. c.op = "delete" /\ pools'[s][q] = NoPool
      BY <2>1 DEF nsxt
    <3> QED
      BY <1>4, <3>1 DEF PortDone
  <2> QED
    BY <1>1, <1>4, <1>5, <2>1, ProgressFrame
<1>12. SettledInv'
  <2> SUFFICES ASSUME NEW t \in Svc, phase'[t] = "present", t \notin queue'
               PROVE  ServiceSettled(t)'
    BY DEF SettledInv
  <2>1. CASE t = s
    <3>1. t \in cache' /\ Processed(t)'
      BY <1>4, <2>1 DEF Processed, Busy
    <3>2. ASSUME NEW v \in Worker, Busy(v)', call'[v].svc = t, pc'[v] \in {"work", "unlock"}
          PROVE  FALSE
      BY <1>4, <1>5, <1>9, <2>1, <3>2, Processes
    <3> QED
      BY <3>1, <3>2 DEF ServiceSettled
  <2>2. CASE t # s
    <3>1. phase[t] = "present" /\ t \notin queue /\ ServiceSettled(t) /\ t \in cache'
      BY <2>2 DEF NodeInv, SettledInv, ServiceSettled
    <3>2. call[w] = NoCall /\ call'[w].svc # t
      BY <1>4, <2>2 DEF Busy
    <3> QED
      BY <1>5, <3>1, <3>2, WorkersElsewhere
  <2> QED
    BY <2>1, <2>2
<1> QED
  BY <1>6, <1>7, <1>8, <1>10, <1>11, <1>12, NsxtFrame DEF NodeInv

LEMMA TakeEnsureKeepsInv ==
  ASSUME NodeInv, NEW w \in Worker, NEW s \in Svc, TakeEnsure(w, s)
  PROVE  NodeInv'
<1> DEFINE c == [op |-> "ensure", svc |-> s, hosts |-> nodes, todo |-> Port]
<1>1. c \in FullCall /\ c.svc = s /\ c.op = "ensure" /\ c.todo = Port
  BY DEF FullCall, NodeInv, TypesInv, ControllerOK
<1>2. /\ s \in queue /\ ~Processed(s) /\ Start(w, c)
      /\ queue' = queue \ {s} /\ cache' = cache \cup {s}
      /\ UNCHANGED <<nodes, phase, nsxt, knownHosts, servicesToUpdate, sync, holder, err, counts,
                     late>>
  BY DEF TakeEnsure
<1> HIDE DEF c
<1> QED
  BY <1>1, <1>2, TakeKeepsInv

LEMMA TakeDeleteKeepsInv ==
  ASSUME NodeInv, NEW w \in Worker, NEW s \in Svc, TakeDelete(w, s)
  PROVE  NodeInv'
<1> DEFINE T == {q \in Port : pools[s][q] # NoPool}
           c == [op |-> "delete", svc |-> s, hosts |-> {}, todo |-> T]
<1>1. c \in FullCall /\ c.svc = s /\ c.op = "delete" /\ c.todo = T
  BY DEF FullCall
<1>2. /\ s \in queue /\ ~Processed(s) /\ phase[s] = "deleting" /\ Start(w, c)
      /\ queue' = queue \ {s} /\ cache' = cache \cup {s}
      /\ UNCHANGED <<nodes, phase, nsxt, knownHosts, servicesToUpdate, sync, holder, err, counts,
                     late>>
  BY DEF TakeDelete
<1>3. \A q \in Port : q \notin T => pools[s][q] = NoPool
  OBVIOUS
<1> HIDE DEF c, T
<1> QED
  BY <1>1, <1>2, <1>3, TakeKeepsInv

\* The finalizer is removed at once.
LEMMA TakeNothingKeepsInv ==
  ASSUME NodeInv, NEW w \in Worker, NEW s \in Svc, TakeNothing(w, s)
  PROVE  NodeInv'
<1>1. /\ s \in queue /\ ~Processed(s) /\ phase[s] = "deleting"
      /\ phase' = [phase EXCEPT ![s] = "absent"]
      /\ queue' = queue \ {s} /\ cache' = cache \ {s}
      /\ UNCHANGED <<nsxt, holder, pc, call, err>>
      /\ UNCHANGED <<nodes, knownHosts, servicesToUpdate, sync, counts, late>>
  BY DEF TakeNothing
<1>2. phase \in [Svc -> {"absent", "present", "deleting"}]
  BY DEF NodeInv, TypesInv, ControllerOK
<1>3. TypesInv'
  <2>1. ControllerOK' /\ CountsOK'
    BY <1>1, <1>2 DEF NodeInv, TypesInv, ControllerOK, CountsOK
  <2> QED
    BY <1>1, <2>1, QuietFrame DEF TypesInv
<1>4. ControlInv'
  BY <1>1, QuietFrame DEF NodeInv, ControlInv
<1>5. WorkerInv'
  <2>1. ASSUME NEW v \in Worker, Busy(v), call[v].op = "delete"
        PROVE  phase'[call[v].svc] = "deleting"
    <3>1. call[v].svc # s
      BY <1>1, <2>1 DEF Processed, Busy
    <3>2. call[v].svc \in Svc
      BY <2>1, CallType, Processes DEF NodeInv, TypesInv, FullCall
    <3> QED
      BY <1>1, <1>2, <2>1, <3>1, <3>2 DEF NodeInv, WorkerInv
  <2> QED
    BY <1>1, <2>1, QuietFrame
<1>6. SettledInv'
  <2> SUFFICES ASSUME NEW t \in Svc, phase'[t] = "present", t \notin queue'
               PROVE  ServiceSettled(t)'
    BY DEF SettledInv
  <2>1. t # s
    BY <1>1, <1>2
  <2>2. phase[t] = "present" /\ t \notin queue
    BY <1>1, <1>2, <2>1
  <2>3. ServiceSettled(t)
    BY <2>2 DEF NodeInv, SettledInv
  <2>4. /\ t \in cache' /\ call'[w] = call[w] /\ OnlyProc(w)
    BY <1>1, <2>1, <2>3 DEF ServiceSettled, OnlyProc
  <2>5. w \in Proc /\ call[w] = NoCall
    BY Processes DEF TakeNothing, NodeInv, ControlInv, Busy
  <2> QED
    BY <1>1, <2>2, <2>3, <2>4, <2>5, WorkersElsewhere
<1> QED
  BY <1>1, <1>3, <1>4, <1>5, <1>6, QuietFrame DEF NodeInv

\* What a process that returns has achieved.
LEMMA AtUnlock ==
  ASSUME NodeInv, NEW p \in Proc, pc[p] = "unlock"
  PROVE  /\ Busy(p) /\ call[p] \in FullCall /\ call[p].svc \in Svc /\ holder[call[p].svc] = p
         /\ call[p].hosts \in SUBSET Node
         /\ ~err[p] => \A q \in Port : PortDone(call[p], q)
<1>1. Busy(p)
  BY DEF NodeInv, ControlInv
<1>2. call[p] \in FullCall
  BY <1>1, CallType DEF NodeInv, TypesInv
<1>3. call[p].svc \in Svc /\ call[p].hosts \in SUBSET Node
  BY <1>2 DEF FullCall
<1>4. holder[call[p].svc] = p
  BY <1>3 DEF NodeInv, LockInv
<1>5. ASSUME ~err[p] PROVE \A q \in Port : PortDone(call[p], q)
  BY <1>1, <1>5 DEF NodeInv, ProgressInv
<1> QED
  BY <1>1, <1>2, <1>3, <1>4, <1>5

\* A worker is done with its service.
LEMMA WorkerReturnsKeepsInv ==
  ASSUME NodeInv, NEW w \in Worker, WorkerReturns(w)
  PROVE  NodeInv'
<1> DEFINE deleted == call[w].op = "delete" /\ ~err[w]
<1>1. /\ pc[w] = "unlock" /\ KL!Release(w, call[w].svc) /\ err' = [err EXCEPT ![w] = FALSE]
      /\ pc' = [pc EXCEPT ![w] = "idle"] /\ call' = [call EXCEPT ![w] = NoCall]
      /\ w \in Proc /\ w # Sync
  BY Processes DEF WorkerReturns, Return
<1>2. /\ Busy(w) /\ call[w] \in FullCall /\ call[w].svc \in Svc
      /\ call[w].hosts \in SUBSET Node
      /\ ~err[w] => \A q \in Port : PortDone(call[w], q)
  BY <1>1, AtUnlock
<1>3. PICK s \in Svc : s = call[w].svc
  BY <1>2
<1>4. /\ queue' = IF err[w] THEN queue \cup {s} ELSE queue
      /\ cache' = IF deleted THEN cache \ {s} ELSE cache
      /\ phase' = IF deleted THEN [phase EXCEPT ![s] = "absent"] ELSE phase
      /\ UNCHANGED <<nodes, nsxt, knownHosts, servicesToUpdate, sync, counts, late>>
  BY <1>3 DEF WorkerReturns
<1> HIDE DEF deleted
<1>5. /\ pc \in [Proc -> {"idle", "lock", "work", "unlock", "exists"}]
      /\ call \in [Proc -> Call] /\ err \in [Proc -> BOOLEAN]
      /\ phase \in [Svc -> {"absent", "present", "deleting"}]
      /\ servers \in [Svc -> SUBSET Port]
  BY DEF NodeInv, TypesInv, ProviderOK, ControllerOK, NsxtOK
<1>6. call'[w] = NoCall /\ pc'[w] = "idle" /\ ~err'[w] /\ ~Busy(w)'
  BY <1>1, <1>5 DEF Busy
<1>7. OnlyProc(w)
  BY <1>1, <1>4, <1>5 DEF OnlyProc
<1>8. \A r \in Proc : r # w => call'[r] = call[r] /\ (Busy(r)' <=> Busy(r))
  BY <1>7 DEF OnlyProc, Busy
<1>9. LockInv' /\ holder' \in [Svc -> Proc \cup {NoProc}]
  BY <1>1, <1>6, <1>7, ReleaseFrame
<1>10. \A t \in Svc : t # s => phase'[t] = phase[t]
  BY <1>4, <1>5
<1>11. TypesInv'
  <2>1. ProviderOK'
    BY <1>1, <1>5, <1>9, FullCallIsCall DEF ProviderOK
  <2>2. phase' \in [Svc -> {"absent", "present", "deleting"}]
    BY <1>4, <1>5
  <2>3. ControllerOK' /\ CountsOK'
    BY <1>4, <2>2 DEF NodeInv, TypesInv, ControllerOK, CountsOK
  <2> QED
    BY <1>4, <2>1, <2>3, NsxtFrame DEF TypesInv
<1>12. ControlInv'
  <2>1. Busy(Sync)' => sync'.on /\ call'[Sync].hosts = sync'.hosts
    BY <1>1, <1>4, <1>8, Processes DEF NodeInv, ControlInv
  <2> QED
    BY <1>1, <1>6, <1>7, <2>1, ControlFrame
<1>13. ASSUME NEW v \in Worker, Busy(v), v # w PROVE call[v].svc # s
  BY <1>2, <1>3, <1>13 DEF NodeInv, WorkerInv
<1>14. WorkerInv'
  <2>1. ASSUME NEW u \in Worker, NEW v \in Worker, Busy(u)', Busy(v)', call'[u].svc = call'[v].svc
        PROVE  u = v
    BY <1>6, <1>8, <2>1, Processes DEF NodeInv, WorkerInv
  <2>2. ASSUME NEW v \in Worker, Busy(v)', call'[v].op = "delete"
        PROVE  phase'[call'[v].svc] = "deleting"
    <3>1. v # w /\ Busy(v) /\ call'[v] = call[v] /\ v \in Proc
      BY <1>6, <1>8, <2>2, Processes
    <3>2. call[v].svc \in Svc /\ call[v].svc # s
      BY <1>13, <3>1, CallType DEF NodeInv, TypesInv, FullCall
    <3> QED
      BY <1>10, <2>2, <3>1, <3>2 DEF NodeInv, WorkerInv
  <2> QED
    BY <2>1, <2>2 DEF WorkerInv
<1>15. ProgressInv'
  BY <1>1, <1>6, <1>7, ProgressFrame
<1>16. SettledInv'
  <2> SUFFICES ASSUME NEW t \in Svc, phase'[t] = "present", t \notin queue'
               PROVE  ServiceSettled(t)'
    BY DEF SettledInv
  <2>1. CASE t # s
    <3>1. phase[t] = "present" /\ t \notin queue
      BY <1>4, <1>10, <2>1
    <3>2. ServiceSettled(t)
      BY <3>1 DEF NodeInv, SettledInv
    <3>3. t \in cache' /\ call[w].svc # t
      BY <1>3, <1>4, <2>1, <3>2 DEF ServiceSettled
    <3> QED
      BY <1>4, <1>6, <1>7, <3>1, <3>2, <3>3, WorkersElsewhere
  <2>2. CASE t = s
    <3>1. ~err[w] /\ ~deleted
      BY <1>4, <1>5, <2>2
    <3>2. phase[s] = "present" /\ s \notin queue /\ s \in cache' /\ ServiceSettled(s)
      BY <1>4, <2>2, <3>1 DEF NodeInv, SettledInv, ServiceSettled
    <3>3. call[w].op = "ensure"
      <4>1. call[w].op \in {"ensure", "delete", "update"} /\ call[w].op # "delete"
        BY <1>2, <3>1 DEF FullCall, deleted
      <4>2. call[w].op # "update"
        BY <1>1, <1>2 DEF NodeInv, ControlInv
      <4> QED
        BY <4>1, <4>2
    <3>4. \A q \in Port : q \in servers[s] /\ Exact(s, q, call[w].hosts)
      BY <1>2, <1>3, <3>1, <3>3 DEF PortDone
    <3>5. servers[s] = Port /\ servers'[s] = Port
      BY <1>4, <1>5, <3>4 DEF nsxt
    <3>6. ExactFor(s, call[w].hosts)
      BY <3>4 DEF ExactFor
    <3>7. s \in late \/ call[w].hosts = Target \/ Pending(s)
      BY <1>1, <1>2, <1>3, <3>1, <3>2 DEF ServiceSettled
    <3>8. s \in late \/ Settled(s)
      <4>1. CASE call[w].hosts = Target
        BY <3>6, <4>1 DEF Settled, Target
      <4>2. CASE Pending(s)
        <5>1. pc[Sync] = "lock" => Busy(Sync)
          BY Processes DEF NodeInv, ControlInv
        <5> QED
          BY <4>2, <5>1 DEF Pending, Settled
      <4> QED
        BY <3>7, <4>1, <4>2
    <3>9. Settled(s) => Settled(s)'
      <4>1. call'[Sync] = call[Sync] /\ (Busy(Sync)' <=> Busy(Sync))
        BY <1>1, <1>8, Processes
      <4> QED
        BY <1>4, <4>1 DEF Settled, ExactFor, Exact, nsxt
    <3>10. s \in late' \/ Settled(s)'
      BY <1>4, <3>8, <3>9
    <3>11. ASSUME NEW v \in Worker, Busy(v)', call'[v].svc = s PROVE FALSE
      BY <1>6, <1>8, <1>13, <3>11, Processes
    <3> QED
      BY <2>2, <3>2, <3>5, <3>10, <3>11 DEF ServiceSettled
  <2> QED
    BY <2>1, <2>2
<1> QED
  BY <1>4, <1>9, <1>11, <1>12, <1>14, <1>15, <1>16, NsxtFrame DEF NodeInv

-----------------------------------------------------------------------------
(***************************************************************************)
(* The node sync loop                                                      *)
(***************************************************************************)

\* While the loop has no list of its own no call of it is under way.
LEMMA SyncIsIdle ==
  ASSUME NodeInv, ~sync.on \/ pc[Sync] = "idle"
  PROVE  pc[Sync] = "idle" /\ ~Busy(Sync) /\ call[Sync] = NoCall
BY Processes DEF NodeInv, ControlInv, Busy

\* What a step of the loop that moves no process leaves to show.
LEMMA PassFrame ==
  ASSUME NodeInv, UNCHANGED <<nodes, phase, nsxt, queue, cache, holder, pc, call, err, counts>>,
         ControllerOK', ~Busy(Sync), SettledInv'
  PROVE  NodeInv'
<1>1. CountsOK'
  BY DEF NodeInv, TypesInv, CountsOK
<1>2. \A w \in Worker : Busy(w) /\ call[w].op = "delete" => phase'[call[w].svc] = "deleting"
  BY DEF NodeInv, WorkerInv
<1> QED
  BY <1>1, <1>2, QuietFrame DEF NodeInv, TypesInv

\* A pass begins.
LEMMA NodeSyncLoopKeepsInv ==
  ASSUME NodeInv, nodeSyncLoop
  PROVE  NodeInv'
<1>1. /\ ~sync.on
      /\ sync' = [on |-> TRUE, hosts |-> nodes, retry |-> {},
                  todo |-> IF nodes # knownHosts THEN cache ELSE servicesToUpdate]
      /\ late' = IF nodes # knownHosts THEN {} ELSE late
      /\ UNCHANGED <<nodes, phase, nsxt, queue, cache, holder, pc, call, err, counts>>
      /\ UNCHANGED <<knownHosts, servicesToUpdate>>
  BY DEF nodeSyncLoop
<1>2. pc[Sync] = "idle" /\ ~Busy(Sync) /\ call[Sync] = NoCall
  BY <1>1, SyncIsIdle
<1>3. /\ sync'.on /\ sync'.hosts = nodes
      /\ sync'.todo = IF nodes # knownHosts THEN cache ELSE servicesToUpdate
  BY <1>1
<1>4. ControllerOK'
  BY <1>1 DEF NodeInv, TypesInv, ControllerOK
<1>5. SettledInv'
  <2> SUFFICES ASSUME NEW t \in Svc, phase'[t] = "present", t \notin queue'
               PROVE  ServiceSettled(t)'
    BY DEF SettledInv
  <2>1. ServiceSettled(t)
    BY <1>1 DEF NodeInv, SettledInv
  <2>2. Processed(t)' <=> Processed(t)
    BY <1>1, QuietFrame
  <2>3. t \in cache /\ t \in cache' /\ servers'[t] = servers[t]
    BY <1>1, <2>1 DEF ServiceSettled, nsxt
  <2>4. CASE nodes # knownHosts
    <3>1. t \in sync'.todo
      BY <1>3, <2>3, <2>4
    <3>2. Settled(t)' /\ Pending(t)'
      BY <1>3, <3>1 DEF Settled, Pending
    <3> QED
      BY <2>1, <2>2, <2>3, <3>2 DEF ServiceSettled
  <2>5. CASE nodes = knownHosts
    <3>1. late' = late /\ sync'.todo = servicesToUpdate
      BY <1>1, <1>3, <2>5
    <3>2. Settled(t) => t \in servicesToUpdate \/ ExactFor(t, knownHosts)
      BY <1>1 DEF Settled
    <3>3. ExactFor(t, knownHosts) => ExactFor(t, sync.hosts)'
      BY <1>1, <1>3, <2>5 DEF ExactFor, Exact, nsxt
    <3>4. Settled(t) => Settled(t)'
      BY <1>3, <3>1, <3>2, <3>3 DEF Settled
    <3>5. ~Pending(t) /\ Target' = Target
      BY <1>1, <1>3, <2>5 DEF Pending, Target
    <3>6. ASSUME NEW w \in Worker, Busy(w)', call'[w].svc = t, pc'[w] \in {"work", "unlock"},
                 ~err'[w]
          PROVE  t \in late' \/ call'[w].hosts = Target'
      <4>1. Busy(w)
        BY <1>1, <3>6 DEF Busy
      <4> QED
        BY <1>1, <2>1, <3>1, <3>5, <3>6, <4>1 DEF ServiceSettled
    <3> QED
      BY <2>1, <2>2, <2>3, <3>1, <3>4, <3>6 DEF ServiceSettled
  <2> QED
    BY <2>4, <2>5
<1> QED
  BY <1>1, <1>2, <1>4, <1>5, PassFrame

\* A pass ends.
LEMMA SyncDoneKeepsInv ==
  ASSUME NodeInv, SyncDone
  PROVE  NodeInv'
<1>1. /\ sync.on /\ sync.todo = {} /\ pc[Sync] = "idle"
      /\ servicesToUpdate' = sync.retry /\ knownHosts' = sync.hosts /\ sync' = NoPass
      /\ UNCHANGED <<nodes, phase, nsxt, queue, cache, holder, pc, call, err, counts>>
      /\ late' = late
  BY DEF SyncDone
<1>2. ~Busy(Sync)
  BY <1>1, SyncIsIdle
<1>3. ~sync'.on
  BY <1>1 DEF NoPass
<1>4. ControllerOK'
  BY <1>1 DEF NodeInv, TypesInv, ControllerOK, NoPass
<1>5. SettledInv'
  <2> SUFFICES ASSUME NEW t \in Svc, phase'[t] = "present", t \notin queue'
               PROVE  ServiceSettled(t)'
    BY DEF SettledInv
  <2>1. ServiceSettled(t)
    BY <1>1 DEF NodeInv, SettledInv
  <2>2. Processed(t)' <=> Processed(t)
    BY <1>1, QuietFrame
  <2>3. t \in cache' /\ servers'[t] = servers[t]
    BY <1>1, <2>1 DEF ServiceSettled, nsxt
  <2>4. Settled(t) => t \in sync.retry \/ ExactFor(t, sync.hosts)
    BY <1>1, <1>2 DEF Settled
  <2>5. ExactFor(t, sync.hosts) => ExactFor(t, knownHosts)'
    BY <1>1 DEF ExactFor, Exact, nsxt
  <2>6. Settled(t) => Settled(t)'
    BY <1>1, <1>3, <2>4, <2>5 DEF Settled
  <2>7. ~Pending(t) /\ Target' = Target
    BY <1>1, <1>3 DEF Pending, Target
  <2>8. ASSUME NEW w \in Worker, Busy(w)', call'[w].svc = t, pc'[w] \in {"work", "unlock"},
               ~err'[w]
        PROVE  t \in late' \/ call'[w].hosts = Target'
    <3>1. Busy(w)
      BY <1>1, <2>8 DEF Busy
    <3> QED
      BY <1>1, <2>1, <2>7, <2>8, <3>1 DEF ServiceSettled
  <2> QED
    BY <1>1, <2>1, <2>2, <2>3, <2>6, <2>8 DEF ServiceSettled
<1> QED
  BY <1>1, <1>2, <1>4, <1>5, PassFrame

\* The workers and their calls, in a step of the loop.
LEMMA WorkersFrame ==
  ASSUME NodeInv, OnlyProc(Sync), UNCHANGED phase
  PROVE  /\ WorkerInv'
         /\ \A s \in Svc : Processed(s)' <=> Processed(s)
         /\ \A w \in Worker : /\ Busy(w)' <=> Busy(w)
                              /\ call'[w] = call[w] /\ pc'[w] = pc[w] /\ err'[w] = err[w]
<1>1. \A w \in Worker : call'[w] = call[w] /\ pc'[w] = pc[w] /\ err'[w] = err[w]
  BY Processes DEF OnlyProc
<1>2. \A w \in Worker : Busy(w)' <=> Busy(w)
  BY <1>1 DEF Busy
<1>3. \A s \in Svc : Processed(s)' <=> Processed(s)
  BY <1>1 DEF Processed
<1>4. WorkerInv'
  BY <1>1, <1>2 DEF NodeInv, WorkerInv
<1> QED
  BY <1>1, <1>2, <1>3, <1>4

\* UpdateLoadBalancer is called for the next service.
LEMMA UpdateNextKeepsInv ==
  ASSUME NodeInv, UpdateNext
  PROVE  NodeInv'
<1>1. PICK s \in sync.todo :
        /\ Start(Sync, [op |-> "update", svc |-> s, hosts |-> sync.hosts, todo |-> Port])
        /\ sync' = [sync EXCEPT !.todo = @ \ {s}]
  BY DEF UpdateNext
<1> DEFINE c == [op |-> "update", svc |-> s, hosts |-> sync.hosts, todo |-> Port]
<1>2. /\ sync.on /\ pc[Sync] = "idle" /\ pc' = [pc EXCEPT ![Sync] = "lock"]
      /\ call' = [call EXCEPT ![Sync] = c]
      /\ UNCHANGED <<nodes, phase, nsxt, queue, cache, knownHosts, servicesToUpdate, holder, err,
                     counts, late>>
  BY <1>1 DEF UpdateNext, Start
<1>3. /\ sync \in [on : BOOLEAN, hosts : SUBSET Node, todo : SUBSET Svc, retry : SUBSET Svc]
      /\ pc \in [Proc -> {"idle", "lock", "work", "unlock", "exists"}]
      /\ call \in [Proc -> Call]
  BY DEF NodeInv, TypesInv, ControllerOK, ProviderOK
<1>4. /\ sync'.on /\ sync'.hosts = sync.hosts /\ sync'.todo = sync.todo \ {s}
      /\ sync'.retry = sync.retry /\ s \in Svc
  BY <1>1, <1>2, <1>3
<1>5. c \in FullCall /\ c.op = "update" /\ c.svc = s /\ c.hosts = sync.hosts /\ c.todo = Port
  BY <1>3, <1>4 DEF FullCall
<1> HIDE DEF c
<1>6. c \in Call /\ c # NoCall
  BY <1>5, FullCallIsCall
<1>7. Sync \in Proc /\ ~Busy(Sync) /\ ~err[Sync]
  BY <1>2, Processes, SyncIsIdle DEF NodeInv, ControlInv
<1>8. call'[Sync] = c /\ pc'[Sync] = "lock" /\ Busy(Sync)' /\ ~err'[Sync]
  BY <1>2, <1>3, <1>6, <1>7 DEF Busy
<1>9. OnlyProc(Sync)
  BY <1>2, <1>3 DEF OnlyProc
<1>10. TypesInv'
  <2>1. ProviderOK'
    BY <1>2, <1>3, <1>6 DEF NodeInv, TypesInv, ProviderOK
  <2>2. sync' \in [on : BOOLEAN, hosts : SUBSET Node, todo : SUBSET Svc, retry : SUBSET Svc]
    BY <1>1, <1>3
  <2>3. ControllerOK' /\ CountsOK'
    BY <1>2, <2>2 DEF NodeInv, TypesInv, ControllerOK, CountsOK
  <2> QED
    BY <1>2, <2>1, <2>3, NsxtFrame DEF TypesInv
<1>11. ControlInv'
  BY <1>4, <1>5, <1>7, <1>8, <1>9, ControlFrame
<1>12. LockInv'
  BY <1>2, <1>7, <1>8, <1>9, LockFrame
<1>13. ProgressInv'
  BY <1>5, <1>7, <1>8, <1>9, ProgressFrame
<1>14. SettledInv'
  <2> SUFFICES ASSUME NEW t \in Svc, phase'[t] = "present", t \notin queue'
               PROVE  ServiceSettled(t)'
    BY DEF SettledInv
  <2>1. ServiceSettled(t)
    BY <1>2 DEF NodeInv, SettledInv
  <2>2. Processed(t)' <=> Processed(t)
    BY <1>2, <1>9, WorkersFrame
  <2>3. t \in cache' /\ servers'[t] = servers[t] /\ late' = late
    BY <1>2, <2>1 DEF ServiceSettled, nsxt
  <2>4. ExactFor(t, sync.hosts) => ExactFor(t, sync.hosts)'
    BY <1>2, <1>4 DEF ExactFor, Exact, nsxt
  <2>5. Settled(t) => Settled(t)'
    <3>1. CASE t = s
      BY <1>4, <1>5, <1>8, <3>1 DEF Settled
    <3>2. CASE t # s
      BY <1>2, <1>4, <1>7, <2>4, <3>2 DEF Settled
    <3> QED
      BY <3>1, <3>2
  <2>6. Pending(t) => Pending(t)'
    <3>1. CASE t = s
      BY <1>4, <1>5, <1>8, <3>1 DEF Pending
    <3>2. CASE t # s
      BY <1>2, <1>4, <3>2 DEF Pending
    <3> QED
      BY <3>1, <3>2
  <2>7. Target' = Target
    BY <1>2, <1>4 DEF Target
  <2>8. ASSUME NEW w \in Worker, Busy(w)', call'[w].svc = t, pc'[w] \in {"work", "unlock"},
               ~err'[w]
        PROVE  t \in late' \/ call'[w].hosts = Target' \/ Pending(t)'
    <3>1. Busy(w) /\ call'[w] = call[w] /\ pc'[w] = pc[w] /\ err'[w] = err[w]
      BY <1>2, <1>9, <2>8, WorkersFrame
    <3> QED
      BY <2>1, <2>3, <2>6, <2>7, <2>8, <3>1 DEF ServiceSettled
  <2> QED
    BY <2>1, <2>2, <2>3, <2>5, <2>8 DEF ServiceSettled
<1> QED
  BY <1>2, <1>9, <1>10, <1>11, <1>12, <1>13, <1>14, WorkersFrame, NsxtFrame DEF NodeInv

\* UpdateLoadBalancer returns.
LEMMA UpdateReturnsKeepsInv ==
  ASSUME NodeInv, UpdateReturns
  PROVE  NodeInv'
<1>1. /\ pc[Sync] = "unlock" /\ KL!Release(Sync, call[Sync].svc)
      /\ err' = [err EXCEPT ![Sync] = FALSE]
      /\ UNCHANGED <<nodes, phase, nsxt, controller, counts>>
      /\ \/ err[Sync] /\ pc' = [pc EXCEPT ![Sync] = "exists"] /\ UNCHANGED <<call, late>>
         \/ /\ ~err[Sync] /\ pc' = [pc EXCEPT ![Sync] = "idle"]
            /\ call' = [call EXCEPT ![Sync] = NoCall]
            /\ late' = late \ {call[Sync].svc}
  BY DEF UpdateReturns, Return
<1>2. /\ Sync \in Proc /\ Busy(Sync) /\ call[Sync] \in FullCall /\ call[Sync].svc \in Svc
      /\ holder[call[Sync].svc] = Sync
      /\ ~err[Sync] => \A q \in Port : PortDone(call[Sync], q)
  BY <1>1, Processes, AtUnlock
<1>3. PICK s \in Svc : s = call[Sync].svc
  BY <1>2
<1>4. call[Sync].op = "update" /\ sync.on /\ call[Sync].hosts = sync.hosts
  BY <1>2 DEF NodeInv, ControlInv
<1>5. /\ pc \in [Proc -> {"idle", "lock", "work", "unlock", "exists"}]
      /\ call \in [Proc -> Call] /\ err \in [Proc -> BOOLEAN]
  BY DEF NodeInv, TypesInv, ProviderOK
<1>6. UNCHANGED <<queue, cache, knownHosts, servicesToUpdate, sync>>
  BY <1>1 DEF controller
<1>7. /\ ~err'[Sync] /\ OnlyProc(Sync)
  BY <1>1, <1>2, <1>5 DEF OnlyProc
<1>8. \/ err[Sync] /\ pc'[Sync] = "exists" /\ call'[Sync] = call[Sync] /\ late' = late
      \/ ~err[Sync] /\ pc'[Sync] = "idle" /\ call'[Sync] = NoCall /\ late' = late \ {s}
  BY <1>1, <1>2, <1>3, <1>5
<1>9. LockInv' /\ holder' \in [Svc -> Proc \cup {NoProc}]
  BY <1>1, <1>2, <1>7, <1>8, ReleaseFrame
<1>10. TypesInv'
  <2>1. call' \in [Proc -> Call]
    BY <1>1, <1>5, FullCallIsCall
  <2>2. pc' \in [Proc -> {"idle", "lock", "work", "unlock", "exists"}]
    BY <1>1, <1>5
  <2>3. ProviderOK'
    BY <1>1, <1>5, <1>9, <2>1, <2>2 DEF ProviderOK
  <2>4. ControllerOK' /\ CountsOK'
    BY <1>1, <1>6 DEF NodeInv, TypesInv, ControllerOK, CountsOK
  <2> QED
    BY <1>1, <2>3, <2>4, NsxtFrame DEF TypesInv
<1>11. ControlInv'
  <2>1. pc'[Sync] = "idle" <=> ~Busy(Sync)'
    BY <1>2, <1>8 DEF Busy
  <2>2. Busy(Sync)' => call'[Sync] = call[Sync]
    BY <1>8 DEF Busy
  <2> QED
    BY <1>2, <1>4, <1>6, <1>7, <2>1, <2>2, ControlFrame
<1>12. ProgressInv'
  <2>1. Busy(Sync)' => pc'[Sync] = "exists"
    BY <1>8 DEF Busy
  <2> QED
    BY <1>2, <1>7, <2>1, ProgressFrame
<1>13. SettledInv'
  <2> SUFFICES ASSUME NEW t \in Svc, phase'[t] = "present", t \notin queue'
               PROVE  ServiceSettled(t)'
    BY DEF SettledInv
  <2>1. ServiceSettled(t)
    BY <1>1, <1>6 DEF NodeInv, SettledInv
  <2>2. Processed(t)' <=> Processed(t)
    BY <1>1, <1>7, WorkersFrame
  <2>3. t \in cache' /\ servers'[t] = servers[t] /\ pools' = pools
    BY <1>1, <1>6, <2>1 DEF ServiceSettled, nsxt
  <2>4. ExactFor(t, sync.hosts) => ExactFor(t, sync.hosts)'
    BY <1>6, <2>3 DEF ExactFor, Exact
  <2>5. ASSUME ~Processed(t) PROVE t \in late' \/ Settled(t)'
    <3>1. servers[t] = Port /\ (t \in late \/ Settled(t))
      BY <2>1, <2>5 DEF ServiceSettled
    <3>2. CASE err[Sync]
      <4>1. call'[Sync] = call[Sync] /\ late' = late /\ Busy(Sync)'
        BY <1>2, <1>8, <3>2 DEF Busy
      <4>2. Settled(t) => Settled(t)'
        BY <1>4, <1>6, <2>4, <4>1 DEF Settled
      <4> QED
        BY <3>1, <4>1, <4>2
    <3>3. CASE ~err[Sync] /\ t # s
      <4>1. t \in late => t \in late'
        BY <1>8, <3>3
      <4>2. Settled(t) => Settled(t)'
        BY <1>3, <1>4, <1>6, <2>4, <3>3 DEF Settled
      <4> QED
        BY <3>1, <4>1, <4>2
    <3>4. CASE ~err[Sync] /\ t = s
      <4>1. ASSUME NEW q \in Port PROVE Exact(s, q, sync.hosts)
        <5>1. PortDone(call[Sync], q)
          BY <1>2, <3>4
        <5>2. pools[s][q] = NoPool \/ Exact(s, q, sync.hosts)
          BY <1>3, <1>4, <5>1 DEF PortDone
        <5>3. pools[s][q] # NoPool
          BY <3>1, <3>4 DEF NodeInv, PoolsInv
        <5> QED
          BY <5>2, <5>3
      <4>2. ExactFor(t, sync.hosts)
        BY <3>4, <4>1 DEF ExactFor
      <4>3. Settled(t)'
        BY <1>4, <1>6, <2>4, <4>2 DEF Settled
      <4> QED
        BY <4>3
    <3> QED
      BY <3>2, <3>3, <3>4
  <2>6. Target' = Target /\ (Pending(t) => Pending(t)')
    <3>1. Target' = Target
      BY <1>6 DEF Target
    <3>2. Pending(t) => t \in sync.todo
      BY <1>1 DEF Pending
    <3>3. t \in sync.todo => Pending(t)'
      BY <1>4, <1>6 DEF Pending
    <3> QED
      BY <3>1, <3>2, <3>3
  <2>7. ASSUME NEW w \in Worker, Busy(w)', call'[w].svc = t, pc'[w] \in {"work", "unlock"},
               ~err'[w]
        PROVE  t \in late' \/ call'[w].hosts = Target' \/ Pending(t)'
    <3>1. Busy(w) /\ call'[w] = call[w] /\ pc'[w] = pc[w] /\ err'[w] = err[w]
      BY <1>1, <1>7, <2>7, WorkersFrame
    <3>2. holder[t] = w /\ w # Sync
      BY <2>7, <3>1, Processes DEF NodeInv, LockInv
    <3>3. t # s
      BY <1>2, <1>3, <3>2
    <3>4. t \in late => t \in late'
      BY <1>8, <3>3
    <3> QED
      BY <2>1, <2>6, <2>7, <3>1, <3>4 DEF ServiceSettled
  <2>8. ~Processed(t)' => servers'[t] = Port
    BY <2>1, <2>2, <2>3 DEF ServiceSettled
  <2> QED
    BY <2>2, <2>3, <2>5, <2>7, <2>8 DEF ServiceSettled
<1> QED
  BY <1>1, <1>7, <1>9, <1>10, <1>11, <1>12, <1>13, WorkersFrame, NsxtFrame DEF NodeInv

\* After an error the loop asks whether there is a load balancer.
LEMMA CheckExistsKeepsInv ==
  ASSUME NodeInv, CheckExists
  PROVE  NodeInv'
<1>1. /\ pc[Sync] = "exists" /\ pc' = [pc EXCEPT ![Sync] = "idle"]
      /\ call' = [call EXCEPT ![Sync] = NoCall]
      /\ UNCHANGED <<nodes, phase, nsxt, queue, cache, knownHosts, servicesToUpdate, holder, err,
                     late>>
  BY DEF CheckExists
<1>2. Sync \in Proc /\ Busy(Sync) /\ ~err[Sync] /\ sync.on
  BY <1>1, Processes DEF NodeInv, ControlInv
<1>3. call[Sync].svc \in Svc
  BY <1>2, CallType DEF NodeInv, TypesInv, FullCall
<1>4. PICK s \in Svc : s = call[Sync].svc
  BY <1>3
<1> DEFINE retry == [sync EXCEPT !.retry = @ \cup {s}]
<1>5. \/ sync' = (IF servers[s] # {} THEN retry ELSE sync) /\ UNCHANGED counts
      \/ sync' = retry /\ Count("faults")
  BY <1>4 DEF CheckExists
<1>6. /\ pc \in [Proc -> {"idle", "lock", "work", "unlock", "exists"}]
      /\ call \in [Proc -> Call]
      /\ sync \in [on : BOOLEAN, hosts : SUBSET Node, todo : SUBSET Svc, retry : SUBSET Svc]
  BY DEF NodeInv, TypesInv, ProviderOK, ControllerOK
<1>7. /\ sync'.on /\ sync'.hosts = sync.hosts /\ sync'.todo = sync.todo
      /\ sync.retry \subseteq sync'.retry
      /\ servers[s] # {} => s \in sync'.retry
      /\ sync' \in [on : BOOLEAN, hosts : SUBSET Node, todo : SUBSET Svc, retry : SUBSET Svc]
  BY <1>2, <1>5, <1>6
<1> HIDE DEF retry
<1>8. /\ pc'[Sync] = "idle" /\ call'[Sync] = NoCall /\ ~Busy(Sync)' /\ ~err'[Sync]
  BY <1>1, <1>2, <1>6 DEF Busy
<1>9. OnlyProc(Sync)
  BY <1>1, <1>6 DEF OnlyProc
<1>10. TypesInv'
  <2>1. CountsOK'
    <3>1. CASE UNCHANGED counts
      BY <3>1 DEF NodeInv, TypesInv, CountsOK
    <3>2. CASE Count("faults")
      BY <3>2, CountType, BoundNames DEF NodeInv, TypesInv
    <3> QED
      BY <1>5, <3>1, <3>2
  <2>2. ControllerOK'
    BY <1>1, <1>7 DEF NodeInv, TypesInv, ControllerOK
  <2>3. ProviderOK'
    BY <1>1, <1>6, FullCallIsCall DEF NodeInv, TypesInv, ProviderOK
  <2> QED
    BY <1>1, <2>1, <2>2, <2>3, NsxtFrame DEF TypesInv
<1>11. ControlInv'
  BY <1>2, <1>8, <1>9, ControlFrame
<1>12. LockInv'
  BY <1>1, <1>2, <1>8, <1>9, LockFrame
<1>13. ProgressInv'
  BY <1>2, <1>8, <1>9, ProgressFrame
<1>14. SettledInv'
  <2> SUFFICES ASSUME NEW t \in Svc, phase'[t] = "present", t \notin queue'
               PROVE  ServiceSettled(t)'
    BY DEF SettledInv
  <2>1. ServiceSettled(t)
    BY <1>1 DEF NodeInv, SettledInv
  <2>2. Processed(t)' <=> Processed(t)
    BY <1>1, <1>9, WorkersFrame
  <2>3. t \in cache' /\ servers'[t] = servers[t] /\ pools' = pools /\ late' = late
    BY <1>1, <2>1 DEF ServiceSettled, nsxt
  <2>4. ExactFor(t, sync.hosts) => ExactFor(t, sync.hosts)'
    BY <1>7, <2>3 DEF ExactFor, Exact
  <2>5. ASSUME servers[t] = Port, Settled(t) PROVE Settled(t)'
    <3>1. CASE t # s
      BY <1>2, <1>4, <1>7, <2>4, <2>5, <3>1 DEF Settled
    <3>2. CASE t = s /\ servers[s] # {}
      BY <1>7, <3>2 DEF Settled
    <3>3. CASE t = s /\ servers[s] = {}
      <4>1. ExactFor(t, sync.hosts)'
        BY <2>5, <3>3 DEF ExactFor
      <4> QED
        BY <1>7, <4>1 DEF Settled
    <3> QED
      BY <3>1, <3>2, <3>3
  <2>6. Target' = Target /\ (Pending(t) => Pending(t)')
    <3>1. Target' = Target
      BY <1>2, <1>7 DEF Target
    <3>2. Pending(t) => Pending(t)'
      BY <1>1, <1>7 DEF Pending
    <3> QED
      BY <3>1, <3>2
  <2>7. ASSUME NEW w \in Worker, Busy(w)', call'[w].svc = t, pc'[w] \in {"work", "unlock"},
               ~err'[w]
        PROVE  t \in late' \/ call'[w].hosts = Target' \/ Pending(t)'
    <3>1. Busy(w) /\ call'[w] = call[w] /\ pc'[w] = pc[w] /\ err'[w] = err[w]
      BY <1>1, <1>9, <2>7, WorkersFrame
    <3> QED
      BY <2>1, <2>3, <2>6, <2>7, <3>1 DEF ServiceSettled
  <2> QED
    BY <2>1, <2>2, <2>3, <2>5, <2>7 DEF ServiceSettled
<1> QED
  BY <1>1, <1>9, <1>10, <1>11, <1>12, <1>13, <1>14, WorkersFrame, NsxtFrame DEF NodeInv

-----------------------------------------------------------------------------
(***************************************************************************)
(* The world, and the theorems                                             *)
(***************************************************************************)

\* Steps of users and of nodes: a deletion is not taken back, and what changes is queued.
LEMMA WorldKeepsInv ==
  ASSUME NodeInv, UNCHANGED <<nsxt, holder, pc, call, err>>,
         UNCHANGED <<cache, knownHosts, servicesToUpdate, sync, late>>, CountsOK',
         nodes' \subseteq Node, queue' \subseteq Svc,
         phase' \in [Svc -> {"absent", "present", "deleting"}],
         \A t \in Svc : phase[t] = "deleting" => phase'[t] = "deleting",
         \A t \in Svc : phase'[t] = "present" /\ t \notin queue' =>
                          phase[t] = "present" /\ t \notin queue
  PROVE  NodeInv'
<1>1. TypesInv'
  <2>1. ControllerOK'
    BY DEF NodeInv, TypesInv, ControllerOK
  <2> QED
    BY <2>1, QuietFrame DEF TypesInv
<1>2. ControlInv'
  BY QuietFrame DEF NodeInv, ControlInv
<1>3. WorkerInv'
  <2>1. ASSUME NEW w \in Worker, Busy(w), call[w].op = "delete"
        PROVE  phase'[call[w].svc] = "deleting"
    <3>1. call[w].svc \in Svc
      BY <2>1, CallType, Processes DEF NodeInv, TypesInv, FullCall
    <3> QED
      BY <2>1, <3>1 DEF NodeInv, WorkerInv
  <2> QED
    BY <2>1, QuietFrame
<1>4. SettledInv'
  <2> SUFFICES ASSUME NEW t \in Svc, phase'[t] = "present", t \notin queue'
               PROVE  ServiceSettled(t)'
    BY DEF SettledInv
  <2>1. ServiceSettled(t)
    BY DEF NodeInv, SettledInv
  <2>2. Settled(t)' <=> Settled(t)
    BY DEF Settled, ExactFor, Exact, Busy, nsxt
  <2>3. Target' = Target /\ (Pending(t)' <=> Pending(t)) /\ (Processed(t)' <=> Processed(t))
    BY QuietFrame DEF Target, Pending
  <2>4. \A w \in Worker : Busy(w)' <=> Busy(w)
    BY DEF Busy
  <2> QED
    BY <2>1, <2>2, <2>3, <2>4 DEF ServiceSettled, nsxt
<1> QED
  BY <1>1, <1>2, <1>3, <1>4, QuietFrame DEF NodeInv

LEMMA SetServiceKeepsInv ==
  ASSUME NodeInv, NEW s \in Svc, SetService(s)
  PROVE  NodeInv'
<1>1. /\ phase[s] # "deleting" /\ phase' = [phase EXCEPT ![s] = "present"]
      /\ queue' = queue \cup {s} /\ Count("changes")
      /\ UNCHANGED <<nsxt, holder, pc, call, err>>
      /\ UNCHANGED <<cache, knownHosts, servicesToUpdate, sync, late>> /\ nodes' = nodes
  BY DEF SetService
<1>2. /\ phase \in [Svc -> {"absent", "present", "deleting"}] /\ nodes \subseteq Node
      /\ queue \subseteq Svc
  BY DEF NodeInv, TypesInv, ControllerOK
<1>3. CountsOK'
  BY <1>1, CountType, BoundNames DEF NodeInv, TypesInv
<1>4. /\ phase' \in [Svc -> {"absent", "present", "deleting"}]
      /\ \A t \in Svc : phase[t] = "deleting" => phase'[t] = "deleting"
      /\ \A t \in Svc : phase'[t] = "present" /\ t \notin queue' =>
                          phase[t] = "present" /\ t \notin queue
      /\ nodes' \subseteq Node /\ queue' \subseteq Svc
  BY <1>1, <1>2
<1> QED
  BY <1>1, <1>3, <1>4, WorldKeepsInv

LEMMA DeleteServiceKeepsInv ==
  ASSUME NodeInv, NEW s \in Svc, DeleteService(s)
  PROVE  NodeInv'
<1>1. /\ phase[s] = "present" /\ phase' = [phase EXCEPT ![s] = "deleting"]
      /\ queue' = queue \cup {s} /\ counts' = counts
      /\ UNCHANGED <<nsxt, holder, pc, call, err>>
      /\ UNCHANGED <<cache, knownHosts, servicesToUpdate, sync, late>> /\ nodes' = nodes
  BY DEF DeleteService
<1>2. /\ phase \in [Svc -> {"absent", "present", "deleting"}] /\ nodes \subseteq Node
      /\ queue \subseteq Svc
  BY DEF NodeInv, TypesInv, ControllerOK
<1>3. CountsOK'
  BY <1>1 DEF NodeInv, TypesInv, CountsOK
<1>4. /\ phase' \in [Svc -> {"absent", "present", "deleting"}]
      /\ \A t \in Svc : phase[t] = "deleting" => phase'[t] = "deleting"
      /\ \A t \in Svc : phase'[t] = "present" /\ t \notin queue' =>
                          phase[t] = "present" /\ t \notin queue
      /\ nodes' \subseteq Node /\ queue' \subseteq Svc
  BY <1>1, <1>2
<1> QED
  BY <1>1, <1>3, <1>4, WorldKeepsInv

LEMMA ChangeNodeKeepsInv ==
  ASSUME NodeInv, NEW n \in Node, ChangeNode(n)
  PROVE  NodeInv'
<1>1. /\ nodes' = (IF n \in nodes THEN nodes \ {n} ELSE nodes \cup {n}) /\ Count("nodes")
      /\ UNCHANGED <<nsxt, holder, pc, call, err>>
      /\ UNCHANGED <<cache, knownHosts, servicesToUpdate, sync, late>>
      /\ UNCHANGED <<phase, queue>>
  BY DEF ChangeNode, controller
<1>2. /\ phase \in [Svc -> {"absent", "present", "deleting"}] /\ nodes \subseteq Node
      /\ queue \subseteq Svc
  BY DEF NodeInv, TypesInv, ControllerOK
<1>3. CountsOK'
  BY <1>1, CountType, BoundNames DEF NodeInv, TypesInv
<1>4. nodes' \subseteq Node
  BY <1>1, <1>2
<1> QED
  BY <1>1, <1>2, <1>3, <1>4, WorldKeepsInv

LEMMA StutterKeepsInv ==
  ASSUME NodeInv, UNCHANGED vars
  PROVE  NodeInv'
<1>1. /\ UNCHANGED <<nsxt, holder, pc, call, err>>
      /\ UNCHANGED <<cache, knownHosts, servicesToUpdate, sync, late>>
      /\ UNCHANGED <<nodes, phase, queue, counts>>
  BY DEF vars, controller
<1>2. /\ phase \in [Svc -> {"absent", "present", "deleting"}] /\ nodes \subseteq Node
      /\ queue \subseteq Svc /\ CountsOK'
  BY <1>1 DEF NodeInv, TypesInv, ControllerOK, CountsOK
<1> QED
  BY <1>1, <1>2, WorldKeepsInv

\* After a crash only NSX-T, the services and the nodes are as before.
LEMMA CrashKeepsInv ==
  ASSUME NodeInv, Crash
  PROVE  NodeInv'
<1>1. /\ queue' = {s \in Svc : phase[s] # "absent"}
      /\ cache' = {} /\ knownHosts' = {} /\ servicesToUpdate' = {} /\ sync' = NoPass
      /\ holder' = [s \in Svc |-> NoProc]
      /\ pc' = [p \in Proc |-> "idle"]
      /\ call' = [p \in Proc |-> NoCall]
      /\ err' = [p \in Proc |-> FALSE]
      /\ late' = {} /\ UNCHANGED <<nodes, phase, nsxt>> /\ Count("crashes")
  BY DEF Crash
<1>2. TypesInv'
  <2>1. CountsOK'
    BY <1>1, CountType, BoundNames DEF NodeInv, TypesInv
  <2>2. ControllerOK'
    BY <1>1 DEF NodeInv, TypesInv, ControllerOK, NoPass
  <2>3. ProviderOK'
    BY <1>1, FullCallIsCall DEF ProviderOK
  <2> QED
    BY <1>1, <2>1, <2>2, <2>3, NsxtFrame DEF TypesInv
<1>3. \A p \in Proc : pc'[p] = "idle" /\ ~Busy(p)' /\ ~err'[p]
  BY <1>1 DEF Busy
<1>4. ControlInv' /\ WorkerInv' /\ ProgressInv'
  BY <1>3, Processes DEF ControlInv, WorkerInv, ProgressInv
<1>5. LockInv'
  BY <1>1, <1>3, Processes DEF LockInv
<1>6. SettledInv'
  BY <1>1 DEF SettledInv
<1> QED
  BY <1>1, <1>2, <1>4, <1>5, <1>6, NsxtFrame DEF NodeInv

\* Every step of the controller, of the provider and of the world preserves the invariant.
LEMMA NextInv == NodeInv /\ [Next]_vars => NodeInv'
<1> SUFFICES ASSUME NodeInv, [Next]_vars PROVE NodeInv'
  OBVIOUS
<1>1. ASSUME NEW p \in Proc, Work(p) PROVE NodeInv'
  <2>1. CASE Lock(p)
    BY <2>1, LockKeepsInv
  <2>2. CASE Reconcile(p)
    BY <2>2, ReconcileInside, InsideKeepsInv
  <2>3. CASE UpdatePoolMembers(p)
    BY <2>3, UpdateInside, InsideKeepsInv
  <2>4. CASE CleanUp(p)
    BY <2>4, CleanUpInside, InsideKeepsInv
  <2>5. CASE Done(p)
    BY <2>5, DoneInside, InsideKeepsInv
  <2> QED
    BY <1>1, <2>1, <2>2, <2>3, <2>4, <2>5 DEF Work
<1>2. ASSUME NEW w \in Worker, WorkerStep(w) PROVE NodeInv'
  <2>1. CASE Work(w)
    BY <1>1, <2>1, Processes
  <2>2. CASE WorkerReturns(w)
    BY <2>2, WorkerReturnsKeepsInv
  <2>3. ASSUME NEW s \in Svc, TakeEnsure(w, s) \/ TakeDelete(w, s) \/ TakeNothing(w, s)
        PROVE  NodeInv'
    BY <2>3, TakeEnsureKeepsInv, TakeDeleteKeepsInv, TakeNothingKeepsInv
  <2> QED
    BY <1>2, <2>1, <2>2, <2>3 DEF WorkerStep
<1>3. CASE SyncStep
  <2>1. CASE Work(Sync)
    BY <1>1, <2>1, Processes
  <2>2. CASE nodeSyncLoop
    BY <2>2, NodeSyncLoopKeepsInv
  <2>3. CASE UpdateNext
    BY <2>3, UpdateNextKeepsInv
  <2>4. CASE UpdateReturns
    BY <2>4, UpdateReturnsKeepsInv
  <2>5. CASE CheckExists
    BY <2>5, CheckExistsKeepsInv
  <2>6. CASE SyncDone
    BY <2>6, SyncDoneKeepsInv
  <2> QED
    BY <1>3, <2>1, <2>2, <2>3, <2>4, <2>5, <2>6 DEF SyncStep
<1>4. ASSUME NEW s \in Svc, SetService(s) \/ DeleteService(s) PROVE NodeInv'
  BY <1>4, SetServiceKeepsInv, DeleteServiceKeepsInv
<1>5. ASSUME NEW n \in Node, ChangeNode(n) PROVE NodeInv'
  BY <1>5, ChangeNodeKeepsInv
<1>6. CASE Crash
  BY <1>6, CrashKeepsInv
<1>7. CASE UNCHANGED vars
  BY <1>7, StutterKeepsInv
<1> QED
  BY <1>2, <1>3, <1>4, <1>5, <1>6, <1>7 DEF Next

(***************************************************************************)
(* The invariant holds in every reachable state of the controller, its     *)
(* node sync loop and the provider.                                        *)
(***************************************************************************)
THEOREM NodeSyncInvariant == Spec => []NodeInv
<1> QED
  BY InitInv, NextInv, PTL DEF Spec

(***************************************************************************)
(* All variables keep their types; a pool has only addresses of nodes as   *)
(* members, never the missing one of a node without an internal address.   *)
(***************************************************************************)
THEOREM NodeSyncTypeOK == Spec => []TypeOK
<1>1. NodeInv => TypeOK
  BY TypesImplyTypeOK DEF NodeInv
<1> QED
  BY <1>1, NodeSyncInvariant, PTL

(***************************************************************************)
(* updatedPoolMembers and its callers: what returns without an error has   *)
(* made every pool of the service exact, for any old members, any number   *)
(* of nodes that share addresses or have none, and any failures before.    *)
(***************************************************************************)
THEOREM NodeSyncMembersExact == Spec => []MembersExact
<1>1. NodeInv => MembersExact
  <2> SUFFICES ASSUME NodeInv, NEW p \in Proc, pc[p] = "unlock", ~err[p], NEW q \in Port
               PROVE  LET c == call[p] IN
                      \/ c.op = "ensure" /\ Exact(c.svc, q, c.hosts) /\ q \in servers[c.svc]
                      \/ c.op = "update" /\ (pools[c.svc][q] = NoPool \/ Exact(c.svc, q, c.hosts))
                      \/ c.op = "delete" /\ pools[c.svc][q] = NoPool /\ q \notin servers[c.svc]
    BY DEF MembersExact
  <2>1. PortDone(call[p], q) /\ call[p].svc \in Svc
    BY AtUnlock
  <2>2. q \in servers[call[p].svc] => pools[call[p].svc][q] # NoPool
    BY <2>1 DEF NodeInv, PoolsInv
  <2> QED
    BY <2>1, <2>2 DEF PortDone
<1> QED
  BY <1>1, NodeSyncInvariant, PTL

(***************************************************************************)
(* Nothing is forgotten by the work queue and the node sync loop: between  *)
(* two passes, a service at rest has the members of the last pass, or is   *)
(* remembered in servicesToUpdate, or was last written by a worker with a  *)
(* list the loop did not have.                                             *)
(***************************************************************************)
THEOREM NodeSyncPoolsSettled == Spec => []PoolsSettled
<1>1. NodeInv => PoolsSettled
  <2> SUFFICES ASSUME NodeInv, NEW s \in Svc, phase[s] = "present", s \notin queue,
                      ~Processed(s), ~sync.on
               PROVE  s \in late \/ s \in servicesToUpdate \/ \A q \in Port : Exact(s, q, knownHosts)
    BY DEF PoolsSettled
  <2>1. s \in late \/ Settled(s)
    BY DEF NodeInv, SettledInv, ServiceSettled
  <2> QED
    BY <2>1 DEF Settled, ExactFor
<1> QED
  BY <1>1, NodeSyncInvariant, PTL
=============================================================================
