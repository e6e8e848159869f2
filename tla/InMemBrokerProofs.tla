-------------------------- MODULE InMemBrokerProofs --------------------------
(***************************************************************************)
(* Proofs about the in-memory broker: what a reader without the lock       *)
(* finds, and that the operations under the lock keep the promise of       *)
(* NsxtBroker, for any number of clients, objects, IP pools and addresses, *)
(* and any capacity append gives a new array.                              *)
(***************************************************************************)
EXTENDS InMemBroker, TLAPS, FiniteSetTheorems, WellFoundedInduction

-----------------------------------------------------------------------------
(***************************************************************************)
(* The inductive invariant                                                 *)
(***************************************************************************)
Slot == Object \cup {Zero}

ReaderSet ==
  [kind : Kind, id : {None} \cup (0 .. MaxID - 1), live : BOOLEAN, arr : {None} \cup Seq(Slot),
   len : Nat \cup {-1}, at : Nat \ {0}, half : Slot, found : Seq(Object), start : Seq(Object),
   current : SUBSET Object, calm : BOOLEAN]

\* The arrays and the lengths have their Go types, and the slots of a slice are written.
SliceInv ==
  /\ arr \in [Kind -> Seq(Slot)] /\ len \in [Kind -> Nat]
  /\ \A k \in Kind : len[k] <= Len(arr[k])
  /\ \A k \in Kind : \A n \in 1 .. len[k] : arr[k][n] \in Object

\* So have the other variables.
OtherInv ==
  /\ nextID \in 0 .. MaxID /\ issued \in [Kind -> SUBSET (0 .. MaxID - 1)]
  /\ allocations \in [IPPool -> SUBSET (1 .. Size)]
  /\ status \in {"OK", "NotFound", "Full"}
  /\ scan \in [Client -> ReaderSet \cup {None}]

\* Kind k is shifted at position n.
ShiftedAt(k, n) == deletion # None /\ deletion.kind = k /\ deletion.at = n

\* An id is issued before it is in a table, and is in a table once, but for the element
\* that a deletion is about to overwrite.
IdInv ==
  /\ \A k \in Kind : len[k] <= nextID
  /\ \A k \in Kind : \A i \in issued[k] : i < nextID
  /\ \A k \in Kind : \A n \in 1 .. len[k] : arr[k][n].id \in issued[k]
  /\ \A k \in Kind : \A m, n \in 1 .. len[k] :
       m # n /\ ~ShiftedAt(k, m) /\ ~ShiftedAt(k, n) => arr[k][m].id # arr[k][n].id

\* What is overwritten next is the object that is deleted, or is in the table twice.
DeletionInv ==
  deletion # None =>
    LET k == deletion.kind  d == deletion.at IN
    /\ deletion \in Deletion
    /\ d <= len[k] /\ deletion.obj.id \in issued[k]
    /\ \A n \in 1 .. len[k] : n # d => arr[k][n].id # deletion.obj.id
    /\ arr[k][d] = deletion.obj \/ (d > 1 /\ arr[k][d] = arr[k][d - 1])

\* The array reader s has, or is about to get.
View(s) == IF s.live \/ s.arr = None THEN arr[s.kind] ELSE s.arr

\* A reader inside an element has a slice that goes on there.
Inside(s) ==
  s.half # Zero =>
    /\ s.arr # None /\ s.len # -1 /\ s.at <= s.len /\ (s.id # None => s.found = <<>>)
    /\ s.at <= Len(View(s)) /\ View(s)[s.at] # Zero
HalfInv == \A c \in Client : scan[c] # None => Inside(scan[c])

\* What reader s still sees where there were objects when it started.
Coherent(s) ==
  /\ Len(s.start) <= Len(View(s))
  /\ \A n \in 1 .. Len(s.start) : View(s)[n] \in s.current /\ View(s)[n].id = s.start[n].id
  /\ s.half # Zero /\ s.at <= Len(s.start) =>
       Had(s, s.start[s.at].id, s.half)

\* The slice reader s has, or is about to get, holds what was there when it started.
Bounded(s) ==
  /\ s.live \/ s.arr = None \/ s.len = -1 =>
       Len(s.start) <= len[s.kind] /\ (deletion # None => deletion.kind # s.kind)
  /\ s.len # -1 => s.len >= Len(s.start)
  /\ s.len = -1 => s.kind = "monitor"
  /\ s.id = None => s.len = Len(s.start)

\* A list has found what there was up to its position.
Listed(s) ==
  s.id = None =>
    /\ s.at <= Len(s.start) + 1 /\ Len(s.found) = s.at - 1
    /\ \A n \in 1 .. Len(s.found) : Had(s, s.start[n].id, s.found[n])

\* A search for an object that was there is before it, or has found it.
Searched(s) ==
  s.id # None /\ (\E n \in 1 .. Len(s.start) : s.start[n].id = s.id) =>
    \/ /\ s.found = <<>> /\ s.at <= Len(s.start)
       /\ \A n \in 1 .. s.at - 1 : s.start[n].id # s.id
    \/ /\ Len(s.found) = 1 /\ Had(s, s.id, s.found[1])
       /\ s.half = Zero

Good(s) == Coherent(s) /\ Bounded(s) /\ Listed(s) /\ Searched(s)
ReaderInv == \A c \in Client : scan[c] # None /\ scan[c].calm => Good(scan[c])

BrokerInv == SliceInv /\ OtherInv /\ IdInv /\ DeletionInv /\ HalfInv /\ ReaderInv

-----------------------------------------------------------------------------
(***************************************************************************)
(* Facts about sets and sequences                                          *)
(***************************************************************************)

\* Min of FiniteSetsExt, by the well-foundedness of the natural numbers.
LEMMA MinIsElement ==
  ASSUME NEW S \in SUBSET Nat, S # {}
  PROVE  Min(S) \in S
<1> DEFINE R == {ss \in Nat \X Nat : ss[1] < ss[2]}
<1>0. IsWellFoundedOn(R, Nat)
  BY NatLessThanWellFounded DEF OpToRel
<1> HIDE DEF R
<1>1. PICK x \in S : \A y \in S : ~(<<y, x>> \in R)
  BY <1>0, WFMin
<1>2. \A y \in S : x <= y
  <2> TAKE y \in S
  <2>1. x \in Nat /\ y \in Nat
    OBVIOUS
  <2>2. ~(<<y, x>> \in R)
    BY <1>1
  <2>3. ~(y < x)
    BY <2>1, <2>2 DEF R
  <2> QED
    BY <2>1, <2>3
<1> QED
  BY <1>2 DEF Min

\* A pool with as many allocations as addresses has no address left.
LEMMA FullPool ==
  ASSUME NEW A \in SUBSET (1 .. Size)
  PROVE  Cardinality(A) = Size <=> A = 1 .. Size
<1>1. IsFiniteSet(1 .. Size) /\ Cardinality(1 .. Size) = Size
  BY SizeAssumption, FS_Interval
<1> QED
  BY <1>1, FS_Subset

\* Writing a slot of an array.
LEMMA WriteSlot ==
  ASSUME NEW S, NEW s \in Seq(S), NEW n \in 1 .. Len(s), NEW o \in S
  PROVE  /\ [s EXCEPT ![n] = o] \in Seq(S)
         /\ Len([s EXCEPT ![n] = o]) = Len(s)
         /\ \A i \in 1 .. Len(s) : [s EXCEPT ![n] = o][i] = IF i = n THEN o ELSE s[i]
OBVIOUS

\* append into a new array.
Grown(s, o, spare) == Append(s, o) \o [n \in 1 .. spare |-> Zero]

LEMMA Grow ==
  ASSUME NEW s \in Seq(Slot), NEW o \in Slot, NEW spare \in Nat
  PROVE  LET t == Grown(s, o, spare) IN
         /\ t \in Seq(Slot) /\ Len(t) = Len(s) + 1 + spare
         /\ \A i \in 1 .. Len(s) : t[i] = s[i]
         /\ t[Len(s) + 1] = o
<1> DEFINE u == Append(s, o)  v == [n \in 1 .. spare |-> Zero]
<1>0. Zero \in Slot
  BY DEF Slot
<1>1. u \in Seq(Slot) /\ Len(u) = Len(s) + 1 /\ (\A i \in 1 .. Len(s) : u[i] = s[i])
        /\ u[Len(s) + 1] = o
  OBVIOUS
<1>2. v \in Seq(Slot) /\ Len(v) = spare
  BY <1>0
<1> HIDE DEF u, v
<1>3. u \o v \in Seq(Slot) /\ Len(u \o v) = Len(u) + Len(v)
        /\ \A i \in 1 .. Len(u) : (u \o v)[i] = u[i]
  BY <1>1, <1>2
<1> QED
  BY <1>1, <1>2, <1>3 DEF u, v, Grown

\* The table of a slice.
LEMMA TableOf ==
  ASSUME SliceInv, NEW k \in Kind
  PROVE  /\ Table(k) \in Seq(Object) /\ Len(Table(k)) = len[k]
         /\ \A n \in 1 .. len[k] : Table(k)[n] = arr[k][n]
         /\ ToSet(Table(k)) = {arr[k][n] : n \in 1 .. len[k]}
<1> DEFINE a == arr[k]  m == len[k]  t == SubSeq(a, 1, m)
<1>1. a \in Seq(Slot) /\ m \in Nat /\ m <= Len(a) /\ \A n \in 1 .. m : a[n] \in Object
  BY DEF SliceInv
<1> HIDE DEF a, m
<1>2. Len(t) = m /\ (\A n \in 1 .. m : t[n] = a[n]) /\ t \in Seq(Slot)
  BY <1>1
<1>3. DOMAIN t = 1 .. m
  BY <1>1, <1>2
<1>4. t \in Seq(Object)
  BY <1>1, <1>2
<1>5. ToSet(t) = {a[n] : n \in 1 .. m}
  BY <1>2, <1>3 DEF ToSet
<1> QED
  BY <1>2, <1>4, <1>5 DEF a, m, Table

-----------------------------------------------------------------------------
(***************************************************************************)
(* The start, and the steps that change no table                           *)
(***************************************************************************)

LEMMA BrokerInit == Init => BrokerInv
<1> SUFFICES ASSUME Init PROVE BrokerInv
  OBVIOUS
<1>1. SliceInv
  BY DEF Init, SliceInv
<1>2. OtherInv
  BY BoundsAssumption DEF Init, OtherInv
<1>3. IdInv /\ DeletionInv
  BY DEF Init, IdInv, DeletionInv
<1>4. HalfInv /\ ReaderInv
  BY DEF Init, HalfInv, ReaderInv
<1> QED
  BY <1>1, <1>2, <1>3, <1>4 DEF BrokerInv

\* A step that changes at most the IP pools and the status.
LEMMA QuietKeeps ==
  ASSUME BrokerInv, UNCHANGED tables, allocations' \in [IPPool -> SUBSET (1 .. Size)],
         status' \in {"OK", "NotFound", "Full"}
  PROVE  BrokerInv'
<1> USE DEF tables, BrokerInv
<1>1. SliceInv'
  BY DEF SliceInv
<1>2. OtherInv'
  BY DEF OtherInv
<1>3. IdInv' /\ DeletionInv'
  BY DEF IdInv, DeletionInv, ShiftedAt
<1>4. HalfInv'
  BY DEF HalfInv, Inside, View
<1>5. ReaderInv'
  BY DEF ReaderInv, Good, Coherent, Bounded, Listed, Searched, View
<1> QED
  BY <1>1, <1>2, <1>3, <1>4, <1>5

LEMMA ReadKeeps ==
  ASSUME BrokerInv, NEW c \in Client, NEW k \in Kind, NEW i, Read(c, k, i)
  PROVE  BrokerInv'
<1>1. UNCHANGED tables /\ UNCHANGED allocations
  BY DEF Read, tables
<1>2. status' \in {"OK", "NotFound", "Full"}
  BY DEF Read, Return
<1> QED
  BY <1>1, <1>2, QuietKeeps DEF BrokerInv, OtherInv

LEMMA IPPoolCallKeeps ==
  ASSUME BrokerInv, NEW c \in Client, IPPoolCall(c)
  PROVE  BrokerInv'
<1>1. UNCHANGED tables /\ status' \in {"OK", "NotFound", "Full"}
  BY DEF IPPoolCall, ListIPPools, AllocateFromIPPool, ListIPPoolAllocations, ReleaseFromIPPool,
     Return
<1>2. allocations \in [IPPool -> SUBSET (1 .. Size)]
  BY DEF BrokerInv, OtherInv
<1>3. allocations' \in [IPPool -> SUBSET (1 .. Size)]
  <2>1. CASE UNCHANGED allocations
    BY <2>1, <1>2
  <2>2. ASSUME NEW p \in IPPool, Cardinality(allocations[p]) # Size,
               allocations' = [allocations EXCEPT ![p] = @ \cup {Min(FreeAddresses(p))}]
        PROVE  allocations' \in [IPPool -> SUBSET (1 .. Size)]
    <3>1. FreeAddresses(p) # {}
      BY <1>2, <2>2, FullPool DEF FreeAddresses
    <3>2. FreeAddresses(p) \in SUBSET Nat
      BY SizeAssumption DEF FreeAddresses
    <3>3. Min(FreeAddresses(p)) \in 1 .. Size
      BY <3>1, <3>2, MinIsElement DEF FreeAddresses
    <3> QED
      BY <1>2, <2>2, <3>3
  <2>3. ASSUME NEW p \in IPPool, NEW a \in 1 .. Size,
               allocations' = [allocations EXCEPT ![p] = @ \ {a}]
        PROVE  allocations' \in [IPPool -> SUBSET (1 .. Size)]
    BY <1>2, <2>3
  <2> QED
    BY <2>1, <2>2, <2>3
    DEF IPPoolCall, ListIPPools, AllocateFromIPPool, ListIPPoolAllocations, ReleaseFromIPPool
<1> QED
  BY <1>1, <1>3, QuietKeeps

-----------------------------------------------------------------------------
(***************************************************************************)
(* The steps of a reader                                                   *)
(***************************************************************************)
shared == <<arr, len, nextID, issued, allocations, deletion>>

\* It is enough that the reader that has moved is in order.
LEMMA ReaderMoves ==
  ASSUME BrokerInv, NEW c \in Client, UNCHANGED shared, status' \in {"OK", "NotFound", "Full"},
         scan' = [scan EXCEPT ![c] = scan'[c]], scan'[c] \in ReaderSet \cup {None},
         scan'[c] # None => Inside(scan[c])',
         scan'[c] # None /\ scan'[c].calm => Good(scan[c])'
  PROVE  BrokerInv'
<1> USE DEF shared, BrokerInv
<1>1. SliceInv'
  BY DEF SliceInv
<1>2. OtherInv'
  BY DEF OtherInv
<1>3. IdInv' /\ DeletionInv'
  BY DEF IdInv, DeletionInv, ShiftedAt
<1>4. \A d \in Client \ {c} : scan'[d] = scan[d]
  BY <1>2 DEF OtherInv
<1>5. HalfInv'
  <2> SUFFICES ASSUME NEW d \in Client, scan'[d] # None PROVE Inside(scan[d])'
    BY DEF HalfInv
  <2>1. CASE d # c
    BY <2>1, <1>4 DEF HalfInv, Inside, View
  <2> QED
    BY <2>1
<1>6. ReaderInv'
  <2> SUFFICES ASSUME NEW d \in Client, scan'[d] # None, scan'[d].calm PROVE Good(scan[d])'
    BY DEF ReaderInv
  <2>1. CASE d # c
    <3>1. scan'[d] = scan[d] /\ Good(scan[d])
      BY <2>1, <1>4 DEF ReaderInv
    <3>2. Coherent(scan[d])' /\ Bounded(scan[d])'
      BY <3>1 DEF Good, Coherent, Bounded, View
    <3>3. Listed(scan[d])' /\ Searched(scan[d])'
      BY <3>1 DEF Good, Listed, Searched
    <3> QED
      BY <3>2, <3>3 DEF Good
  <2> QED
    BY <2>1
<1> QED
  BY <1>1, <1>2, <1>3, <1>5, <1>6

\* A reader that starts sees the table as it is.
LEMMA ReaderStarts ==
  ASSUME BrokerInv, NEW c \in Client, NEW k \in Kind, NEW i \in {None} \cup (0 .. MaxID - 1),
         NEW live \in BOOLEAN, NEW a \in {None} \cup Seq(Slot), NEW n \in Nat \cup {-1},
         UNCHANGED shared, status' \in {"OK", "NotFound", "Full"},
         scan' = [scan EXCEPT ![c] = Reader(k, i, live, a, n)],
         ~live => a \in {None, Table(k)},
         n \in {-1, len[k]}, n = -1 => k = "monitor" /\ i # None
  PROVE  BrokerInv'
<1> DEFINE t == scan'[c]
<1>0. SliceInv /\ OtherInv /\ SliceInv'
  BY DEF BrokerInv, shared, SliceInv
<1>1. t = Reader(k, i, live, a, n)
  BY <1>0 DEF OtherInv
<1>2. /\ Table(k) \in Seq(Object) /\ Len(Table(k)) = len[k]
      /\ \A m \in 1 .. len[k] : Table(k)[m] = arr[k][m]
      /\ ToSet(Table(k)) = {arr[k][m] : m \in 1 .. len[k]}
  BY <1>0, TableOf
<1>3. /\ arr[k] \in Seq(Slot) /\ len[k] \in Nat /\ len[k] <= Len(arr[k])
      /\ \A m \in 1 .. len[k] : arr[k][m] \in Object
  BY <1>0 DEF SliceInv
<1>4. /\ t.kind = k /\ t.id = i /\ t.live = live /\ t.arr = a /\ t.len = n /\ t.at = 1
      /\ t.half = Zero /\ t.found = <<>> /\ t.start = Table(k) /\ t.current = ToSet(Table(k))
      /\ t.calm = (deletion = None \/ deletion.kind # k)
  BY <1>1 DEF Reader
<1>5. t \in ReaderSet
  <2>1. ToSet(Table(k)) \in SUBSET Object
    BY <1>2, <1>3
  <2>2. Zero \in Slot /\ <<>> \in Seq(Object) /\ 1 \in Nat \ {0}
    BY DEF Slot
  <2>3. (deletion = None \/ deletion.kind # k) \in BOOLEAN
    OBVIOUS
  <2> HIDE DEF t
  <2> QED
    BY <1>1, <1>2, <2>1, <2>2, <2>3 DEF Reader, ReaderSet
<1>6. Inside(scan[c])'
  BY <1>4 DEF Inside
<1>7. ASSUME t.calm PROVE Good(scan[c])'
  <2> DEFINE A == IF live \/ a = None THEN arr[k] ELSE a
  <2>1. View(scan[c])' = A
    BY <1>4 DEF View, shared
  <2>2. len[k] <= Len(A) /\ \A m \in 1 .. len[k] : A[m] = arr[k][m]
    BY <1>2, <1>3
  <2> HIDE DEF A
  <2>3. Coherent(scan[c])'
    <3> HIDE DEF t
    <3> SUFFICES /\ Len(t.start) <= Len(A)
                 /\ \A m \in 1 .. Len(t.start) : A[m] \in t.current /\ A[m].id = t.start[m].id
      BY <2>1, <1>4 DEF Coherent, t
    <3> QED
      BY <1>2, <1>4, <2>2
  <2>4. Bounded(scan[c])'
    <3>1. len'[k] = len[k] /\ deletion' = deletion
      BY DEF shared
    <3>2. deletion # None => deletion.kind # k
      BY <1>4, <1>7
    <3>3. i = None => n = len[k]
      OBVIOUS
    <3>4. n # -1 => n >= len[k]
      BY <1>3
    <3> QED
      BY <3>1, <3>2, <3>3, <3>4, <1>2, <1>3, <1>4 DEF Bounded
  <2>5. Listed(scan[c])' /\ Searched(scan[c])'
    BY <1>2, <1>3, <1>4 DEF Listed, Searched
  <2> QED
    BY <2>3, <2>4, <2>5 DEF Good
<1> HIDE DEF t
<1>8. scan' = [scan EXCEPT ![c] = scan'[c]]
  BY <1>1 DEF t
<1> QED
  BY <1>5, <1>6, <1>7, <1>8, ReaderMoves DEF t

LEMMA ListKeeps ==
  ASSUME BrokerInv, NEW c \in Client, NEW k \in Kind, NEW live \in BOOLEAN, List(c, k, live)
  PROVE  BrokerInv'
<1> DEFINE a == IF live THEN <<>> ELSE Table(k)
<1>1. UNCHANGED shared /\ status' = "OK"
  BY DEF List, shared, Return
<1>2. scan' = [scan EXCEPT ![c] = Reader(k, None, live, a, len[k])]
  BY DEF List
<1>3. SliceInv
  BY DEF BrokerInv
<1>4. a \in Seq(Slot) /\ (~live => a = Table(k))
  BY <1>3, TableOf DEF Slot
<1>5. len[k] \in Nat
  BY <1>3 DEF SliceInv
<1> HIDE DEF a
<1>6. /\ a \in {None} \cup Seq(Slot) /\ (~live => a \in {None, Table(k)})
      /\ len[k] \in Nat \cup {-1} /\ len[k] # -1
  BY <1>4, <1>5
<1> QED
  BY <1>1, <1>2, <1>6, ReaderStarts

LEMMA ReadMonitorKeeps ==
  ASSUME BrokerInv, NEW c \in Client, NEW i \in issued["monitor"],
         ReadLoadBalancerTCPMonitor(c, i)
  PROVE  BrokerInv'
<1>1. UNCHANGED shared /\ status' = status
  BY DEF ReadLoadBalancerTCPMonitor, Advance, shared
<1>2. status \in {"OK", "NotFound", "Full"} /\ i \in 0 .. MaxID - 1 /\ "monitor" \in Kind
  BY DEF BrokerInv, OtherInv, Kind
<1>3. i # None
  BY <1>2, NilAssumption
<1>4. len["monitor"] \in Nat
  BY <1>2 DEF BrokerInv, SliceInv
<1>5. CASE scan' = [scan EXCEPT ![c] = Reader("monitor", i, TRUE, <<>>, -1)]
  <2>1. <<>> \in Seq(Slot)
    OBVIOUS
  <2> QED
    BY <1>1, <1>2, <1>3, <1>5, <2>1, ReaderStarts
<1>6. CASE scan' = [scan EXCEPT ![c] = Reader("monitor", i, FALSE, None, len["monitor"])]
  BY <1>1, <1>2, <1>3, <1>4, <1>6, ReaderStarts
<1> QED
  BY <1>5, <1>6 DEF ReadLoadBalancerTCPMonitor, Advance

\* The fields of a reader have their types.
LEMMA ReaderFields ==
  ASSUME NEW s \in ReaderSet
  PROVE  /\ s.kind \in Kind /\ s.id \in {None} \cup (0 .. MaxID - 1) /\ s.live \in BOOLEAN
         /\ s.arr \in {None} \cup Seq(Slot) /\ s.len \in Nat \cup {-1} /\ s.at \in Nat \ {0}
         /\ s.half \in Slot /\ s.found \in Seq(Object) /\ s.start \in Seq(Object)
         /\ s.current \in SUBSET Object /\ s.calm \in BOOLEAN
BY DEF ReaderSet

\* The array of a reader holds slots.
LEMMA ViewTyped ==
  ASSUME SliceInv, NEW s \in ReaderSet
  PROVE  View(s) \in Seq(Slot)
BY ReaderFields DEF SliceInv, View

\* An object that was current while s was reading had its own words, whatever is current later.
LEMMA HadIt ==
  ASSUME NEW s, NEW o \in s.current
  PROVE  Had(s, o.id, o)
BY DEF Had

LEMMA HadKept ==
  ASSUME NEW s, NEW t, s.current \subseteq t.current, NEW i, NEW o, Had(s, i, o)
  PROVE  Had(t, i, o)
BY DEF Had

\* The reader of client c, and the facts about it that BrokerInv gives.
LEMMA ReaderOf ==
  ASSUME BrokerInv, NEW c \in Client, scan[c] # None
  PROVE  /\ scan[c] \in ReaderSet /\ Inside(scan[c]) /\ (scan[c].calm => Good(scan[c]))
         /\ View(scan[c]) \in Seq(Slot)
         /\ scan[c].arr # None => ArrayOf(c) = View(scan[c])
<1>1. scan[c] \in ReaderSet
  BY DEF BrokerInv, OtherInv
<1>2. View(scan[c]) \in Seq(Slot)
  BY <1>1, ViewTyped DEF BrokerInv
<1> QED
  BY <1>1, <1>2 DEF BrokerInv, HalfInv, ReaderInv, ArrayOf, View

\* A reader that stops leaves nothing behind.
LEMMA ReaderStops ==
  ASSUME BrokerInv, NEW c \in Client, Advance(c, None)
  PROVE  BrokerInv'
<1>1. scan' = [scan EXCEPT ![c] = None] /\ UNCHANGED <<shared, status>>
  BY DEF Advance, shared
<1>2. scan'[c] = None /\ scan' = [scan EXCEPT ![c] = scan'[c]]
  BY <1>1 DEF BrokerInv, OtherInv
<1>3. status' \in {"OK", "NotFound", "Full"}
  BY <1>1 DEF BrokerInv, OtherInv
<1> QED
  BY <1>1, <1>2, <1>3, ReaderMoves

LEMMA ReadHalfKeeps ==
  ASSUME BrokerInv, NEW c \in Client, ReadHalf(c)
  PROVE  BrokerInv'
<1> DEFINE s == scan[c]  t == scan'[c]  A == View(s)  h == A[s.at]
<1>1. /\ s # None /\ s.half = Zero /\ s.arr # None /\ s.len # -1 /\ ~Complete(s)
      /\ s.at <= Len(ArrayOf(c))
  BY DEF ReadHalf, AtElement
<1>2. s \in ReaderSet /\ (s.calm => Good(s)) /\ A \in Seq(Slot) /\ ArrayOf(c) = A
  BY <1>1, ReaderOf
<1>3. /\ s.kind \in Kind /\ s.at \in Nat \ {0} /\ s.len \in Nat \cup {-1} /\ s.start \in Seq(Object)
      /\ s.found \in Seq(Object)
  BY <1>2, ReaderFields
<1>4. scan' = [scan EXCEPT ![c] = [s EXCEPT !.half = h]] /\ UNCHANGED <<shared, status>>
  BY <1>2 DEF ReadHalf, Advance, shared
<1>5. t = [s EXCEPT !.half = h]
  BY <1>4 DEF BrokerInv, OtherInv
<1>6. scan' = [scan EXCEPT ![c] = t] /\ status' \in {"OK", "NotFound", "Full"}
  BY <1>4, <1>5 DEF BrokerInv, OtherInv
<1>7. h \in Slot /\ s.at <= Len(A)
  BY <1>1, <1>2, <1>3
<1> HIDE DEF s, h
<1>8. t \in ReaderSet
  BY <1>2, <1>5, <1>7 DEF ReaderSet
<1>9. /\ t.kind = s.kind /\ t.id = s.id /\ t.live = s.live /\ t.arr = s.arr /\ t.len = s.len
      /\ t.at = s.at /\ t.half = h /\ t.found = s.found /\ t.start = s.start
      /\ t.current = s.current /\ t.calm = s.calm
  BY <1>2, <1>5 DEF ReaderSet
<1>10. View(scan[c])' = A
  BY <1>4, <1>9 DEF View, shared
<1> HIDE DEF A
<1>11. s.at <= s.len /\ (s.id # None => s.found = <<>>)
  BY <1>1, <1>3 DEF Complete
<1>12. Inside(scan[c])'
  BY <1>1, <1>7, <1>9, <1>10, <1>11 DEF Inside, h
<1>13. ASSUME t.calm PROVE Good(scan[c])'
  <2>1. Good(s)
    BY <1>2, <1>9, <1>13
  <2>2. Coherent(scan[c])'
    <3>1. /\ Len(s.start) <= Len(A)
          /\ \A n \in 1 .. Len(s.start) : A[n] \in s.current /\ A[n].id = s.start[n].id
      BY <2>1 DEF Good, Coherent, A
    <3>2. s.at <= Len(s.start) => Had(t, s.start[s.at].id, h)
      BY <3>1, <1>3, <1>9, HadIt DEF h
    <3> QED
      BY <3>1, <3>2, <1>9, <1>10 DEF Coherent
  <2>3. Bounded(scan[c])'
    BY <2>1, <1>4, <1>9 DEF Good, Bounded, shared
  <2>4. Listed(scan[c])'
    BY <2>1, <1>9, HadKept DEF Good, Listed
  <2>5. Searched(scan[c])'
    BY <2>1, <1>9, <1>11 DEF Good, Searched
  <2> QED
    BY <2>2, <2>3, <2>4, <2>5 DEF Good
<1> QED
  BY <1>4, <1>6, <1>8, <1>12, <1>13, ReaderMoves

LEMMA ReadOtherWordKeeps ==
  ASSUME BrokerInv, NEW c \in Client, ReadOtherWord(c)
  PROVE  BrokerInv'
<1> DEFINE s == scan[c]  t == scan'[c]  A == View(s)
<1>1. s # None /\ s \in ReaderSet /\ Inside(s) /\ (s.calm => Good(s))
  BY ReaderOf DEF ReadOtherWord
<1>2. UNCHANGED <<shared, status>>
  BY DEF ReadOtherWord, Advance, shared
<1>3. /\ s.kind \in Kind /\ s.len \in Nat \cup {-1} /\ s.start \in Seq(Object)
      /\ s.arr \in {None} \cup Seq(Slot)
  BY <1>1, ReaderFields
<1>4. status' \in {"OK", "NotFound", "Full"}
  BY <1>2 DEF BrokerInv, OtherInv
<1>5. CASE s.len = -1 /\ scan' = [scan EXCEPT ![c] = [s EXCEPT !.len = len["monitor"]]]
  <2>1. t = [s EXCEPT !.len = len["monitor"]]
    BY <1>5 DEF BrokerInv, OtherInv
  <2>2. len["monitor"] \in Nat
    BY DEF BrokerInv, SliceInv, Kind
  <2>3. scan' = [scan EXCEPT ![c] = t]
    BY <2>1, <1>5
  <2> HIDE DEF s
  <2>4. t \in ReaderSet
    BY <1>1, <2>1, <2>2 DEF ReaderSet
  <2>5. /\ t.kind = s.kind /\ t.id = s.id /\ t.live = s.live /\ t.arr = s.arr
        /\ t.len = len["monitor"] /\ t.at = s.at /\ t.half = s.half /\ t.found = s.found
        /\ t.start = s.start /\ t.current = s.current /\ t.calm = s.calm
    BY <1>1, <2>1 DEF ReaderSet
  <2>6. View(scan[c])' = A
    BY <1>2, <2>5 DEF View, shared
  <2> HIDE DEF A
  <2>7. Inside(scan[c])'
    BY <1>1, <1>5, <2>5 DEF Inside
  <2>8. ASSUME t.calm PROVE Good(scan[c])'
    <3>1. Good(s)
      BY <1>1, <2>5, <2>8
    <3>2. Coherent(scan[c])'
      BY <3>1, <2>5, <2>6, HadKept DEF Good, Coherent, A
    <3>3. Bounded(scan[c])'
      <4>1. s.kind = "monitor" /\ s.id # None /\ Len(s.start) <= len["monitor"]
              /\ (deletion # None => deletion.kind # s.kind)
        BY <3>1, <1>3, <1>5 DEF Good, Bounded
      <4> QED
        BY <4>1, <1>2, <2>2, <2>5 DEF Bounded, shared
    <3>4. Listed(scan[c])' /\ Searched(scan[c])'
      BY <3>1, <2>5, HadKept DEF Good, Listed, Searched
    <3> QED
      BY <3>2, <3>3, <3>4 DEF Good
  <2> QED
    BY <1>2, <1>4, <2>3, <2>4, <2>7, <2>8, ReaderMoves
<1>6. CASE s.arr = None /\ scan' = [scan EXCEPT ![c] = [s EXCEPT !.live = TRUE, !.arr = <<>>]]
  <2>1. t = [s EXCEPT !.live = TRUE, !.arr = <<>>]
    BY <1>6 DEF BrokerInv, OtherInv
  <2>2. <<>> \in Seq(Slot)
    OBVIOUS
  <2>3. scan' = [scan EXCEPT ![c] = t]
    BY <2>1, <1>6
  <2> HIDE DEF s
  <2>4. t \in ReaderSet
    BY <1>1, <2>1, <2>2 DEF ReaderSet
  <2>5. /\ t.kind = s.kind /\ t.id = s.id /\ t.live = TRUE /\ t.arr = <<>> /\ t.len = s.len
        /\ t.at = s.at /\ t.half = s.half /\ t.found = s.found
        /\ t.start = s.start /\ t.current = s.current /\ t.calm = s.calm
    BY <1>1, <2>1 DEF ReaderSet
  <2>6. View(scan[c])' = A
    BY <1>2, <1>6, <2>5 DEF View, shared
  <2> HIDE DEF A
  <2>7. Inside(scan[c])'
    BY <1>1, <1>6, <2>5 DEF Inside
  <2>8. ASSUME t.calm PROVE Good(scan[c])'
    <3>1. Good(s)
      BY <1>1, <2>5, <2>8
    <3>2. Coherent(scan[c])'
      BY <3>1, <2>5, <2>6, HadKept DEF Good, Coherent, A
    <3>3. Bounded(scan[c])'
      BY <3>1, <1>2, <1>6, <2>5 DEF Good, Bounded, shared
    <3>4. Listed(scan[c])' /\ Searched(scan[c])'
      BY <3>1, <2>5, HadKept DEF Good, Listed, Searched
    <3> QED
      BY <3>2, <3>3, <3>4 DEF Good
  <2> QED
    BY <1>2, <1>4, <2>3, <2>4, <2>7, <2>8, ReaderMoves
<1> QED
  BY <1>5, <1>6 DEF ReadOtherWord, Advance

\* The copy of an element stays one of the object that was there at the start.
LEMMA ReadWordKeeps ==
  ASSUME BrokerInv, NEW c \in Client, ReadWord(c)
  PROVE  BrokerInv'
<1> DEFINE s == scan[c]  t == scan'[c]  A == View(s)  now == A[s.at]
<1>1. s # None /\ s.half # Zero
  BY DEF ReadWord
<1>2. /\ s \in ReaderSet /\ Inside(s) /\ (s.calm => Good(s)) /\ A \in Seq(Slot)
      /\ (s.arr # None => ArrayOf(c) = A)
  BY <1>1, ReaderOf
<1>3. /\ s.kind \in Kind /\ s.len \in Nat \cup {-1} /\ s.at \in Nat \ {0} /\ s.half \in Slot
      /\ s.start \in Seq(Object) /\ s.current \in SUBSET Object
  BY <1>2, ReaderFields
<1>4. /\ s.arr # None /\ s.len # -1 /\ s.at <= s.len /\ (s.id # None => s.found = <<>>)
      /\ s.at <= Len(A) /\ now # Zero
  BY <1>1, <1>2 DEF Inside
<1>5. now \in Object /\ s.half \in Object
  BY <1>1, <1>2, <1>3, <1>4 DEF Slot
<1> DEFINE Later(h) == \/ \E w \in Word :
                           h = [s.half EXCEPT !.content = [@ EXCEPT ![w] = now.content[w]]]
                       \/ h = [s.half EXCEPT !.id = now.id]
<1>6. PICK h : Later(h) /\ Advance(c, [s EXCEPT !.half = h])
  <2>1. ArrayOf(c)[s.at] = now
    BY <1>2, <1>4
  <2>2. CASE \E w \in Word : Advance(c, [s EXCEPT !.half.content[w] = ArrayOf(c)[s.at].content[w]])
    <3>1. PICK w \in Word : Advance(c, [s EXCEPT !.half.content[w] = now.content[w]])
      BY <2>1, <2>2
    <3> DEFINE h == [s.half EXCEPT !.content = [@ EXCEPT ![w] = now.content[w]]]
    <3>2. Later(h) /\ Advance(c, [s EXCEPT !.half = h])
      BY <3>1
    <3> QED
      BY <3>2
  <2>3. CASE Advance(c, [s EXCEPT !.half.id = ArrayOf(c)[s.at].id])
    <3> DEFINE h == [s.half EXCEPT !.id = now.id]
    <3>1. Later(h) /\ Advance(c, [s EXCEPT !.half = h])
      BY <2>1, <2>3
    <3> QED
      BY <3>1
  <2> QED
    BY <2>2, <2>3 DEF ReadWord
<1>7. scan' = [scan EXCEPT ![c] = [s EXCEPT !.half = h]] /\ UNCHANGED <<shared, status>>
  BY <1>6 DEF Advance, shared
<1>8. t = [s EXCEPT !.half = h]
  BY <1>7 DEF BrokerInv, OtherInv
<1>9. scan' = [scan EXCEPT ![c] = t] /\ status' \in {"OK", "NotFound", "Full"}
  BY <1>7, <1>8 DEF BrokerInv, OtherInv
<1> HIDE DEF s, now
<1>10. h \in Object /\ h.id \in {s.half.id, now.id}
       /\ \A w \in Word : h.content[w] \in {s.half.content[w], now.content[w]}
  <2>1. /\ s.half.id \in 0 .. MaxID - 1 /\ now.id \in 0 .. MaxID - 1
        /\ s.half.content \in Content /\ now.content \in Content
    BY <1>5 DEF Object
  <2>2. CASE h = [s.half EXCEPT !.id = now.id]
    BY <1>5, <2>1, <2>2 DEF Object
  <2>3. ASSUME NEW w \in Word, h = [s.half EXCEPT !.content = [@ EXCEPT ![w] = now.content[w]]]
        PROVE  h \in Object /\ h.id \in {s.half.id, now.id}
               /\ \A v \in Word : h.content[v] \in {s.half.content[v], now.content[v]}
    <3> DEFINE d == [s.half.content EXCEPT ![w] = now.content[w]]
    <3>1. d \in Content /\ \A v \in Word : d[v] \in {s.half.content[v], now.content[v]}
      BY <2>1 DEF Content
    <3>2. h = [s.half EXCEPT !.content = d]
      BY <2>3
    <3> HIDE DEF d
    <3>3. h \in Object /\ h.id = s.half.id /\ h.content = d
      BY <1>5, <3>1, <3>2 DEF Object
    <3> QED
      BY <3>1, <3>3
  <2> QED
    BY <1>6, <2>2, <2>3
<1>11. h \in Slot /\ h # Zero
  BY <1>10, NilAssumption DEF Slot
<1> HIDE DEF Later
<1>12. t \in ReaderSet
  BY <1>2, <1>8, <1>11 DEF ReaderSet
<1>13. /\ t.kind = s.kind /\ t.id = s.id /\ t.live = s.live /\ t.arr = s.arr /\ t.len = s.len
       /\ t.at = s.at /\ t.half = h /\ t.found = s.found /\ t.start = s.start
       /\ t.current = s.current /\ t.calm = s.calm
  BY <1>2, <1>8 DEF ReaderSet
<1>14. View(scan[c])' = A
  BY <1>7, <1>13 DEF View, shared
<1> HIDE DEF A
<1>15. Inside(scan[c])'
  BY <1>4, <1>13, <1>14 DEF Inside, now
<1>16. ASSUME t.calm PROVE Good(scan[c])'
  <2>1. Good(s)
    BY <1>2, <1>13, <1>16
  <2>2. Coherent(scan[c])'
    <3>1. /\ Len(s.start) <= Len(A)
          /\ \A n \in 1 .. Len(s.start) : A[n] \in s.current /\ A[n].id = s.start[n].id
      BY <2>1 DEF Good, Coherent, A
    <3>2. ASSUME s.at <= Len(s.start) PROVE Had(s, s.start[s.at].id, h)
      <4>1. Had(s, s.start[s.at].id, s.half)
        BY <1>1, <2>1, <3>2 DEF Good, Coherent
      <4>2. now \in s.current /\ now.id = s.start[s.at].id
        BY <1>3, <3>1, <3>2 DEF now
      <4> QED
        BY <1>10, <4>1, <4>2 DEF Had
    <3>3. s.at <= Len(s.start) => Had(t, s.start[s.at].id, h)
      BY <1>13, <3>2, HadKept
    <3> QED
      BY <3>1, <3>3, <1>13, <1>14 DEF Coherent
  <2>3. Bounded(scan[c])'
    BY <2>1, <1>7, <1>13 DEF Good, Bounded, shared
  <2>4. Listed(scan[c])'
    BY <2>1, <1>13, HadKept DEF Good, Listed
  <2>5. Searched(scan[c])'
    BY <2>1, <1>1, <1>13 DEF Good, Searched
  <2> QED
    BY <2>2, <2>3, <2>4, <2>5 DEF Good
<1> QED
  BY <1>7, <1>9, <1>12, <1>15, <1>16, ReaderMoves

\* What is appended is the copy.
LEMMA ReadRestKeeps ==
  ASSUME BrokerInv, NEW c \in Client, ReadRest(c)
  PROVE  BrokerInv'
<1> DEFINE s == scan[c]  t == scan'[c]  A == View(s)  o == s.half
           take == s.id = o.id \/ (s.id = None /\ s.calm)
           f == IF take THEN Append(s.found, o) ELSE s.found
<1>1. s # None /\ s.half # Zero
  BY DEF ReadRest
<1>2. s \in ReaderSet /\ Inside(s) /\ (s.calm => Good(s))
  BY <1>1, ReaderOf
<1>3. /\ s.kind \in Kind /\ s.id \in {None} \cup (0 .. MaxID - 1) /\ s.len \in Nat \cup {-1}
      /\ s.at \in Nat \ {0} /\ s.half \in Slot /\ s.found \in Seq(Object)
      /\ s.start \in Seq(Object) /\ s.current \in SUBSET Object /\ s.calm \in BOOLEAN
  BY <1>2, ReaderFields
<1>4. s.at <= s.len
  BY <1>1, <1>2 DEF Inside
<1>6. /\ scan' = [scan EXCEPT ![c] = [s EXCEPT !.half = Zero, !.at = s.at + 1, !.found = f]]
      /\ UNCHANGED <<shared, status>>
  BY DEF ReadRest, Advance, shared
<1>7. t = [s EXCEPT !.half = Zero, !.at = s.at + 1, !.found = f]
  BY <1>6 DEF BrokerInv, OtherInv
<1>8. scan' = [scan EXCEPT ![c] = t] /\ status' \in {"OK", "NotFound", "Full"}
  BY <1>6, <1>7 DEF BrokerInv, OtherInv
<1>10. o \in Object
  BY <1>1, <1>3 DEF Slot
<1> HIDE DEF s
<1>11. f \in Seq(Object)
  BY <1>3, <1>10
<1> HIDE DEF o, f, take
<1>12. t \in ReaderSet
  <2>1. Zero \in Slot /\ s.at + 1 \in Nat \ {0}
    BY <1>3 DEF Slot
  <2> QED
    BY <1>2, <1>7, <1>11, <2>1 DEF ReaderSet
<1>13. /\ t.kind = s.kind /\ t.id = s.id /\ t.live = s.live /\ t.arr = s.arr /\ t.len = s.len
       /\ t.at = s.at + 1 /\ t.half = Zero /\ t.found = f /\ t.start = s.start
       /\ t.current = s.current /\ t.calm = s.calm
  BY <1>2, <1>7 DEF ReaderSet
<1>14. View(scan[c])' = A
  BY <1>6, <1>13 DEF View, shared
<1> HIDE DEF A
<1>15. Inside(scan[c])'
  BY <1>13 DEF Inside
<1>16. ASSUME t.calm PROVE Good(scan[c])'
  <2>1. Good(s) /\ s.calm = TRUE
    BY <1>2, <1>3, <1>13, <1>16
  <2>2. /\ Len(s.start) <= Len(A)
        /\ \A n \in 1 .. Len(s.start) : A[n] \in s.current /\ A[n].id = s.start[n].id
    BY <2>1 DEF Good, Coherent, A
  <2>3. ASSUME s.at <= Len(s.start) PROVE Had(s, s.start[s.at].id, o)
    BY <1>1, <2>1, <2>3 DEF Good, Coherent, o
  <2>4. Coherent(scan[c])'
    BY <2>2, <1>13, <1>14 DEF Coherent
  <2>5. Bounded(scan[c])'
    BY <2>1, <1>6, <1>13 DEF Good, Bounded, shared
  <2>6. Listed(scan[c])'
    <3> SUFFICES ASSUME s.id = None
                 PROVE  /\ s.at + 1 <= Len(s.start) + 1 /\ Len(f) = s.at
                        /\ \A n \in 1 .. Len(f) : Had(s, s.start[n].id, f[n])
      BY <1>3, <1>13, HadKept DEF Listed
    <3>1. f = Append(s.found, o)
      BY <2>1 DEF f, take
    <3>2. s.len = Len(s.start) /\ Len(s.found) = s.at - 1
      BY <2>1 DEF Good, Bounded, Listed
    <3>3. Had(s, s.start[s.at].id, o)
      BY <1>4, <2>3, <3>2
    <3>4. \A n \in 1 .. Len(s.found) : Had(s, s.start[n].id, s.found[n])
      BY <2>1 DEF Good, Listed
    <3>5. /\ Len(f) = Len(s.found) + 1 /\ f[Len(s.found) + 1] = o
          /\ \A n \in 1 .. Len(s.found) : f[n] = s.found[n]
      BY <1>3, <1>10, <3>1
    <3>6. s.at <= Len(s.start) /\ Len(f) = s.at /\ Len(s.found) = s.at - 1
      BY <1>3, <1>4, <3>2, <3>5
    <3>7. ASSUME NEW n \in 1 .. Len(f) PROVE Had(s, s.start[n].id, f[n])
      <4>1. CASE n = s.at
        BY <4>1, <1>3, <3>3, <3>5, <3>6
      <4>2. CASE n # s.at
        <5>1. n \in 1 .. Len(s.found)
          BY <4>2, <1>3, <3>6
        <5> QED
          BY <5>1, <3>4, <3>5
      <4> QED
        BY <4>1, <4>2
    <3> QED
      BY <1>3, <3>6, <3>7
  <2>7. Searched(scan[c])'
    <3> SUFFICES ASSUME s.id # None, \E n \in 1 .. Len(s.start) : s.start[n].id = s.id
                 PROVE  \/ /\ f = <<>> /\ s.at + 1 <= Len(s.start)
                           /\ \A i \in 1 .. s.at + 1 - 1 : s.start[i].id # s.id
                        \/ Len(f) = 1 /\ Had(s, s.id, f[1])
      BY <1>3, <1>13, HadKept DEF Searched
    <3>0. PICK n \in 1 .. Len(s.start) : s.start[n].id = s.id
      OBVIOUS
    <3>1. /\ s.found = <<>> /\ s.at <= Len(s.start)
          /\ \A i \in 1 .. s.at - 1 : s.start[i].id # s.id
      BY <1>1, <2>1 DEF Good, Searched
    <3>2. Had(s, s.start[s.at].id, o) /\ o.id = s.start[s.at].id
      BY <2>3, <3>1 DEF Had
    <3>3. CASE s.start[s.at].id = s.id
      <4>1. f = <<o>>
        BY <3>1, <3>2, <3>3 DEF f, take
      <4> QED
        BY <3>2, <3>3, <4>1
    <3>4. CASE s.start[s.at].id # s.id
      <4>1. f = <<>>
        BY <3>1, <3>2, <3>4 DEF f, take
      <4>2. \A i \in 1 .. s.at : s.start[i].id # s.id
        BY <1>3, <3>1, <3>4
      <4>3. s.at < n /\ n <= Len(s.start) /\ s.at + 1 - 1 = s.at
        BY <1>3, <3>0, <4>2
      <4> QED
        BY <1>3, <4>1, <4>2, <4>3
    <3> QED
      BY <3>3, <3>4
  <2> QED
    BY <2>4, <2>5, <2>6, <2>7 DEF Good
<1> QED
  BY <1>6, <1>8, <1>12, <1>15, <1>16, ReaderMoves

LEMMA ReadingKeeps ==
  ASSUME BrokerInv, NEW c \in Client, Reading(c)
  PROVE  BrokerInv'
BY ReadHalfKeeps, ReadWordKeeps, ReadRestKeeps, ReadOtherWordKeeps, ReaderStops
DEF Reading, ReadBeyond, EndScan

-----------------------------------------------------------------------------
(***************************************************************************)
(* The steps that change a table                                           *)
(***************************************************************************)

\* Reader t is where reader s was, and looks for the same.
SameReading(s, t) ==
  /\ t.kind = s.kind /\ t.id = s.id /\ t.len = s.len /\ t.at = s.at /\ t.half = s.half
  /\ t.found = s.found /\ t.start = s.start /\ t.calm = s.calm /\ s.current \subseteq t.current

\* A reader of another kind, or of an array that is not the table's, is not concerned, and
\* neither is one whose view still has the ids of what was there when it started.
LEMMA ViewKeeps ==
  ASSUME BrokerInv, NEW c \in Client, scan[c] # None, scan'[c] # None,
         SameReading(scan[c], scan'[c]), scan[c].calm,
         scan'[c].live \/ scan'[c].arr = None \/ scan'[c].len = -1 =>
           scan[c].live \/ scan[c].arr = None \/ scan[c].len = -1,
         scan[c].live \/ scan[c].arr = None \/ scan[c].len = -1 =>
           /\ len'[scan[c].kind] >= len[scan[c].kind]
           /\ deletion' # None => deletion'.kind # scan[c].kind,
         len \in [Kind -> Nat], len' \in [Kind -> Nat],
         Len(View(scan[c]))' >= Len(scan[c].start),
         \A n \in 1 .. Len(scan[c].start) :
           /\ View(scan[c])'[n] = View(scan[c])[n] \/ View(scan[c])'[n] \in scan'[c].current
           /\ View(scan[c])'[n].id = View(scan[c])[n].id
  PROVE  Good(scan[c])'
<1> DEFINE s == scan[c]  t == scan'[c]
<1>1. s \in ReaderSet /\ Good(s)
  BY ReaderOf
<1>2. s.kind \in Kind /\ s.len \in Nat \cup {-1} /\ s.start \in Seq(Object)
  BY <1>1, ReaderFields
<1> USE DEF SameReading
<1>3. Coherent(scan[c])'
  <2>1. \A n \in 1 .. Len(s.start) : View(s)[n] \in s.current /\ View(s)[n].id = s.start[n].id
    BY <1>1 DEF Good, Coherent
  <2>2. \A n \in 1 .. Len(s.start) :
          View(scan[c])'[n] \in t.current /\ View(scan[c])'[n].id = s.start[n].id
    BY <2>1
  <2>3. s.half # Zero /\ s.at <= Len(s.start) => Had(t, s.start[s.at].id, s.half)
    BY <1>1, HadKept DEF Good, Coherent
  <2> QED
    BY <2>2, <2>3, <1>2 DEF Coherent
<1>4. Bounded(scan[c])'
  <2>1. /\ s.len # -1 => s.len >= Len(s.start)
        /\ s.len = -1 => s.kind = "monitor"
        /\ s.id = None => s.len = Len(s.start)
    BY <1>1 DEF Good, Bounded
  <2>2. t.live \/ t.arr = None \/ t.len = -1 => Len(s.start) <= len[s.kind]
    BY <1>1 DEF Good, Bounded
  <2>3. t.live \/ t.arr = None \/ t.len = -1 => Len(s.start) <= len'[s.kind]
    BY <1>2, <2>2
  <2> QED
    BY <2>1, <2>3 DEF Bounded
<1>5. Listed(scan[c])'
  BY <1>1, HadKept DEF Good, Listed
<1>6. Searched(scan[c])'
  BY <1>1, HadKept DEF Good, Searched
<1> QED
  BY <1>3, <1>4, <1>5, <1>6 DEF Good

\* A slot of the array of kind k is written.
Written(k, n, o) == arr' = [arr EXCEPT ![k][n] = o]

LEMMA ArrayWritten ==
  ASSUME SliceInv, NEW k \in Kind, NEW n \in 1 .. Len(arr[k]), NEW o \in Slot, Written(k, n, o)
  PROVE  /\ arr' \in [Kind -> Seq(Slot)] /\ \A l \in Kind \ {k} : arr'[l] = arr[l]
         /\ Len(arr'[k]) = Len(arr[k]) /\ arr'[k][n] = o
         /\ \A m \in 1 .. Len(arr[k]) : m # n => arr'[k][m] = arr[k][m]
<1>1. arr \in [Kind -> Seq(Slot)] /\ arr[k] \in Seq(Slot)
  BY DEF SliceInv
<1>2. /\ arr'[k] = [arr[k] EXCEPT ![n] = o] /\ \A l \in Kind \ {k} : arr'[l] = arr[l]
  BY <1>1 DEF Written
<1>3. /\ arr'[k] \in Seq(Slot) /\ Len(arr'[k]) = Len(arr[k])
      /\ \A m \in 1 .. Len(arr[k]) : arr'[k][m] = IF m = n THEN o ELSE arr[k][m]
  BY <1>1, <1>2, WriteSlot
<1>4. arr' \in [Kind -> Seq(Slot)]
  BY <1>1, <1>2, <1>3 DEF Written
<1>5. arr'[k][n] = o /\ \A m \in 1 .. Len(arr[k]) : m # n => arr'[k][m] = arr[k][m]
  BY <1>3
<1> QED
  BY <1>2, <1>3, <1>4, <1>5

\* What a reader that keeps its array sees of it.
LEMMA ViewWritten ==
  ASSUME SliceInv, NEW k \in Kind, NEW n \in 1 .. Len(arr[k]), NEW o \in Slot, Written(k, n, o),
         NEW c \in Client, scan[c] \in ReaderSet, scan'[c].kind = scan[c].kind,
         scan'[c].live = scan[c].live, scan'[c].arr = scan[c].arr
  PROVE  /\ View(scan[c]) \in Seq(Slot) /\ Len(View(scan[c]))' = Len(View(scan[c]))
         /\ \A m \in 1 .. Len(View(scan[c])) :
              \/ View(scan[c])'[m] = View(scan[c])[m]
              \/ /\ scan[c].kind = k /\ (scan[c].live \/ scan[c].arr = None) /\ m = n
                 /\ View(scan[c])'[m] = o /\ View(scan[c])[m] = arr[k][n]
<1> DEFINE s == scan[c]
<1>1. s.kind \in Kind /\ View(s) \in Seq(Slot)
  BY ReaderFields, ViewTyped
<1>2. CASE s.live \/ s.arr = None
  <2>1. View(scan[c])' = arr'[s.kind] /\ View(s) = arr[s.kind]
    BY <1>2 DEF View
  <2>2. CASE s.kind = k
    BY <1>1, <1>2, <2>1, <2>2, ArrayWritten
  <2>3. CASE s.kind # k
    BY <1>1, <2>1, <2>3, ArrayWritten
  <2> QED
    BY <2>2, <2>3
<1>3. CASE ~(s.live \/ s.arr = None)
  <2>1. View(scan[c])' = View(s)
    BY <1>3 DEF View
  <2> QED
    BY <1>1, <2>1
<1> QED
  BY <1>2, <1>3

LEMMA UpdateKeeps ==
  ASSUME BrokerInv, NEW c \in Client, NEW k \in Kind, NEW i, Update(c, k, i)
  PROVE  BrokerInv'
<1>0. SUFFICES ASSUME NEW n \in Index(k, i), NEW o \in Object,
                    o = [arr[k][n] EXCEPT !.content = [w \in Word |-> @[w] + 1]],
                    arr' = [arr EXCEPT ![k][n] = o], scan' = Witnessed(k, o), status' = "OK",
                    deletion = None, UNCHANGED <<len, nextID, issued, allocations, deletion>>
             PROVE  BrokerInv'
  <2>1. CASE Index(k, i) = {}
    <3>1. UNCHANGED tables /\ UNCHANGED allocations /\ status' = "NotFound"
      BY <2>1 DEF Update, tables, Return
    <3> QED
      BY <3>1, QuietKeeps DEF BrokerInv, OtherInv
  <2>2. CASE Index(k, i) # {}
    BY <2>2 DEF Update, Locked, Replace, Return
  <2> QED
    BY <2>1, <2>2
<1>1. /\ arr \in [Kind -> Seq(Slot)] /\ len \in [Kind -> Nat] /\ n \in 1 .. len[k]
      /\ arr[k] \in Seq(Slot) /\ len[k] <= Len(arr[k]) /\ n \in 1 .. Len(arr[k])
      /\ arr[k][n] \in Object
  BY DEF BrokerInv, SliceInv, Index
<1>2. o.id = arr[k][n].id
  BY <1>0, <1>1 DEF Object
<1>3. Written(k, n, o) /\ SliceInv /\ o \in Slot
  BY <1>0 DEF Written, BrokerInv, Slot
<1>4. /\ arr' \in [Kind -> Seq(Slot)] /\ \A l \in Kind \ {k} : arr'[l] = arr[l]
      /\ Len(arr'[k]) = Len(arr[k]) /\ arr'[k][n] = o
      /\ \A m \in 1 .. Len(arr[k]) : m # n => arr'[k][m] = arr[k][m]
  BY <1>1, <1>3, ArrayWritten
<1>5. \A l \in Kind : Len(arr'[l]) = Len(arr[l])
  BY <1>4
<1>6. ASSUME NEW l \in Kind, NEW m \in 1 .. len[l]
      PROVE  arr'[l][m] \in Object /\ arr'[l][m].id = arr[l][m].id
  <2>1. m \in 1 .. Len(arr[l]) /\ arr[l][m] \in Object
    BY DEF BrokerInv, SliceInv
  <2>2. CASE l = k /\ m = n
    BY <2>2, <1>2, <1>4
  <2>3. CASE l = k /\ m # n
    BY <2>1, <2>3, <1>4
  <2>4. CASE l # k
    BY <2>1, <2>4, <1>4
  <2> QED
    BY <2>2, <2>3, <2>4
<1>7. SliceInv'
  BY <1>0, <1>4, <1>5, <1>6 DEF BrokerInv, SliceInv
<1>8. ASSUME NEW d \in Client
      PROVE  /\ scan'[d] \in ReaderSet \cup {None}
             /\ scan'[d] # None =>
                  /\ scan[d] \in ReaderSet /\ scan[d] # None
                  /\ SameReading(scan[d], scan'[d])
                  /\ scan'[d].live = scan[d].live /\ scan'[d].arr = scan[d].arr
                  /\ scan[d].calm /\ scan[d].kind = k => o \in scan'[d].current
  <2>1. scan[d] \in ReaderSet \cup {None}
    BY DEF BrokerInv, OtherInv
  <2>2. CASE scan[d] # None /\ scan[d].kind = k /\ scan[d].calm
    <3>1. scan'[d] = [scan[d] EXCEPT !.current = scan[d].current \cup {o}]
      BY <1>0, <2>2 DEF Witnessed, Reads
    <3>2. scan[d] \in ReaderSet /\ scan[d].current \cup {o} \in SUBSET Object
      BY <2>1, <2>2, ReaderFields
    <3> DEFINE s == scan[d]  C == s.current \cup {o}  t == scan'[d]
    <3>3. s \in ReaderSet /\ C \in SUBSET Object /\ t = [s EXCEPT !.current = C]
      BY <3>1, <3>2
    <3> HIDE DEF s, C, t
    <3>4. /\ t \in ReaderSet /\ t.kind = s.kind /\ t.id = s.id /\ t.live = s.live /\ t.arr = s.arr
          /\ t.len = s.len /\ t.at = s.at /\ t.half = s.half /\ t.found = s.found
          /\ t.start = s.start /\ t.current = C /\ t.calm = s.calm
      BY <3>3 DEF ReaderSet
    <3> QED
      BY <2>2, <3>2, <3>4 DEF s, C, t, SameReading
  <2>3. CASE ~(scan[d] # None /\ scan[d].kind = k /\ scan[d].calm)
    BY <1>0, <2>1, <2>3 DEF Witnessed, Reads, SameReading
  <2> QED
    BY <2>2, <2>3
<1>9. OtherInv'
  <2>1. scan' = [d \in Client |-> scan'[d]]
    BY <1>0 DEF Witnessed
  <2> QED
    BY <1>0, <1>8, <2>1 DEF BrokerInv, OtherInv
<1>10. IdInv' /\ DeletionInv'
  BY <1>0, <1>6 DEF BrokerInv, IdInv, DeletionInv, ShiftedAt
<1>11. ASSUME NEW d \in Client, scan'[d] # None
       PROVE  /\ View(scan[d]) \in Seq(Slot) /\ Len(View(scan[d]))' = Len(View(scan[d]))
              /\ \A m \in 1 .. Len(View(scan[d])) :
                   \/ View(scan[d])'[m] = View(scan[d])[m]
                   \/ /\ scan[d].kind = k /\ (scan[d].live \/ scan[d].arr = None) /\ m = n
                      /\ View(scan[d])'[m] = o /\ View(scan[d])[m] = arr[k][n]
  <2>1. /\ scan[d] \in ReaderSet /\ scan'[d].kind = scan[d].kind
        /\ scan'[d].live = scan[d].live /\ scan'[d].arr = scan[d].arr
    BY <1>8, <1>11 DEF SameReading
  <2>2. SliceInv /\ Written(k, n, o) /\ o \in Slot /\ n \in 1 .. Len(arr[k])
    BY <1>1, <1>3
  <2> QED
    BY <2>1, <2>2, ViewWritten
<1>12. o # Zero
  BY NilAssumption
<1>13. HalfInv'
  <2> SUFFICES ASSUME NEW d \in Client, scan'[d] # None, scan'[d].half # Zero
               PROVE  Inside(scan[d])'
    BY DEF HalfInv, Inside
  <2>1. Inside(scan[d]) /\ scan[d].at \in Nat \ {0}
    BY <1>8, ReaderOf, ReaderFields
  <2>2. scan[d].at \in 1 .. Len(View(scan[d])) /\ View(scan[d])[scan[d].at] # Zero
    BY <2>1, <1>8, <1>11 DEF Inside, SameReading
  <2>3. View(scan[d])'[scan[d].at] # Zero
    BY <2>2, <1>11, <1>12
  <2> QED
    BY <2>1, <2>2, <2>3, <1>8, <1>11 DEF Inside, SameReading
<1>14. ReaderInv'
  <2> SUFFICES ASSUME NEW d \in Client, scan'[d] # None, scan'[d].calm
               PROVE  Good(scan[d])'
    BY DEF ReaderInv
  <2>1. /\ scan[d] # None /\ scan[d].calm /\ Good(scan[d]) /\ scan[d].start \in Seq(Object)
        /\ scan[d].kind \in Kind
    BY <1>8, ReaderOf, ReaderFields DEF SameReading
  <2>2. Len(scan[d].start) <= Len(View(scan[d]))
    BY <2>1 DEF Good, Coherent
  <2>3. ASSUME NEW m \in 1 .. Len(scan[d].start)
        PROVE  /\ View(scan[d])'[m] = View(scan[d])[m] \/ View(scan[d])'[m] \in scan'[d].current
               /\ View(scan[d])'[m].id = View(scan[d])[m].id
    <3>1. m \in 1 .. Len(View(scan[d]))
      BY <2>1, <2>2, <1>11
    <3>2. \/ View(scan[d])'[m] = View(scan[d])[m]
          \/ /\ scan[d].kind = k /\ View(scan[d])'[m] = o
             /\ View(scan[d])[m] = arr[k][n]
      BY <3>1, <1>11
    <3>3. scan[d].kind = k => o \in scan'[d].current
      BY <2>1, <1>8
    <3> QED
      BY <3>2, <3>3, <1>2
  <2>4. Len(View(scan[d]))' >= Len(scan[d].start)
    BY <1>11, <2>1, <2>2
  <2>5. /\ scan[d].live \/ scan[d].arr = None \/ scan[d].len = -1 =>
             /\ len'[scan[d].kind] >= len[scan[d].kind]
             /\ deletion' # None => deletion'.kind # scan[d].kind
        /\ len' \in [Kind -> Nat]
    BY <1>0, <1>1, <2>1
  <2>6. /\ SameReading(scan[d], scan'[d]) /\ scan'[d].len = scan[d].len
        /\ scan'[d].live = scan[d].live /\ scan'[d].arr = scan[d].arr
    BY <1>8 DEF SameReading
  <2> QED
    BY <2>1, <2>3, <2>4, <2>5, <2>6, <1>1, ViewKeeps
<1> QED
  BY <1>7, <1>9, <1>10, <1>13, <1>14 DEF BrokerInv

LEMMA DeleteKeeps ==
  ASSUME BrokerInv, NEW c \in Client, NEW k \in Kind, NEW i, Delete(c, k, i)
  PROVE  BrokerInv'
<1>0. SUFFICES ASSUME NEW n \in Index(k, i),
                      deletion' = [client |-> c, kind |-> k, at |-> n, obj |-> arr[k][n]],
                      scan' = Disturbed(k), deletion = None,
                      UNCHANGED <<arr, len, nextID, issued, allocations, status>>
               PROVE  BrokerInv'
  <2>1. CASE Index(k, i) = {}
    <3>1. UNCHANGED tables /\ UNCHANGED allocations /\ status' = "NotFound"
      BY <2>1 DEF Delete, tables, Return
    <3> QED
      BY <3>1, QuietKeeps DEF BrokerInv, OtherInv
  <2>2. CASE Index(k, i) # {}
    BY <2>2 DEF Delete, Locked
  <2> QED
    BY <2>1, <2>2
<1>1. n \in 1 .. len[k] /\ len[k] \in Nat /\ arr[k][n] \in Object
  BY DEF BrokerInv, SliceInv, Index
<1>2. SliceInv'
  BY <1>0 DEF BrokerInv, SliceInv
<1>3. /\ deletion'.client = c /\ deletion'.kind = k /\ deletion'.at = n
      /\ deletion'.obj = arr[k][n]
  BY <1>0
<1>4. \A l \in Kind : \A m, j \in 1 .. len[l] : m # j => arr[l][m].id # arr[l][j].id
  BY <1>0 DEF BrokerInv, IdInv, ShiftedAt
<1>5. IdInv'
  BY <1>0, <1>4 DEF BrokerInv, IdInv
<1>6. DeletionInv'
  <2>1. n \in 1 .. MaxID
    BY <1>1, BoundsAssumption DEF BrokerInv, IdInv, OtherInv
  <2>2. deletion' \in Deletion
    BY <1>0, <1>1, <2>1 DEF Deletion
  <2>3. arr[k][n].id \in issued[k] /\ \A m \in 1 .. len[k] : m # n => arr[k][m].id # arr[k][n].id
    BY <1>1, <1>4 DEF BrokerInv, IdInv
  <2> QED
    BY <1>0, <1>1, <1>3, <2>2, <2>3 DEF DeletionInv
<1>7. ASSUME NEW d \in Client
      PROVE  /\ scan'[d] \in ReaderSet \cup {None}
             /\ scan'[d] # None =>
                  /\ scan[d] # None /\ scan[d] \in ReaderSet
                  /\ scan'[d].kind = scan[d].kind /\ scan'[d].id = scan[d].id
                  /\ scan'[d].live = scan[d].live /\ scan'[d].arr = scan[d].arr
                  /\ scan'[d].len = scan[d].len /\ scan'[d].at = scan[d].at
                  /\ scan'[d].half = scan[d].half /\ scan'[d].found = scan[d].found
                  /\ scan'[d].calm => /\ scan'[d] = scan[d]
                                      /\ scan[d].live \/ scan[d].arr = None \/ scan[d].len = -1 =>
                                           scan[d].kind # k
  <2>1. scan[d] \in ReaderSet \cup {None}
    BY DEF BrokerInv, OtherInv
  <2> DEFINE hit == Reads(d, k) /\ (scan[d].live \/ scan[d].arr = None \/ scan[d].len = -1)
  <2>2. CASE hit
    <3> DEFINE s == scan[d]  t == scan'[d]
    <3>1. t = [s EXCEPT !.calm = FALSE, !.start = <<>>, !.current = {}] /\ s # None
      BY <1>0, <2>2 DEF Disturbed, Reads
    <3>2. s \in ReaderSet /\ <<>> \in Seq(Object)
      BY <2>1, <3>1
    <3> HIDE DEF s, t
    <3>3. /\ t \in ReaderSet /\ t.kind = s.kind /\ t.id = s.id /\ t.live = s.live /\ t.arr = s.arr
          /\ t.len = s.len /\ t.at = s.at /\ t.half = s.half /\ t.found = s.found /\ t.calm = FALSE
      BY <3>1, <3>2 DEF ReaderSet
    <3> QED
      BY <3>1, <3>2, <3>3 DEF s, t
  <2>3. CASE ~hit
    <3>1. scan'[d] = scan[d]
      BY <1>0, <2>3 DEF Disturbed
    <3> QED
      BY <2>1, <2>3, <3>1 DEF Reads
  <2> QED
    BY <2>2, <2>3
<1>8. OtherInv'
  <2>1. scan' = [d \in Client |-> scan'[d]]
    BY <1>0 DEF Disturbed
  <2> QED
    BY <1>0, <1>7, <2>1 DEF BrokerInv, OtherInv
<1>9. HalfInv'
  <2> SUFFICES ASSUME NEW d \in Client, scan'[d] # None PROVE Inside(scan[d])'
    BY DEF HalfInv
  <2>1. Inside(scan[d])
    BY <1>7, ReaderOf
  <2>2. arr' = arr
    BY <1>0
  <2> QED
    BY <2>1, <2>2, <1>7 DEF Inside, View
<1>10. ReaderInv'
  <2> SUFFICES ASSUME NEW d \in Client, scan'[d] # None, scan'[d].calm PROVE Good(scan[d])'
    BY DEF ReaderInv
  <2>1. /\ scan'[d] = scan[d] /\ Good(scan[d])
        /\ scan[d].live \/ scan[d].arr = None \/ scan[d].len = -1 => scan[d].kind # k
    BY <1>7, ReaderOf
  <2>2. arr' = arr /\ len' = len
    BY <1>0
  <2>3. Coherent(scan[d])'
    BY <2>1, <2>2 DEF Good, Coherent, View
  <2>4. Bounded(scan[d])'
    BY <2>1, <2>2, <1>3 DEF Good, Bounded
  <2>5. Listed(scan[d])' /\ Searched(scan[d])'
    BY <2>1 DEF Good, Listed, Searched
  <2> QED
    BY <2>3, <2>4, <2>5 DEF Good
<1> QED
  BY <1>2, <1>5, <1>6, <1>8, <1>9, <1>10 DEF BrokerInv

\* A deletion that goes on disturbs no reader any more.
LEMMA ShiftKeeps ==
  ASSUME BrokerInv, deletion # None, Shift(deletion.kind, deletion.at)
  PROVE  BrokerInv'
<1> DEFINE k == deletion.kind  n == deletion.at  o == arr[k][n + 1]
<1>1. /\ k \in Kind /\ n \in 1 .. MaxID /\ n < len[k] /\ len[k] \in Nat /\ len[k] <= Len(arr[k])
      /\ deletion.obj.id \in issued[k]
      /\ deletion \in Deletion
      /\ \A m \in 1 .. len[k] : m # n => arr[k][m].id # deletion.obj.id
  BY DEF BrokerInv, DeletionInv, SliceInv, Shift, Deletion
<1>2. n \in 1 .. Len(arr[k]) /\ n + 1 \in 1 .. len[k] /\ n \in Nat /\ n > 0 /\ n \in 1 .. len[k]
  BY <1>1 DEF BrokerInv, SliceInv
<1>3. o \in Object
  BY <1>1, <1>2 DEF BrokerInv, SliceInv
<1>4. /\ arr' = [arr EXCEPT ![k][n] = o] /\ deletion' = [deletion EXCEPT !.at = n + 1]
      /\ UNCHANGED <<len, nextID, issued, allocations, scan, status>>
  BY DEF Shift
<1>5. /\ deletion'.kind = k /\ deletion'.at = n + 1 /\ deletion'.obj = deletion.obj
      /\ deletion' # None /\ deletion' \in Deletion
  <2>1. n + 1 \in 1 .. MaxID
    BY <1>1, <1>2, BoundsAssumption DEF BrokerInv, IdInv, OtherInv
  <2> QED
    BY <1>1, <1>4, <2>1, NilAssumption DEF Deletion
<1> HIDE DEF k, n, o
<1>6. Written(k, n, o) /\ SliceInv /\ o \in Slot
  BY <1>3, <1>4 DEF Written, BrokerInv, Slot
<1>7. /\ arr' \in [Kind -> Seq(Slot)] /\ \A l \in Kind \ {k} : arr'[l] = arr[l]
      /\ Len(arr'[k]) = Len(arr[k]) /\ arr'[k][n] = o
      /\ \A m \in 1 .. Len(arr[k]) : m # n => arr'[k][m] = arr[k][m]
  BY <1>1, <1>2, <1>6, ArrayWritten
<1>8. \A m \in 1 .. len[k] : m # n => arr'[k][m] = arr[k][m]
  BY <1>1, <1>7
<1>9. SliceInv'
  <2>1. ASSUME NEW l \in Kind
        PROVE  len[l] <= Len(arr'[l]) /\ \A m \in 1 .. len[l] : arr'[l][m] \in Object
    <3>1. CASE l = k
      BY <3>1, <1>1, <1>3, <1>7, <1>8 DEF BrokerInv, SliceInv
    <3>2. CASE l # k
      BY <3>2, <1>7 DEF BrokerInv, SliceInv
    <3> QED
      BY <3>1, <3>2
  <2> QED
    BY <2>1, <1>4, <1>7 DEF BrokerInv, SliceInv
<1>10. OtherInv'
  BY <1>4 DEF BrokerInv, OtherInv
<1>11. IdInv'
  <2>1. \A l \in Kind : len'[l] <= nextID' /\ \A i \in issued'[l] : i < nextID'
    BY <1>4 DEF BrokerInv, IdInv
  <2>2. ASSUME NEW l \in Kind, NEW m \in 1 .. len[l]
        PROVE  arr'[l][m].id \in issued[l]
    <3>1. CASE l = k /\ m = n
      BY <3>1, <1>2, <1>7 DEF BrokerInv, IdInv, o
    <3>2. CASE l = k /\ m # n
      BY <3>2, <1>8 DEF BrokerInv, IdInv
    <3>3. CASE l # k
      BY <3>3, <1>7 DEF BrokerInv, IdInv
    <3> QED
      BY <3>1, <3>2, <3>3
  <2>3. ASSUME NEW l \in Kind, NEW m \in 1 .. len[l], NEW j \in 1 .. len[l], m # j,
               ~ShiftedAt(l, m)', ~ShiftedAt(l, j)'
        PROVE  arr'[l][m].id # arr'[l][j].id
    <3>1. CASE l # k
      <4>1. ~ShiftedAt(l, m) /\ ~ShiftedAt(l, j) /\ arr'[l] = arr[l]
        BY <3>1, <1>7 DEF ShiftedAt, k
      <4> QED
        BY <2>3, <4>1 DEF BrokerInv, IdInv
    <3>2. CASE l = k
      <4>1. \A a, b \in 1 .. len[k] : a # b /\ a # n /\ b # n => arr[k][a].id # arr[k][b].id
        BY <1>1 DEF BrokerInv, IdInv, ShiftedAt, k, n
      <4>2. m # n + 1 /\ j # n + 1
        BY <2>3, <3>2, <1>5 DEF ShiftedAt
      <4>3. CASE m = n
        BY <2>3, <3>2, <4>1, <4>2, <4>3, <1>2, <1>7, <1>8 DEF o
      <4>4. CASE j = n
        BY <2>3, <3>2, <4>1, <4>2, <4>4, <1>2, <1>7, <1>8 DEF o
      <4>5. CASE m # n /\ j # n
        BY <2>3, <3>2, <4>1, <4>5, <1>8
      <4> QED
        BY <4>3, <4>4, <4>5
    <3> QED
      BY <3>1, <3>2
  <2> QED
    BY <2>1, <2>2, <2>3, <1>4 DEF IdInv
<1>12. DeletionInv'
  <2>1. n + 1 <= len[k] /\ arr'[k][n + 1] = arr'[k][n + 1 - 1] /\ n + 1 > 1
    BY <1>1, <1>2, <1>7, <1>8 DEF o
  <2>2. \A m \in 1 .. len[k] : m # n + 1 => arr'[k][m].id # deletion.obj.id
    BY <1>1, <1>2, <1>7, <1>8 DEF o
  <2> QED
    BY <2>1, <2>2, <1>1, <1>4, <1>5 DEF DeletionInv
<1>13. o # Zero
  BY <1>3, NilAssumption
<1>14. ASSUME NEW d \in Client, scan[d] # None
       PROVE  /\ View(scan[d]) \in Seq(Slot) /\ Len(View(scan[d]))' = Len(View(scan[d]))
              /\ \A m \in 1 .. Len(View(scan[d])) :
                   \/ View(scan[d])'[m] = View(scan[d])[m]
                   \/ /\ scan[d].kind = k /\ (scan[d].live \/ scan[d].arr = None) /\ m = n
                      /\ View(scan[d])'[m] = o /\ View(scan[d])[m] = arr[k][n]
  <2>1. /\ scan[d] \in ReaderSet /\ scan'[d].kind = scan[d].kind
        /\ scan'[d].live = scan[d].live /\ scan'[d].arr = scan[d].arr
    BY <1>4, <1>14 DEF BrokerInv, OtherInv
  <2> QED
    BY <2>1, <1>1, <1>2, <1>6, ViewWritten
<1>15. HalfInv'
  <2> SUFFICES ASSUME NEW d \in Client, scan[d] # None, scan[d].half # Zero
               PROVE  Inside(scan[d])'
    BY <1>4 DEF HalfInv, Inside
  <2>1. Inside(scan[d]) /\ scan[d].at \in Nat \ {0} /\ scan'[d] = scan[d]
    BY <1>4, ReaderOf, ReaderFields
  <2>2. scan[d].at \in 1 .. Len(View(scan[d])) /\ View(scan[d])[scan[d].at] # Zero
    BY <2>1, <1>14 DEF Inside
  <2>3. View(scan[d])'[scan[d].at] # Zero
    BY <2>2, <1>13, <1>14
  <2> QED
    BY <2>1, <2>2, <2>3, <1>14 DEF Inside
<1>16. ReaderInv'
  <2> SUFFICES ASSUME NEW d \in Client, scan[d] # None, scan[d].calm
               PROVE  Good(scan[d])'
    BY <1>4 DEF ReaderInv
  <2>1. /\ Good(scan[d]) /\ scan[d].start \in Seq(Object) /\ scan[d].kind \in Kind
        /\ scan'[d] = scan[d]
    BY <1>4, ReaderOf, ReaderFields
  <2>2. scan[d].live \/ scan[d].arr = None \/ scan[d].len = -1 => scan[d].kind # k
    BY <2>1 DEF Good, Bounded, k
  <2>3. Len(scan[d].start) <= Len(View(scan[d]))
    BY <2>1 DEF Good, Coherent
  <2>4. ASSUME NEW m \in 1 .. Len(scan[d].start)
        PROVE  View(scan[d])'[m] = View(scan[d])[m]
    <3>1. m \in 1 .. Len(View(scan[d]))
      BY <2>1, <2>3, <1>14
    <3> QED
      BY <2>2, <3>1, <1>14
  <2>5. Len(View(scan[d]))' >= Len(scan[d].start)
    BY <1>14, <2>1, <2>3
  <2>6. /\ scan[d].live \/ scan[d].arr = None \/ scan[d].len = -1 =>
             /\ len'[scan[d].kind] >= len[scan[d].kind]
             /\ deletion' # None => deletion'.kind # scan[d].kind
        /\ len \in [Kind -> Nat] /\ len' \in [Kind -> Nat]
    BY <1>4, <1>5, <2>1, <2>2 DEF BrokerInv, SliceInv
  <2> QED
    BY <2>1, <2>4, <2>5, <2>6, ViewKeeps DEF SameReading
<1> QED
  BY <1>9, <1>10, <1>11, <1>12, <1>15, <1>16 DEF BrokerInv

LEMMA ShortenKeeps ==
  ASSUME BrokerInv, deletion # None, Shorten(deletion.kind, deletion.at)
  PROVE  BrokerInv'
<1> DEFINE k == deletion.kind  n == deletion.at
<1>1. /\ k \in Kind /\ n \in Nat /\ n > 0 /\ n = len[k] /\ len \in [Kind -> Nat]
      /\ len[k] <= Len(arr[k])
  BY DEF BrokerInv, DeletionInv, SliceInv, Shorten, Deletion
<1>2. /\ len' = [len EXCEPT ![k] = len[k] - 1] /\ deletion' = None /\ status' = "OK"
      /\ UNCHANGED <<arr, nextID, issued, allocations, scan>>
  BY DEF Shorten, Return
<1>3. /\ len' \in [Kind -> Nat] /\ len'[k] = n - 1 /\ \A l \in Kind \ {k} : len'[l] = len[l]
  BY <1>1, <1>2
<1>4. \A l \in Kind : len'[l] <= len[l] /\ 1 .. len'[l] \subseteq 1 .. len[l]
  BY <1>1, <1>3
<1>5. SliceInv'
  <2>1. \A l \in Kind : len'[l] <= Len(arr[l])
    BY <1>3, <1>4 DEF BrokerInv, SliceInv
  <2> QED
    BY <2>1, <1>2, <1>3, <1>4 DEF BrokerInv, SliceInv
<1>6. OtherInv' /\ DeletionInv'
  BY <1>2 DEF BrokerInv, OtherInv, DeletionInv
<1>7. IdInv'
  <2>1. \A l \in Kind : len'[l] <= nextID
    BY <1>1, <1>3, <1>4 DEF BrokerInv, IdInv, OtherInv
  <2>2. \A l \in Kind : \A m \in 1 .. len'[l] : ~ShiftedAt(l, m)
    BY <1>1, <1>3 DEF ShiftedAt, k, n
  <2> QED
    BY <2>1, <2>2, <1>2, <1>4 DEF BrokerInv, IdInv
<1> HIDE DEF k, n
<1>8. HalfInv'
  BY <1>2 DEF BrokerInv, HalfInv, Inside, View
<1>9. ReaderInv'
  <2> SUFFICES ASSUME NEW d \in Client, scan[d] # None, scan[d].calm PROVE Good(scan[d])'
    BY <1>2 DEF ReaderInv
  <2>1. Good(scan[d]) /\ scan[d].kind \in Kind /\ scan'[d] = scan[d]
    BY <1>2, ReaderOf, ReaderFields
  <2>2. View(scan[d])' = View(scan[d])
    BY <1>2 DEF View
  <2>3. Len(View(scan[d]))' >= Len(scan[d].start)
    BY <2>1, <2>2, ReaderOf, ReaderFields DEF Good, Coherent
  <2>4. scan[d].live \/ scan[d].arr = None \/ scan[d].len = -1 => scan[d].kind # k
    BY <2>1 DEF Good, Bounded, k
  <2>5. scan[d].live \/ scan[d].arr = None \/ scan[d].len = -1 =>
          /\ len'[scan[d].kind] >= len[scan[d].kind]
          /\ deletion' # None => deletion'.kind # scan[d].kind
    BY <1>1, <1>2, <1>3, <2>1, <2>4
  <2> QED
    BY <2>1, <2>2, <2>3, <2>5, <1>1, <1>3, ViewKeeps DEF SameReading
<1> QED
  BY <1>5, <1>6, <1>7, <1>8, <1>9 DEF BrokerInv

\* What append does to the array and to those who read it.
LEMMA Stored ==
  ASSUME BrokerInv, NEW k \in Kind, Store(k), nextID < MaxID
  PROVE  LET o == [id |-> nextID, content |-> [w \in Word |-> 0]] IN
         /\ o \in Object /\ arr' \in [Kind -> Seq(Slot)]
         /\ \A l \in Kind \ {k} : arr'[l] = arr[l]
         /\ len[k] + 1 <= Len(arr'[k]) /\ arr'[k][len[k] + 1] = o
         /\ \A m \in 1 .. len[k] : arr'[k][m] = arr[k][m]
         /\ scan' \in [Client -> ReaderSet \cup {None}]
         /\ \A d \in Client : scan'[d] # None =>
              /\ scan[d] # None /\ scan[d] \in ReaderSet
              /\ SameReading(scan[d], scan'[d])
              /\ scan'[d].live \/ scan'[d].arr = None => scan[d].live \/ scan[d].arr = None
              /\ scan[d].arr # None => scan'[d].arr # None
              /\ Len(View(scan[d]))' >= Len(View(scan[d]))
              /\ \A m \in 1 .. Len(View(scan[d])) :
                   \/ View(scan[d])'[m] = View(scan[d])[m]
                   \/ /\ scan[d].kind = k /\ (scan[d].live \/ scan[d].arr = None)
                      /\ m = len[k] + 1 /\ View(scan[d])'[m] = o
<1> DEFINE o == [id |-> nextID, content |-> [w \in Word |-> 0]]
<1>1. o \in Object /\ o \in Slot
  BY BoundsAssumption DEF BrokerInv, OtherInv, Object, Content, Slot
<1>2. /\ SliceInv /\ arr[k] \in Seq(Slot) /\ len[k] \in Nat /\ len[k] <= Len(arr[k])
      /\ arr \in [Kind -> Seq(Slot)] /\ scan \in [Client -> ReaderSet \cup {None}]
  BY DEF BrokerInv, SliceInv, OtherInv
<1> HIDE DEF o
<1>3. CASE len[k] < Len(arr[k]) /\ Written(k, len[k] + 1, o) /\ scan' = scan
  <2>1. len[k] + 1 \in 1 .. Len(arr[k])
    BY <1>2, <1>3
  <2>2. /\ arr' \in [Kind -> Seq(Slot)] /\ \A l \in Kind \ {k} : arr'[l] = arr[l]
        /\ Len(arr'[k]) = Len(arr[k]) /\ arr'[k][len[k] + 1] = o
        /\ \A m \in 1 .. Len(arr[k]) : m # len[k] + 1 => arr'[k][m] = arr[k][m]
    BY <1>1, <1>2, <1>3, <2>1, ArrayWritten
  <2>3. /\ len[k] + 1 <= Len(arr'[k]) /\ \A m \in 1 .. len[k] : arr'[k][m] = arr[k][m]
    BY <1>2, <2>1, <2>2
  <2>4. ASSUME NEW d \in Client, scan[d] # None
        PROVE  /\ Len(View(scan[d]))' >= Len(View(scan[d]))
               /\ \A m \in 1 .. Len(View(scan[d])) :
                    \/ View(scan[d])'[m] = View(scan[d])[m]
                    \/ /\ scan[d].kind = k /\ (scan[d].live \/ scan[d].arr = None)
                       /\ m = len[k] + 1 /\ View(scan[d])'[m] = o
    <3>1. /\ scan[d] \in ReaderSet /\ scan'[d].kind = scan[d].kind
          /\ scan'[d].live = scan[d].live /\ scan'[d].arr = scan[d].arr
      BY <1>2, <1>3, <2>4
    <3>2. /\ View(scan[d]) \in Seq(Slot) /\ Len(View(scan[d]))' = Len(View(scan[d]))
          /\ \A m \in 1 .. Len(View(scan[d])) :
               \/ View(scan[d])'[m] = View(scan[d])[m]
               \/ /\ scan[d].kind = k /\ (scan[d].live \/ scan[d].arr = None) /\ m = len[k] + 1
                  /\ View(scan[d])'[m] = o /\ View(scan[d])[m] = arr[k][len[k] + 1]
      BY <1>1, <1>2, <1>3, <2>1, <3>1, ViewWritten
    <3> QED
      BY <3>2
  <2>5. \A d \in Client : scan'[d] = scan[d] /\ (scan[d] # None => scan[d] \in ReaderSet)
    BY <1>2, <1>3
  <2> QED
    BY <1>1, <1>2, <1>3, <2>2, <2>3, <2>4, <2>5 DEF o, SameReading
<1>4. ASSUME len[k] = Len(arr[k]), NEW spare \in 0 .. MaxSpare,
             arr' = [arr EXCEPT ![k] = Append(@, o) \o [n \in 1 .. spare |-> Zero]],
             scan' = Detached(k)
      PROVE  /\ arr' \in [Kind -> Seq(Slot)]
             /\ \A l \in Kind \ {k} : arr'[l] = arr[l]
             /\ len[k] + 1 <= Len(arr'[k]) /\ arr'[k][len[k] + 1] = o
             /\ \A m \in 1 .. len[k] : arr'[k][m] = arr[k][m]
             /\ scan' \in [Client -> ReaderSet \cup {None}]
             /\ \A d \in Client : scan'[d] # None =>
                  /\ scan[d] # None /\ scan[d] \in ReaderSet
                  /\ SameReading(scan[d], scan'[d])
                  /\ scan'[d].live \/ scan'[d].arr = None => scan[d].live \/ scan[d].arr = None
                  /\ scan[d].arr # None => scan'[d].arr # None
                  /\ Len(View(scan[d]))' >= Len(View(scan[d]))
                  /\ \A m \in 1 .. Len(View(scan[d])) : View(scan[d])'[m] = View(scan[d])[m]
  <2> DEFINE a == arr[k]  b == Grown(a, o, spare)
  <2>1. /\ b \in Seq(Slot) /\ Len(b) = Len(a) + 1 + spare /\ spare \in Nat
        /\ (\A m \in 1 .. Len(a) : b[m] = a[m]) /\ b[Len(a) + 1] = o
    <3>1. spare \in Nat
      BY BoundsAssumption
    <3>2. a \in Seq(Slot) /\ o \in Slot
      BY <1>1, <1>2
    <3> HIDE DEF a, o
    <3>3. /\ b \in Seq(Slot) /\ Len(b) = Len(a) + 1 + spare
          /\ \A m \in 1 .. Len(a) : b[m] = a[m]
          /\ b[Len(a) + 1] = o
      BY <3>1, <3>2, Grow
    <3> QED
      BY <3>1, <3>3
  <2>2. /\ arr'[k] = b /\ \A l \in Kind \ {k} : arr'[l] = arr[l]
        /\ a \in Seq(Slot) /\ Len(a) = len[k]
    BY <1>2, <1>4 DEF Grown
  <2> HIDE DEF b
  <2>3. arr' \in [Kind -> Seq(Slot)]
    BY <1>2, <1>4, <2>1, <2>2 DEF b, Grown
  <2>4. /\ len[k] + 1 <= Len(arr'[k]) /\ arr'[k][len[k] + 1] = o
        /\ \A m \in 1 .. len[k] : arr'[k][m] = arr[k][m]
    BY <1>2, <2>1, <2>2
  <2>5. ASSUME NEW d \in Client, scan'[d] # None
        PROVE  /\ scan[d] # None /\ scan[d] \in ReaderSet /\ scan'[d] \in ReaderSet
               /\ SameReading(scan[d], scan'[d])
               /\ scan'[d].live \/ scan'[d].arr = None => scan[d].live \/ scan[d].arr = None
               /\ scan[d].arr # None => scan'[d].arr # None
               /\ Len(View(scan[d]))' >= Len(View(scan[d]))
               /\ \A m \in 1 .. Len(View(scan[d])) : View(scan[d])'[m] = View(scan[d])[m]
    <3> DEFINE s == scan[d]  t == scan'[d]
    <3>1. CASE Reads(d, k) /\ s.live
      <4>1. t = [s EXCEPT !.live = FALSE, !.arr = a] /\ s # None /\ s.kind = k
        BY <1>4, <3>1 DEF Detached, Reads
      <4>2. s \in ReaderSet /\ View(s) = a
        BY <1>2, <3>1, <4>1 DEF View
      <4> HIDE DEF s, t, a
      <4>3. /\ t \in ReaderSet /\ t.kind = s.kind /\ t.id = s.id /\ t.live = FALSE /\ t.arr = a
            /\ t.len = s.len /\ t.at = s.at /\ t.half = s.half /\ t.found = s.found
            /\ t.start = s.start /\ t.current = s.current /\ t.calm = s.calm
        BY <4>1, <4>2, <2>2 DEF ReaderSet
      <4>4. a # None
        BY <2>2, NilAssumption DEF Slot
      <4>5. View(scan[d])' = a
        BY <4>3, <4>4 DEF View, t
      <4>6. Len(a) \in Nat
        BY <2>2
      <4> QED
        BY <3>1, <4>1, <4>2, <4>3, <4>4, <4>5, <4>6 DEF s, t, SameReading
    <3>2. CASE ~(Reads(d, k) /\ s.live)
      <4>1. t = s
        BY <1>4, <3>2 DEF Detached
      <4>2. s # None /\ s \in ReaderSet
        BY <1>2, <2>5, <4>1
      <4>3. s.kind \in Kind /\ View(s) \in Seq(Slot)
        BY <1>2, <4>2, ReaderFields, ViewTyped
      <4>4. /\ Len(View(scan[d]))' >= Len(View(scan[d]))
            /\ \A m \in 1 .. Len(View(scan[d])) : View(scan[d])'[m] = View(scan[d])[m]
        <5>1. CASE s.live \/ s.arr = None
          <6>1. View(scan[d])' = arr'[s.kind] /\ View(s) = arr[s.kind]
            BY <4>1, <5>1 DEF View
          <6>2. CASE s.kind = k
            <7>1. View(scan[d])' = b /\ View(s) = a
              BY <6>1, <6>2, <2>2
            <7>2. Len(b) >= Len(a)
              BY <2>1, <2>2
            <7> HIDE DEF a
            <7> QED
              BY <7>1, <7>2, <2>1
          <6>3. CASE s.kind # k
            <7>1. View(scan[d])' = View(s)
              BY <6>1, <6>3, <4>3, <2>2
            <7> QED
              BY <7>1, <4>3
          <6> QED
            BY <6>2, <6>3
        <5>2. CASE ~(s.live \/ s.arr = None)
          <6>1. View(scan[d])' = View(s)
            BY <4>1, <5>2 DEF View
          <6> QED
            BY <6>1, <4>3
        <5> QED
          BY <5>1, <5>2
      <4> QED
        BY <4>1, <4>2, <4>4 DEF SameReading
    <3> QED
      BY <3>1, <3>2
  <2>6. scan' \in [Client -> ReaderSet \cup {None}]
    <3>1. scan' = [d \in Client |-> scan'[d]]
      BY <1>4 DEF Detached
    <3> QED
      BY <2>5, <3>1
  <2> QED
    BY <2>2, <2>3, <2>4, <2>5, <2>6
<1>5. CASE len[k] = Len(arr[k])
  <2>0. ~(len[k] < Len(arr[k]))
    BY <1>2, <1>5
  <2>1. PICK spare \in 0 .. MaxSpare :
          /\ arr' = [arr EXCEPT ![k] = Append(@, o) \o [n \in 1 .. spare |-> Zero]]
          /\ scan' = Detached(k)
    BY <2>0 DEF Store, o
  <2> QED
    BY <1>1, <1>4, <1>5, <2>1 DEF o
<1> QED
  BY <1>3, <1>5 DEF Store, Written, o

LEMMA CreateKeeps ==
  ASSUME BrokerInv, NEW c \in Client, NEW k \in Kind, Create(c, k)
  PROVE  BrokerInv'
<1> DEFINE o == [id |-> nextID, content |-> [w \in Word |-> 0]]
<1>1. /\ Store(k) /\ nextID < MaxID /\ deletion = None /\ len' = [len EXCEPT ![k] = len[k] + 1]
      /\ status' = "OK" /\ UNCHANGED <<allocations, deletion>>
      /\ nextID' = nextID + 1 /\ issued' = [issued EXCEPT ![k] = issued[k] \cup {nextID}]
  BY DEF Create, Locked, Store, Return
<1>2. /\ o \in Object /\ arr' \in [Kind -> Seq(Slot)]
      /\ \A l \in Kind \ {k} : arr'[l] = arr[l]
      /\ len[k] + 1 <= Len(arr'[k]) /\ arr'[k][len[k] + 1] = o
      /\ \A m \in 1 .. len[k] : arr'[k][m] = arr[k][m]
      /\ scan' \in [Client -> ReaderSet \cup {None}]
  BY <1>1, Stored
<1>3. ASSUME NEW d \in Client, scan'[d] # None
      PROVE  /\ scan[d] # None /\ scan[d] \in ReaderSet
             /\ SameReading(scan[d], scan'[d])
             /\ scan'[d].live \/ scan'[d].arr = None => scan[d].live \/ scan[d].arr = None
             /\ scan[d].arr # None => scan'[d].arr # None
             /\ Len(View(scan[d]))' >= Len(View(scan[d]))
             /\ \A m \in 1 .. Len(View(scan[d])) :
                  \/ View(scan[d])'[m] = View(scan[d])[m]
                  \/ /\ scan[d].kind = k /\ (scan[d].live \/ scan[d].arr = None)
                     /\ m = len[k] + 1 /\ View(scan[d])'[m] = o
  BY <1>1, <1>3, Stored
<1>4. /\ len \in [Kind -> Nat] /\ nextID \in 0 .. MaxID /\ MaxID \in Nat
      /\ issued \in [Kind -> SUBSET (0 .. MaxID - 1)]
  BY BoundsAssumption DEF BrokerInv, SliceInv, OtherInv
<1>5. /\ o.id = nextID /\ o # Zero
  BY <1>2, NilAssumption
<1> HIDE DEF o
<1>6. /\ len' \in [Kind -> Nat] /\ len'[k] = len[k] + 1 /\ \A l \in Kind \ {k} : len'[l] = len[l]
      /\ issued' \in [Kind -> SUBSET (0 .. MaxID - 1)] /\ issued'[k] = issued[k] \cup {nextID}
      /\ \A l \in Kind \ {k} : issued'[l] = issued[l]
      /\ nextID' \in 0 .. MaxID
  BY <1>1, <1>4
<1>7. ASSUME NEW l \in Kind, NEW m \in 1 .. len'[l]
      PROVE  \/ m \in 1 .. len[l] /\ arr'[l][m] = arr[l][m]
             \/ l = k /\ m = len[k] + 1 /\ arr'[l][m] = o
  <2>1. CASE l # k
    BY <2>1, <1>2, <1>6
  <2>2. CASE l = k
    <3>1. m \in 1 .. len[k] \/ m = len[k] + 1
      BY <2>2, <1>4, <1>6
    <3> QED
      BY <2>2, <3>1, <1>2
  <2> QED
    BY <2>1, <2>2
<1>8. SliceInv'
  <2>1. ASSUME NEW l \in Kind PROVE len'[l] <= Len(arr'[l])
    <3>1. CASE l = k
      BY <3>1, <1>2, <1>6
    <3>2. CASE l # k
      BY <3>2, <1>2, <1>6 DEF BrokerInv, SliceInv
    <3> QED
      BY <3>1, <3>2
  <2>2. \A l \in Kind : \A m \in 1 .. len'[l] : arr'[l][m] \in Object
    BY <1>2, <1>7 DEF BrokerInv, SliceInv
  <2> QED
    BY <2>1, <2>2, <1>2, <1>6 DEF SliceInv
<1>9. OtherInv'
  BY <1>1, <1>2, <1>6 DEF BrokerInv, OtherInv
<1>10. IdInv'
  <2>1. /\ \A l \in Kind : len[l] <= nextID
        /\ \A l \in Kind : \A i \in issued[l] : i < nextID
        /\ \A l \in Kind : \A m \in 1 .. len[l] : arr[l][m].id \in issued[l]
        /\ \A l \in Kind : \A m, j \in 1 .. len[l] : m # j => arr[l][m].id # arr[l][j].id
    BY <1>1 DEF BrokerInv, IdInv, ShiftedAt
  <2>2. ASSUME NEW l \in Kind
        PROVE  /\ len'[l] <= nextID' /\ issued[l] \subseteq issued'[l]
               /\ \A i \in issued'[l] : i < nextID'
    <3>1. len[l] \in Nat /\ issued[l] \in SUBSET (0 .. MaxID - 1)
      BY <1>4
    <3>2. CASE l = k
      BY <2>1, <3>1, <3>2, <1>1, <1>4, <1>6
    <3>3. CASE l # k
      BY <2>1, <3>1, <3>3, <1>1, <1>4, <1>6
    <3> QED
      BY <3>2, <3>3
  <2>3. \A l \in Kind : \A m \in 1 .. len'[l] : arr'[l][m].id \in issued'[l]
    BY <2>1, <2>2, <1>5, <1>6, <1>7
  <2>4. ASSUME NEW l \in Kind, NEW m \in 1 .. len'[l], NEW j \in 1 .. len'[l], m # j
        PROVE  arr'[l][m].id # arr'[l][j].id
    <3>1. \A n \in 1 .. len[l] : arr[l][n].id # nextID
      <4> TAKE n \in 1 .. len[l]
      <4>1. arr[l][n].id \in issued[l] /\ issued[l] \in SUBSET (0 .. MaxID - 1)
        BY <2>1, <1>4
      <4>2. arr[l][n].id < nextID /\ arr[l][n].id \in Int
        BY <4>1, <2>1
      <4> QED
        BY <4>2, <1>4
    <3>2. \/ m \in 1 .. len[l] /\ arr'[l][m] = arr[l][m]
          \/ l = k /\ m = len[k] + 1 /\ arr'[l][m] = o
      BY <1>7
    <3>3. \/ j \in 1 .. len[l] /\ arr'[l][j] = arr[l][j]
          \/ l = k /\ j = len[k] + 1 /\ arr'[l][j] = o
      BY <1>7
    <3> QED
      BY <2>1, <2>4, <3>1, <3>2, <3>3, <1>5
  <2> QED
    BY <2>2, <2>3, <2>4 DEF IdInv
<1>11. DeletionInv'
  BY <1>1 DEF DeletionInv
<1>12. HalfInv'
  <2> SUFFICES ASSUME NEW d \in Client, scan'[d] # None, scan'[d].half # Zero
               PROVE  Inside(scan[d])'
    BY DEF HalfInv, Inside
  <2>1. /\ Inside(scan[d]) /\ scan[d].at \in Nat \ {0} /\ View(scan[d]) \in Seq(Slot)
        /\ SameReading(scan[d], scan'[d]) /\ (scan[d].arr # None => scan'[d].arr # None)
    BY <1>3, ReaderOf, ReaderFields
  <2>2. scan[d].at \in 1 .. Len(View(scan[d])) /\ View(scan[d])[scan[d].at] # Zero
    BY <2>1 DEF Inside, SameReading
  <2>3. View(scan[d])'[scan[d].at] # Zero
    BY <2>2, <1>3, <1>5
  <2>4. SliceInv' /\ scan'[d] \in ReaderSet
    BY <1>2, <1>8
  <2>5. View(scan[d])' \in Seq(Slot)
    <3>1. scan'[d].kind \in Kind /\ scan'[d].arr \in {None} \cup Seq(Slot)
      BY <2>4, ReaderFields
    <3> QED
      BY <3>1, <1>2 DEF View
  <2>6. scan[d].at <= Len(View(scan[d]))'
    <3>1. Len(View(scan[d]))' >= Len(View(scan[d]))
      BY <1>3
    <3>2. Len(View(scan[d]))' \in Nat /\ Len(View(scan[d])) \in Nat
      BY <2>1, <2>5
    <3> QED
      BY <2>1, <2>2, <3>1, <3>2
  <2> QED
    BY <2>1, <2>3, <2>6 DEF Inside, SameReading
<1>13. ReaderInv'
  <2> SUFFICES ASSUME NEW d \in Client, scan'[d] # None, scan'[d].calm PROVE Good(scan[d])'
    BY DEF ReaderInv
  <2>1. /\ scan[d] # None /\ scan[d].calm /\ Good(scan[d]) /\ scan[d].start \in Seq(Object)
        /\ scan[d].kind \in Kind /\ View(scan[d]) \in Seq(Slot)
    BY <1>3, ReaderOf, ReaderFields DEF SameReading
  <2>2. SameReading(scan[d], scan'[d]) /\ scan'[d].len = scan[d].len
    BY <1>3 DEF SameReading
  <2>3. /\ Len(scan[d].start) <= Len(View(scan[d]))
        /\ scan[d].live \/ scan[d].arr = None => Len(scan[d].start) <= len[scan[d].kind]
    BY <2>1 DEF Good, Coherent, Bounded
  <2>4. ASSUME NEW m \in 1 .. Len(scan[d].start)
        PROVE  View(scan[d])'[m] = View(scan[d])[m]
    <3>1. m \in 1 .. Len(View(scan[d]))
      BY <2>1, <2>3
    <3>2. scan[d].kind = k /\ (scan[d].live \/ scan[d].arr = None) => m # len[k] + 1
      BY <2>1, <2>3, <1>4
    <3> QED
      BY <3>1, <3>2, <1>3
  <2>5. Len(View(scan[d]))' >= Len(scan[d].start)
    <3>1. Len(View(scan[d]))' >= Len(View(scan[d]))
      BY <1>3
    <3>2. scan'[d] \in ReaderSet
      BY <1>2
    <3>3. scan'[d].kind \in Kind /\ scan'[d].arr \in {None} \cup Seq(Slot)
      BY <3>2, ReaderFields
    <3>4. View(scan[d])' \in Seq(Slot)
      BY <3>3, <1>2 DEF View
    <3>5. Len(View(scan[d]))' \in Nat /\ Len(View(scan[d])) \in Nat /\ Len(scan[d].start) \in Nat
      BY <2>1, <3>4
    <3> QED
      BY <2>3, <3>1, <3>5
  <2>6. /\ len'[scan[d].kind] >= len[scan[d].kind] /\ deletion' = None
    BY <1>1, <1>4, <1>6, <2>1
  <2>7. scan'[d].live \/ scan'[d].arr = None => scan[d].live \/ scan[d].arr = None
    BY <1>3
  <2> QED
    BY <2>1, <2>2, <2>4, <2>5, <2>6, <2>7, <1>4, <1>6, ViewKeeps
<1> QED
  BY <1>8, <1>9, <1>10, <1>11, <1>12, <1>13 DEF BrokerInv

LEMMA TableCallKeeps ==
  ASSUME BrokerInv, NEW c \in Client,
         ServiceCall(c) \/ ServerCall(c) \/ PoolCall(c) \/ MonitorCall(c)
  PROVE  BrokerInv'
<1>1. Kind = {"service", "server", "pool", "monitor"}
  BY DEF Kind
<1>2. CASE ServiceCall(c)
  BY <1>1, <1>2, CreateKeeps, ListKeeps, ReadKeeps, UpdateKeeps, DeleteKeeps
  DEF ServiceCall, CreateLoadBalancerService, ListLoadBalancerServices, ReadLoadBalancerService,
      UpdateLoadBalancerService, DeleteLoadBalancerService
<1>3. CASE ServerCall(c)
  BY <1>1, <1>3, CreateKeeps, ListKeeps, UpdateKeeps, DeleteKeeps
  DEF ServerCall, CreateLoadBalancerVirtualServer, ListLoadBalancerVirtualServers,
      UpdateLoadBalancerVirtualServer, DeleteLoadBalancerVirtualServer
<1>4. CASE PoolCall(c)
  BY <1>1, <1>4, CreateKeeps, ListKeeps, ReadKeeps, UpdateKeeps, DeleteKeeps
  DEF PoolCall, CreateLoadBalancerPool, ListLoadBalancerPools, ReadLoadBalancerPool,
      UpdateLoadBalancerPool, DeleteLoadBalancerPool
<1>5. CASE MonitorCall(c)
  BY <1>1, <1>5, CreateKeeps, ListKeeps, ReadMonitorKeeps, UpdateKeeps, DeleteKeeps
  DEF MonitorCall, CreateLoadBalancerTCPMonitor, ListLoadBalancerMonitors,
      UpdateLoadBalancerTCPMonitor, DeleteLoadBalancerMonitor
<1> QED
  BY <1>2, <1>3, <1>4, <1>5

LEMMA BrokerNext == BrokerInv /\ [Next]_vars => BrokerInv'
<1> SUFFICES ASSUME BrokerInv, [Next]_vars PROVE BrokerInv'
  OBVIOUS
<1>1. ASSUME NEW c \in Client,
             ServiceCall(c) \/ ServerCall(c) \/ PoolCall(c) \/ MonitorCall(c) \/ IPPoolCall(c)
               \/ Reading(c)
      PROVE  BrokerInv'
  BY <1>1, TableCallKeeps, IPPoolCallKeeps, ReadingKeeps
<1>2. CASE DeleteStep
  BY <1>2, ShiftKeeps, ShortenKeeps DEF DeleteStep
<1>3. CASE UNCHANGED vars
  <2>1. UNCHANGED tables /\ UNCHANGED allocations /\ UNCHANGED status
    BY <1>3 DEF vars, tables
  <2> QED
    BY <2>1, QuietKeeps DEF BrokerInv, OtherInv
<1> QED
  BY <1>1, <1>2, <1>3 DEF Next

-----------------------------------------------------------------------------
(***************************************************************************)
(* What readers find                                                       *)
(***************************************************************************)

\* BrokerInv holds in every state of nsxt_broker_inmem.go and of those who read its slices.
THEOREM InMemBrokerInvariant == Spec => []BrokerInv
BY BrokerInit, BrokerNext, PTL DEF Spec

\* The variables of the in-memory broker have values of their types: a slice is within its
\* array and holds written slots only, and an IP pool allocates only its own addresses.
THEOREM InMemBrokerTypeOK == Spec => []TypeOK
<1>1. BrokerInv => TypeOK
  <2> SUFFICES ASSUME BrokerInv PROVE TypeOK
    OBVIOUS
  <2>1. ASSUME NEW k \in Kind
        PROVE  ToSet(arr[k]) \subseteq Object \cup {Zero} /\ len[k] \in 0 .. Len(arr[k])
    <3>1. arr[k] \in Seq(Slot) /\ len[k] \in Nat /\ len[k] <= Len(arr[k])
      BY DEF BrokerInv, SliceInv
    <3>2. \A n \in DOMAIN arr[k] : arr[k][n] \in Slot
      BY <3>1
    <3> QED
      BY <3>1, <3>2 DEF ToSet, Slot
  <2>2. \A k \in Kind : \A n \in 1 .. len[k] : arr[k][n] # Zero
    BY NilAssumption DEF BrokerInv, SliceInv
  <2> QED
    BY <2>1, <2>2 DEF TypeOK, BrokerInv, OtherInv, DeletionInv
<1> QED
  BY <1>1, InMemBrokerInvariant, PTL

\* What a list finds while others create and update objects, and replace the array under it,
\* is what was there when it was called, for any number of clients and objects.
THEOREM InMemBrokerListExact == Spec => []ListExact
<1>1. BrokerInv => ListExact
  <2> SUFFICES ASSUME BrokerInv, NEW c \in Client, scan[c] # None, scan[c].id = None,
                      scan[c].calm, Complete(scan[c])
               PROVE  /\ Ids(scan[c].found) = Ids(scan[c].start)
                      /\ \A n \in 1 .. Len(scan[c].found) :
                           Had(scan[c], scan[c].start[n].id, scan[c].found[n])
    BY DEF ListExact
  <2> DEFINE s == scan[c]
  <2>1. s \in ReaderSet /\ Good(s)
    BY ReaderOf
  <2>2. s.start \in Seq(Object) /\ s.found \in Seq(Object) /\ s.at \in Nat \ {0}
    BY <2>1, ReaderFields
  <2>3. /\ s.len = Len(s.start) /\ s.at <= Len(s.start) + 1 /\ Len(s.found) = s.at - 1
        /\ \A n \in 1 .. Len(s.found) : Had(s, s.start[n].id, s.found[n])
    BY <2>1 DEF Good, Bounded, Listed
  <2>4. s.at > s.len
    BY DEF Complete
  <2> HIDE DEF s
  <2>5. Len(s.found) = Len(s.start)
    BY <2>2, <2>3, <2>4
  <2>6. Ids(s.found) = Ids(s.start)
    BY <2>2, <2>3, <2>5 DEF Ids, Had
  <2> QED
    BY <2>3, <2>6 DEF s
<1> QED
  BY <1>1, InMemBrokerInvariant, PTL

\* ReadLoadBalancerTCPMonitor finds the monitor, and never leaves its array, with whatever
\* array and length it has read, unless a monitor is deleted meanwhile.
THEOREM InMemBrokerMonitorFound == Spec => []MonitorFound
<1>1. BrokerInv => MonitorFound
  <2> SUFFICES ASSUME BrokerInv, NEW c \in Client, scan[c] # None, scan[c].calm,
                      scan[c].id \in {o.id : o \in ToSet(scan[c].start)}
               PROVE  /\ AtElement(c) => scan[c].at <= Len(ArrayOf(c))
                      /\ Complete(scan[c]) /\ scan[c].arr # None =>
                           Len(scan[c].found) = 1 /\ Had(scan[c], scan[c].id, scan[c].found[1])
    BY DEF MonitorFound
  <2> DEFINE s == scan[c]  A == View(s)
  <2>1. s \in ReaderSet /\ Good(s) /\ A \in Seq(Slot) /\ (s.arr # None => ArrayOf(c) = A)
    BY ReaderOf
  <2>2. s.start \in Seq(Object) /\ s.found \in Seq(Object) /\ s.at \in Nat \ {0}
          /\ s.len \in Nat \cup {-1}
    BY <2>1, ReaderFields
  <2>3. PICK n \in 1 .. Len(s.start) : s.start[n].id = s.id
    BY <2>2 DEF ToSet
  <2>4. s.id # None
    <3>1. s.start[n] \in Object
      BY <2>2
    <3>2. s.id \in 0 .. MaxID - 1
      BY <2>3, <3>1 DEF Object
    <3> QED
      BY <3>2, NilAssumption
  <2>5. Len(s.start) <= Len(A) /\ (s.len # -1 => s.len >= Len(s.start))
    BY <2>1 DEF Good, Coherent, Bounded
  <2>6. CASE s.found = <<>> /\ s.at <= Len(s.start)
    <3>1. AtElement(c) => s.at <= Len(ArrayOf(c))
      BY <2>1, <2>2, <2>5, <2>6 DEF AtElement
    <3>2. ~Complete(s)
      BY <2>2, <2>5, <2>6 DEF Complete
    <3> QED
      BY <3>1, <3>2
  <2>7. CASE Len(s.found) = 1 /\ Had(s, s.id, s.found[1])
    <3>1. ~AtElement(c)
      BY <2>2, <2>4, <2>7 DEF AtElement, Complete
    <3> QED
      BY <2>7, <3>1
  <2> QED
    BY <2>1, <2>3, <2>4, <2>6, <2>7 DEF Good, Searched
<1> QED
  BY <1>1, InMemBrokerInvariant, PTL

-----------------------------------------------------------------------------
(***************************************************************************)
(* The operations under the lock keep the promise of NsxtBroker            *)
(***************************************************************************)

\* The variables of ObjectStore, as Promise maps them.
ObjectsOf ==
  [k \in Kind |-> ToSet(Table(k)) \cup
     IF deletion # None /\ deletion.kind = k THEN {deletion.obj} ELSE {}]
IssuedAll == UNION {issued[k] : k \in Kind}
promised == <<ObjectsOf, IssuedAll, allocations, status>>

\* The objects of kind k, by position.
Present(k) ==
  {arr[k][n] : n \in 1 .. len[k]} \cup
    IF deletion # None /\ deletion.kind = k THEN {deletion.obj} ELSE {}

LEMMA ObjectsPresent == BrokerInv => ObjectsOf = [k \in Kind |-> Present(k)]
BY TableOf DEF BrokerInv, ObjectsOf, Present

LEMMA ObjectsPresentNext == BrokerInv' => ObjectsOf' = [k \in Kind |-> Present(k)']
<1>1. (BrokerInv => ObjectsOf = [k \in Kind |-> Present(k)])'
  BY ObjectsPresent, PTL
<1> QED
  BY <1>1

\* Steps that leave the tables alone leave the objects alone.
LEMMA SameObjects ==
  ASSUME UNCHANGED <<arr, len, issued, deletion>>
  PROVE  ObjectsOf' = ObjectsOf /\ IssuedAll' = IssuedAll
BY DEF ObjectsOf, IssuedAll, Table

LEMMA CreateRefines ==
  ASSUME BrokerInv, BrokerInv', NEW c \in Client, NEW k \in Kind, Create(c, k)
  PROVE  Promise!Create(k)
<1> DEFINE o == [id |-> nextID, content |-> [w \in Word |-> 0]]
<1>1. /\ Store(k) /\ nextID < MaxID /\ deletion = None /\ len' = [len EXCEPT ![k] = len[k] + 1]
      /\ status' = "OK" /\ UNCHANGED <<allocations, deletion>>
      /\ issued' = [issued EXCEPT ![k] = issued[k] \cup {nextID}]
  BY DEF Create, Locked, Store, Return
<1>2. /\ \A l \in Kind \ {k} : arr'[l] = arr[l]
      /\ arr'[k][len[k] + 1] = o
      /\ \A m \in 1 .. len[k] : arr'[k][m] = arr[k][m]
  BY <1>1, Stored
<1>3. len \in [Kind -> Nat] /\ len[k] \in Nat /\ len'[k] = len[k] + 1
        /\ \A l \in Kind \ {k} : len'[l] = len[l]
  BY <1>1 DEF BrokerInv, SliceInv
<1>4. /\ nextID \in (0 .. MaxID - 1) \ IssuedAll /\ [w \in Word |-> 0] \in Content
      /\ IssuedAll' = IssuedAll \cup {nextID}
  <2>1. nextID \in 0 .. MaxID - 1 /\ [w \in Word |-> 0] \in Content
    BY <1>1, BoundsAssumption DEF BrokerInv, OtherInv, Content
  <2>2. \A l \in Kind : nextID \notin issued[l]
    <3> TAKE l \in Kind
    <3>1. issued[l] \in SUBSET (0 .. MaxID - 1) /\ \A i \in issued[l] : i < nextID
      BY DEF BrokerInv, OtherInv, IdInv
    <3> QED
      BY <2>1, <3>1
  <2>3. IssuedAll' = IssuedAll \cup {nextID}
    BY <1>1 DEF BrokerInv, OtherInv, IssuedAll
  <2> QED
    BY <2>1, <2>2, <2>3 DEF IssuedAll
<1> HIDE DEF o
<1>5. Present(k)' = Present(k) \cup {o}
  <2>1. Present(k) = {arr[k][n] : n \in 1 .. len[k]}
          /\ Present(k)' = {arr'[k][n] : n \in 1 .. len'[k]}
    BY <1>1 DEF Present
  <2>2. 1 .. len'[k] = (1 .. len[k]) \cup {len[k] + 1}
    BY <1>3
  <2> QED
    BY <1>2, <2>1, <2>2
<1>6. \A l \in Kind \ {k} : Present(l)' = Present(l)
  BY <1>1, <1>2, <1>3 DEF Present
<1>7. ObjectsOf' = [ObjectsOf EXCEPT ![k] = @ \cup {o}]
  BY <1>5, <1>6, ObjectsPresent, ObjectsPresentNext
<1> QED
  BY <1>1, <1>4, <1>7 DEF Promise!Create, ObjectsOf, IssuedAll, o

LEMMA ReadRefines ==
  ASSUME BrokerInv, NEW c \in Client, NEW k \in Kind, NEW i \in issued[k], Read(c, k, i)
  PROVE  Promise!Read(k, i)
<1>1. /\ deletion = None /\ status' = (IF Index(k, i) # {} THEN "OK" ELSE "NotFound")
      /\ UNCHANGED <<arr, len, issued, deletion, allocations>>
  BY DEF Read, Locked, Return
<1>2. ObjectsOf[k] = {arr[k][n] : n \in 1 .. len[k]}
  BY <1>1, ObjectsPresent DEF Present
<1>3. Index(k, i) # {} <=> \E o \in ObjectsOf[k] : o.id = i
  BY <1>2 DEF Index
<1>4. ObjectsOf' = ObjectsOf /\ IssuedAll' = IssuedAll
  BY <1>1, SameObjects
<1> QED
  BY <1>1, <1>3, <1>4 DEF Promise!Read, ObjectsOf, IssuedAll

LEMMA UpdateRefines ==
  ASSUME BrokerInv, BrokerInv', NEW c \in Client, NEW k \in Kind, NEW i \in issued[k],
         Update(c, k, i)
  PROVE  Promise!Update(k, i)
<1>1. deletion = None /\ UNCHANGED <<len, nextID, issued, allocations, deletion>>
  BY DEF Update, Locked
<1>2. ObjectsOf[k] = {arr[k][n] : n \in 1 .. len[k]} /\ IssuedAll' = IssuedAll
  BY <1>1, ObjectsPresent DEF Present, IssuedAll
<1>3. CASE Index(k, i) = {}
  <2>1. UNCHANGED arr /\ status' = "NotFound"
    BY <1>3 DEF Update, Return
  <2>2. ObjectsOf' = ObjectsOf
    BY <1>1, <2>1, SameObjects
  <2>3. \A o \in ObjectsOf[k] : o.id # i
    BY <1>2, <1>3 DEF Index
  <2> QED
    BY <1>1, <1>2, <2>1, <2>2, <2>3 DEF Promise!Update, ObjectsOf, IssuedAll
<1>4. CASE Index(k, i) # {}
  <2>1. PICK n \in Index(k, i) :
          LET o == [arr[k][n] EXCEPT !.content = [w \in Word |-> @[w] + 1]] IN
          o \in Object /\ arr' = [arr EXCEPT ![k][n] = o] /\ status' = "OK"
    BY <1>4 DEF Update, Replace, Return
  <2> DEFINE p == arr[k][n]  v == [w \in Word |-> p.content[w] + 1]  o == [p EXCEPT !.content = v]
  <2>2. /\ n \in 1 .. len[k] /\ p.id = i /\ p \in Object /\ n \in 1 .. Len(arr[k])
        /\ len[k] \in Nat /\ len[k] <= Len(arr[k])
    BY DEF Index, BrokerInv, SliceInv
  <2>3. o \in Object /\ Written(k, n, o) /\ status' = "OK"
    BY <2>1 DEF Written
  <2> HIDE DEF p
  <2>4. o.id = i /\ v \in Content
    BY <2>2, <2>3 DEF Object
  <2> HIDE DEF o
  <2>5. /\ \A l \in Kind \ {k} : arr'[l] = arr[l]
        /\ arr'[k][n] = o /\ \A m \in 1 .. len[k] : m # n => arr'[k][m] = arr[k][m]
    <3>1. SliceInv /\ o \in Slot
      BY <2>3 DEF BrokerInv, Slot
    <3>2. /\ \A l \in Kind \ {k} : arr'[l] = arr[l]
          /\ arr'[k][n] = o /\ \A m \in 1 .. Len(arr[k]) : m # n => arr'[k][m] = arr[k][m]
      BY <2>2, <2>3, <3>1, ArrayWritten
    <3> QED
      BY <2>2, <3>2
  <2>6. /\ Present(k) = {arr[k][m] : m \in 1 .. len[k]}
        /\ Present(k)' = {arr'[k][m] : m \in 1 .. len[k]}
    BY <1>1 DEF Present
  <2>7. \A m \in 1 .. len[k] : m # n => arr[k][m] # p
    <3>1. \A m \in 1 .. len[k] : m # n => arr[k][m].id # arr[k][n].id
      BY <1>1, <2>2 DEF BrokerInv, IdInv, ShiftedAt
    <3> QED
      BY <3>1 DEF p
  <2>8. Present(k)' = (Present(k) \ {p}) \cup {o}
    BY <2>2, <2>5, <2>6, <2>7 DEF p
  <2>9. \A l \in Kind \ {k} : Present(l)' = Present(l)
    BY <1>1, <2>5 DEF Present
  <2>10. ObjectsOf' = [ObjectsOf EXCEPT ![k] = (@ \ {p}) \cup {o}]
    BY <2>8, <2>9, ObjectsPresent, ObjectsPresentNext
  <2>11. p \in ObjectsOf[k]
    BY <1>2, <2>2 DEF p
  <2> QED
    BY <1>1, <1>2, <2>2, <2>3, <2>4, <2>10, <2>11 DEF Promise!Update, ObjectsOf, IssuedAll, o
<1> QED
  BY <1>3, <1>4

\* The start of a deletion changes nothing yet.
LEMMA DeleteRefines ==
  ASSUME BrokerInv, BrokerInv', NEW c \in Client, NEW k \in Kind, NEW i \in issued[k],
         Delete(c, k, i)
  PROVE  Promise!Delete(k, i) \/ UNCHANGED promised
<1>1. /\ deletion = None /\ UNCHANGED <<arr, len, nextID, issued, allocations>>
      /\ IssuedAll' = IssuedAll
  BY DEF Delete, Locked, IssuedAll
<1>2. \A l \in Kind : Present(l) = {arr[l][n] : n \in 1 .. len[l]}
  BY <1>1 DEF Present
<1>3. CASE Index(k, i) = {}
  <2>1. UNCHANGED deletion /\ status' = "NotFound"
    BY <1>3 DEF Delete, Return
  <2>2. ObjectsOf' = ObjectsOf
    BY <1>1, <2>1, SameObjects
  <2>3. \A o \in ObjectsOf[k] : o.id # i
    BY <1>2, <1>3, ObjectsPresent DEF Index
  <2> QED
    BY <1>1, <2>1, <2>2, <2>3 DEF Promise!Delete, ObjectsOf, IssuedAll
<1>4. CASE Index(k, i) # {}
  <2>1. PICK n \in Index(k, i) :
          /\ deletion' = [client |-> c, kind |-> k, at |-> n, obj |-> arr[k][n]]
          /\ UNCHANGED status
    BY <1>4 DEF Delete
  <2>2. n \in 1 .. len[k] /\ deletion'.kind = k /\ deletion'.obj = arr[k][n]
    BY <2>1 DEF Index
  <2>3. \A l \in Kind : Present(l)' = Present(l)
    BY <1>1, <1>2, <2>2 DEF Present
  <2>4. ObjectsOf' = ObjectsOf
    BY <2>3, ObjectsPresent, ObjectsPresentNext
  <2> QED
    BY <1>1, <2>1, <2>4 DEF promised
<1> QED
  BY <1>3, <1>4

\* Moving the elements down changes nothing either, as the object that is overwritten is the
\* one that is deleted, or is in the table twice.
LEMMA ShiftRefines ==
  ASSUME BrokerInv, BrokerInv', deletion # None, Shift(deletion.kind, deletion.at)
  PROVE  UNCHANGED promised
<1>0. PICK k \in Kind : k = deletion.kind
  BY DEF BrokerInv, DeletionInv, Deletion
<1> DEFINE n == deletion.at  o == arr[k][n + 1]  x == deletion.obj
<1>1. /\ k \in Kind /\ n \in Nat /\ n > 0 /\ n < len[k] /\ len[k] \in Nat /\ len[k] <= Len(arr[k])
      /\ arr[k][n] = x \/ (n > 1 /\ arr[k][n] = arr[k][n - 1])
  BY <1>0 DEF BrokerInv, DeletionInv, SliceInv, Shift, Deletion
<1>2. /\ n \in 1 .. Len(arr[k]) /\ n \in 1 .. len[k] /\ n + 1 \in 1 .. len[k]
      /\ n > 1 => n - 1 \in 1 .. len[k]
  BY <1>1
<1>3. /\ arr' = [arr EXCEPT ![k][n] = o] /\ deletion' = [deletion EXCEPT !.at = n + 1]
      /\ UNCHANGED <<len, nextID, issued, allocations, scan, status>>
  BY <1>0 DEF Shift
<1>4. deletion'.kind = k /\ deletion'.obj = x /\ deletion' # None
  <2>1. deletion \in Deletion /\ n + 1 \in 1 .. MaxID
    BY <1>1, BoundsAssumption DEF BrokerInv, DeletionInv, IdInv, OtherInv
  <2> QED
    BY <1>0, <1>3, <2>1, NilAssumption DEF Deletion
<1>5. o \in Slot /\ SliceInv /\ Written(k, n, o)
  BY <1>1, <1>2, <1>3 DEF BrokerInv, SliceInv, Slot, Written
<1>6. /\ \A l \in Kind \ {k} : Present(l) = {arr[l][m] : m \in 1 .. len[l]}
                                 /\ Present(l)' = {arr'[l][m] : m \in 1 .. len[l]}
      /\ Present(k) = {arr[k][m] : m \in 1 .. len[k]} \cup {x}
      /\ Present(k)' = {arr'[k][m] : m \in 1 .. len[k]} \cup {x}
  BY <1>0, <1>3, <1>4 DEF Present
<1> HIDE DEF n, o, x
<1>7. /\ \A l \in Kind \ {k} : arr'[l] = arr[l]
      /\ arr'[k][n] = o /\ \A m \in 1 .. len[k] : m # n => arr'[k][m] = arr[k][m]
  <2>1. /\ \A l \in Kind \ {k} : arr'[l] = arr[l]
        /\ arr'[k][n] = o /\ \A m \in 1 .. Len(arr[k]) : m # n => arr'[k][m] = arr[k][m]
    BY <1>1, <1>2, <1>5, ArrayWritten
  <2> QED
    BY <1>1, <2>1
<1>8. Present(k)' = Present(k)
  <2> DEFINE S == {arr[k][m] : m \in 1 .. len[k]} \cup {x}
             T == {arr'[k][m] : m \in 1 .. len[k]} \cup {x}
  <2>1. ASSUME NEW m \in 1 .. len[k] PROVE arr[k][m] \in T
    <3>1. CASE m # n
      BY <3>1, <1>7
    <3>2. CASE m = n /\ arr[k][n] = x
      BY <3>2
    <3>3. CASE m = n /\ n > 1 /\ arr[k][n] = arr[k][n - 1]
      <4>1. n - 1 \in 1 .. len[k] /\ n - 1 # n
        BY <3>3, <1>1, <1>2
      <4>2. arr'[k][n - 1] = arr[k][n - 1]
        BY <4>1, <1>7
      <4> QED
        BY <3>3, <4>1, <4>2
    <3> QED
      BY <3>1, <3>2, <3>3, <1>1
  <2>2. ASSUME NEW m \in 1 .. len[k] PROVE arr'[k][m] \in S
    <3>1. CASE m # n
      BY <3>1, <1>7
    <3>2. CASE m = n
      BY <3>2, <1>2, <1>7 DEF o
    <3> QED
      BY <3>1, <3>2
  <2>3. S = T
    BY <2>1, <2>2
  <2> QED
    BY <2>3, <1>6
<1>9. \A l \in Kind : Present(l)' = Present(l)
  <2>1. ASSUME NEW l \in Kind PROVE Present(l)' = Present(l)
    <3>1. CASE l = k
      BY <3>1, <1>8
    <3>2. CASE l # k
      <4>1. /\ Present(l) = {arr[l][m] : m \in 1 .. len[l]}
            /\ Present(l)' = {arr'[l][m] : m \in 1 .. len[l]}
        BY <3>2, <1>6
      <4>2. arr'[l] = arr[l]
        BY <3>2, <1>7
      <4> QED
        BY <4>1, <4>2
    <3> QED
      BY <3>1, <3>2
  <2> QED
    BY <2>1
<1>10. ObjectsOf' = ObjectsOf
  BY <1>9, ObjectsPresent, ObjectsPresentNext
<1> QED
  BY <1>3, <1>10 DEF promised, IssuedAll

\* The object is gone when the slice becomes shorter.
LEMMA ShortenRefines ==
  ASSUME BrokerInv, BrokerInv', deletion # None, Shorten(deletion.kind, deletion.at)
  PROVE  \E k \in Kind, i \in 0 .. MaxID - 1 : Promise!Delete(k, i)
<1>0. PICK k \in Kind, n \in 1 .. MaxID, x \in Object :
        k = deletion.kind /\ n = deletion.at /\ x = deletion.obj
  BY DEF BrokerInv, DeletionInv, Deletion
<1>1. /\ k \in Kind /\ n \in Nat /\ n > 0 /\ n = len[k] /\ len \in [Kind -> Nat]
      /\ x \in Object /\ x.id \in 0 .. MaxID - 1
      /\ arr[k][n] = x \/ (n > 1 /\ arr[k][n] = arr[k][n - 1])
      /\ \A m \in 1 .. len[k] : m # n => arr[k][m].id # x.id
  <2>1. x.id \in 0 .. MaxID - 1
    BY <1>0 DEF Object
  <2>2. n = len[k] /\ len \in [Kind -> Nat]
    BY <1>0 DEF BrokerInv, SliceInv, Shorten
  <2>3. /\ arr[k][n] = x \/ (n > 1 /\ arr[k][n] = arr[k][n - 1])
        /\ \A m \in 1 .. len[k] : m # n => arr[k][m].id # x.id
    BY <1>0 DEF BrokerInv, DeletionInv
  <2>4. n \in Nat /\ n > 0
    BY <1>0, BoundsAssumption
  <2> QED
    BY <1>0, <2>1, <2>2, <2>3, <2>4
<1>2. /\ len' = [len EXCEPT ![k] = len[k] - 1] /\ deletion' = None /\ status' = "OK"
      /\ UNCHANGED <<arr, nextID, issued, allocations, scan>>
  BY <1>0 DEF Shorten, Return
<1>3. len'[k] = n - 1 /\ \A l \in Kind \ {k} : len'[l] = len[l]
  BY <1>1, <1>2
<1>4. /\ \A l \in Kind \ {k} : Present(l)' = Present(l)
      /\ Present(k) = {arr[k][m] : m \in 1 .. n} \cup {x}
      /\ Present(k)' = {arr[k][m] : m \in 1 .. n - 1}
  <2>1. ASSUME NEW l \in Kind \ {k} PROVE Present(l)' = Present(l)
    <3>1. len'[l] = len[l] /\ arr' = arr /\ l # k
      BY <1>2, <1>3
    <3> QED
      BY <1>0, <1>2, <3>1 DEF Present
  <2>2. Present(k) = {arr[k][m] : m \in 1 .. n} \cup {x}
    BY <1>0, <1>1 DEF Present
  <2>3. Present(k)' = {arr[k][m] : m \in 1 .. n - 1}
    <3>1. len'[k] = n - 1 /\ arr' = arr /\ deletion' = None
      BY <1>2, <1>3
    <3> QED
      BY <3>1 DEF Present
  <2> QED
    BY <2>1, <2>2, <2>3
<1>5. Present(k)' = Present(k) \ {x}
  <2>1. ASSUME NEW m \in 1 .. n - 1 PROVE m \in 1 .. n /\ arr[k][m] # x
    BY <1>1
  <2>2. ASSUME NEW m \in 1 .. n, arr[k][m] # x PROVE \E j \in 1 .. n - 1 : arr[k][m] = arr[k][j]
    <3>1. CASE m \in 1 .. n - 1
      BY <3>1
    <3>2. CASE m = n
      <4>1. n > 1 /\ arr[k][m] = arr[k][n - 1] /\ n - 1 \in 1 .. n - 1
        BY <2>2, <3>2, <1>1
      <4> QED
        BY <4>1
    <3> QED
      BY <3>1, <3>2, <1>1
  <2> QED
    BY <2>1, <2>2, <1>4
<1>6. ObjectsOf' = [ObjectsOf EXCEPT ![k] = @ \ {x}]
  <2>1. k \in Kind
    BY <1>1
  <2>2. ObjectsOf' = [l \in Kind |-> IF l = k THEN Present(k) \ {x} ELSE Present(l)]
    BY <1>4, <1>5, ObjectsPresentNext
  <2>3. ObjectsOf = [l \in Kind |-> Present(l)]
    BY ObjectsPresent
  <2> QED
    BY <2>1, <2>2, <2>3
<1>7. x \in ObjectsOf[k] /\ IssuedAll' = IssuedAll
  <2>1. ObjectsOf[k] = Present(k)
    BY <1>0, ObjectsPresent
  <2>2. x \in Present(k)
    BY <1>4
  <2>3. IssuedAll' = IssuedAll
    BY <1>2 DEF IssuedAll
  <2> QED
    BY <2>1, <2>2, <2>3
<1>8. Promise!Delete(k, x.id)
  BY <1>2, <1>6, <1>7 DEF Promise!Delete, ObjectsOf, IssuedAll
<1>9. k \in Kind /\ x.id \in 0 .. MaxID - 1
  BY <1>1
<1> QED
  BY <1>8, <1>9

LEMMA IPPoolCallRefines ==
  ASSUME BrokerInv, NEW c \in Client, IPPoolCall(c)
  PROVE  Promise!Next
<1>1. UNCHANGED tables
  BY DEF IPPoolCall, ListIPPools, AllocateFromIPPool, ListIPPoolAllocations, ReleaseFromIPPool
<1>2. ObjectsOf' = ObjectsOf /\ IssuedAll' = IssuedAll
  BY <1>1, SameObjects DEF tables
<1>3. allocations \in [IPPool -> SUBSET (1 .. Size)]
  BY DEF BrokerInv, OtherInv
<1>4. CASE UNCHANGED allocations /\ status' = "OK"
  <2>1. Promise!List
    BY <1>2, <1>4 DEF Promise!List, ObjectsOf, IssuedAll
  <2> QED
    BY <2>1 DEF Promise!Next
<1>5. CASE UNCHANGED allocations /\ status' = "NotFound"
  <2>1. Promise!UnknownPool
    BY <1>2, <1>5 DEF Promise!UnknownPool, ObjectsOf, IssuedAll
  <2> QED
    BY <2>1 DEF Promise!Next
<1>6. ASSUME NEW p \in IPPool, AllocateFromIPPool(c, p) PROVE Promise!Next
  <2>1. CASE Cardinality(allocations[p]) = Size
    <3>1. allocations[p] = 1 .. Size /\ status' = "Full" /\ UNCHANGED allocations
      BY <1>3, <1>6, <2>1, FullPool DEF AllocateFromIPPool, Return
    <3>2. Promise!Allocate(p)
      BY <1>2, <3>1 DEF Promise!Allocate, ObjectsOf, IssuedAll
    <3> QED
      BY <3>2 DEF Promise!Next
  <2>2. CASE Cardinality(allocations[p]) # Size
    <3>1. FreeAddresses(p) # {} /\ FreeAddresses(p) \in SUBSET Nat
      <4>1. FreeAddresses(p) # {}
        BY <1>3, <2>2, FullPool DEF FreeAddresses
      <4>2. FreeAddresses(p) \in SUBSET Nat
        BY SizeAssumption DEF FreeAddresses
      <4> QED
        BY <4>1, <4>2
    <3>2. Min(FreeAddresses(p)) \in (1 .. Size) \ allocations[p]
      BY <3>1, MinIsElement DEF FreeAddresses
    <3>3. /\ allocations' = [allocations EXCEPT ![p] = @ \cup {Min(FreeAddresses(p))}]
          /\ status' = "OK"
      BY <1>6, <2>2 DEF AllocateFromIPPool, Return
    <3>4. Promise!Allocate(p)
      BY <1>2, <3>2, <3>3 DEF Promise!Allocate, ObjectsOf, IssuedAll
    <3> QED
      BY <3>4 DEF Promise!Next
  <2> QED
    BY <2>1, <2>2
<1>7. ASSUME NEW p \in IPPool, NEW a \in 1 .. Size, ReleaseFromIPPool(c, p, a) PROVE Promise!Next
  <2>1. /\ allocations' = [allocations EXCEPT ![p] = @ \ {a}]
        /\ status' = (IF a \in allocations[p] THEN "OK" ELSE "NotFound")
    BY <1>3, <1>7 DEF ReleaseFromIPPool, Return
  <2>2. Promise!Release(p, a)
    BY <1>2, <2>1 DEF Promise!Release, ObjectsOf, IssuedAll
  <2> QED
    BY <2>2 DEF Promise!Next
<1>8. \/ UNCHANGED allocations /\ status' \in {"OK", "NotFound"}
      \/ \E p \in IPPool : AllocateFromIPPool(c, p)
      \/ \E p \in IPPool, a \in 1 .. Size : ReleaseFromIPPool(c, p, a)
  BY DEF IPPoolCall, ListIPPools, AllocateFromIPPool, ListIPPoolAllocations, ReleaseFromIPPool,
     Return
<1> QED
  BY <1>4, <1>5, <1>6, <1>7, <1>8

LEMMA ListRefines ==
  ASSUME NEW c \in Client, NEW k \in Kind, NEW live, List(c, k, live)
  PROVE  Promise!Next
<1>1. UNCHANGED <<arr, len, issued, deletion, allocations>> /\ status' = "OK"
  BY DEF List, Return
<1>2. ObjectsOf' = ObjectsOf /\ IssuedAll' = IssuedAll
  BY <1>1, SameObjects
<1>3. Promise!List
  BY <1>1, <1>2 DEF Promise!List, ObjectsOf, IssuedAll
<1> QED
  BY <1>3 DEF Promise!Next

LEMMA TableCallRefines ==
  ASSUME BrokerInv, BrokerInv', NEW c \in Client,
         ServiceCall(c) \/ ServerCall(c) \/ PoolCall(c) \/ MonitorCall(c)
  PROVE  Promise!Next \/ UNCHANGED promised
<1>1. ASSUME NEW k \in Kind, Create(c, k) PROVE Promise!Next
  BY <1>1, CreateRefines DEF Promise!Next
<1>2. ASSUME NEW k \in Kind, NEW i \in issued[k],
             Read(c, k, i) \/ Update(c, k, i) \/ Delete(c, k, i)
      PROVE  Promise!Next \/ UNCHANGED promised
  <2>1. i \in 0 .. MaxID - 1
    BY DEF BrokerInv, OtherInv
  <2>2. Promise!Read(k, i) \/ Promise!Update(k, i) \/ Promise!Delete(k, i) \/ UNCHANGED promised
    BY <1>2, ReadRefines, UpdateRefines, DeleteRefines
  <2> QED
    BY <2>1, <2>2 DEF Promise!Next
<1>3. ASSUME NEW i, ReadLoadBalancerTCPMonitor(c, i) PROVE UNCHANGED promised
  <2>1. UNCHANGED <<arr, len, issued, deletion, allocations, status>>
    BY <1>3 DEF ReadLoadBalancerTCPMonitor, Advance
  <2> QED
    BY <2>1, SameObjects DEF promised
<1>4. Kind = {"service", "server", "pool", "monitor"}
  BY DEF Kind
<1>5. CASE ServiceCall(c)
  BY <1>1, <1>2, <1>4, <1>5, ListRefines
  DEF ServiceCall, CreateLoadBalancerService, ListLoadBalancerServices, ReadLoadBalancerService,
      UpdateLoadBalancerService, DeleteLoadBalancerService
<1>6. CASE ServerCall(c)
  BY <1>1, <1>2, <1>4, <1>6, ListRefines
  DEF ServerCall, CreateLoadBalancerVirtualServer, ListLoadBalancerVirtualServers,
      UpdateLoadBalancerVirtualServer, DeleteLoadBalancerVirtualServer
<1>7. CASE PoolCall(c)
  BY <1>1, <1>2, <1>4, <1>7, ListRefines
  DEF PoolCall, CreateLoadBalancerPool, ListLoadBalancerPools, ReadLoadBalancerPool,
      UpdateLoadBalancerPool, DeleteLoadBalancerPool
<1>8. CASE MonitorCall(c)
  BY <1>1, <1>2, <1>3, <1>4, <1>8, ListRefines
  DEF MonitorCall, CreateLoadBalancerTCPMonitor, ListLoadBalancerMonitors,
      UpdateLoadBalancerTCPMonitor, DeleteLoadBalancerMonitor
<1> QED
  BY <1>5, <1>6, <1>7, <1>8

LEMMA StepKeepsPromise == BrokerInv /\ BrokerInv' /\ [Next]_vars => [Promise!Next]_promised
<1> SUFFICES ASSUME BrokerInv, BrokerInv', [Next]_vars PROVE Promise!Next \/ UNCHANGED promised
  OBVIOUS
<1>1. ASSUME NEW c \in Client,
             ServiceCall(c) \/ ServerCall(c) \/ PoolCall(c) \/ MonitorCall(c) \/ IPPoolCall(c)
      PROVE  Promise!Next \/ UNCHANGED promised
  BY <1>1, TableCallRefines, IPPoolCallRefines
<1>2. ASSUME NEW c \in Client, Reading(c) PROVE UNCHANGED promised
  <2>1. UNCHANGED <<arr, len, issued, deletion, allocations, status>>
    BY <1>2 DEF Reading, ReadHalf, ReadWord, ReadRest, ReadOtherWord, ReadBeyond, EndScan, Advance
  <2> QED
    BY <2>1, SameObjects DEF promised
<1>3. CASE DeleteStep
  BY <1>3, ShiftRefines, ShortenRefines DEF DeleteStep, Promise!Next
<1>4. CASE UNCHANGED vars
  BY <1>4, SameObjects DEF vars, promised
<1> QED
  BY <1>1, <1>2, <1>3, <1>4 DEF Next

LEMMA InitKeepsPromise == Init => Promise!Init
<1> SUFFICES ASSUME Init PROVE Promise!Init
  OBVIOUS
<1>1. BrokerInv
  BY BrokerInit
<1>2. ObjectsOf = [k \in Kind |-> {}]
  BY <1>1, ObjectsPresent DEF Init, Present
<1>3. IssuedAll = {}
  BY DEF Init, IssuedAll
<1> QED
  BY <1>2, <1>3 DEF Init, Promise!Init, ObjectsOf, IssuedAll

\* Although a deletion moves the elements one by one, and slices are read without the lock,
\* what the operations do is what NsxtBroker promises, one atomic step each: ids are never used
\* twice, a deleted object is gone when the call returns, no object vanishes or appears
\* otherwise, and allocating an address fails only if the pool is full.
THEOREM InMemBrokerKeepsPromise == Spec => PromiseKept
<1>1. Spec => [][Promise!Next]_promised
  BY InMemBrokerInvariant, StepKeepsPromise, PTL DEF Spec
<1>2. [][Promise!Next]_promised => [][Promise!Next]_(Promise!vars)
  BY PTL DEF promised, Promise!vars, ObjectsOf, IssuedAll
<1>3. Spec => Promise!Init
  BY InitKeepsPromise DEF Spec
<1> QED
  BY <1>1, <1>2, <1>3, PTL DEF PromiseKept, Promise!Spec
=============================================================================
