----------------------------- MODULE InMemBroker -----------------------------
(***************************************************************************)
(* The in-memory broker (nsxt_broker_inmem.go), which stands for NSX-T in  *)
(* the simulation mode and in the tests.                                   *)
(*                                                                         *)
(* A table is a Go slice: an array with a capacity, and a length.  Every   *)
(* operation holds the lock of the broker, but the lists of services,      *)
(* servers and pools return the broker's own slice, which the caller reads *)
(* after the lock is released, and ReadLoadBalancerTCPMonitor reads the    *)
(* slice without the lock.  Such a reader races with the writes: it copies *)
(* an element word by word, and a struct that is written meanwhile may     *)
(* reach it as a mixture of old and new words.  An array that append has   *)
(* replaced is never written again: its readers go on with a copy.         *)
(*                                                                         *)
(* Abstractions: an object is its id and the words of its content, and an  *)
(* update writes new values to all of them.  An id is read at once: an     *)
(* update writes the same string again, and nothing is said of a reader    *)
(* whose array is shifted.  Memory is sequentially consistent.  A caller   *)
(* reads what it listed before its next call.                              *)
(***************************************************************************)
EXTENDS Integers, Sequences, FiniteSetsExt, SequencesExt

CONSTANTS
  Client,             \* the goroutines that call
  IPPool,             \* the ids of the IP pools the broker is created with
  OtherIPPool,        \* the id of an IP pool there is none for
  Size,               \* the number of addresses of an IP pool
  Zero,               \* a slot that was never written
  None,               \* nil
  Word,               \* the words of the content of an object
  MaxID, MaxVersion,  \* bounds: objects that are created, updates of an object,
  MaxSpare,           \* spare slots of a new array,
  MaxTables, MaxReaders   \* tables and IP pools in use, clients that read at the same time

ASSUME SizeAssumption == Size \in Nat \ {0}
ASSUME BoundsAssumption ==
  /\ MaxID \in Nat /\ MaxVersion \in Nat /\ MaxSpare \in Nat
  /\ MaxTables \in Nat /\ MaxReaders \in Nat
ASSUME PoolAssumption == OtherIPPool \notin IPPool

Content == [Word -> 0 .. MaxVersion]
Object == [id : 0 .. MaxID - 1, content : Content]
Kind == {"service", "server", "pool", "monitor"}
Deletion == [client : Client, kind : Kind, at : 1 .. MaxID, obj : Object]

ASSUME NilAssumption ==
  /\ Zero \notin Object /\ None \notin 0 .. MaxID - 1
  /\ None \notin Seq(Object \cup {Zero}) /\ None \notin Deletion

VARIABLES
  arr,          \* for each kind the array behind the slice, to its capacity
  len,          \* for each kind the length of the slice
  nextID,
  issued,       \* for each kind the ids of the objects that were created: callers know these
  allocations,  \* for each IP pool the addresses that are allocated
  deletion,     \* the deletion that holds the lock: who, where, and what
  scan,         \* for each client the slice it reads
  status        \* the status of the last call that returned

vars == <<arr, len, nextID, issued, allocations, deletion, scan, status>>

(***************************************************************************)
(* Every variable has a value of its type; in particular an IP pool        *)
(* allocates only addresses from 1 to its size, and the length of a slice  *)
(* never exceeds the capacity of its array.                                *)
(***************************************************************************)
TypeOK ==
  /\ \A k \in Kind : ToSet(arr[k]) \subseteq Object \cup {Zero}
  /\ \A k \in Kind : len[k] \in 0 .. Len(arr[k])
  /\ \A k \in Kind : \A i \in 1 .. len[k] : arr[k][i] # Zero
  /\ nextID \in 0 .. MaxID /\ issued \in [Kind -> SUBSET (0 .. MaxID - 1)]
  /\ allocations \in [IPPool -> SUBSET (1 .. Size)]
  /\ deletion # None => deletion \in Deletion
  /\ DOMAIN scan = Client
  /\ status \in {"OK", "NotFound", "Full"}

\* NewInMemoryNsxtBroker
Init ==
  /\ arr = [k \in Kind |-> <<>>] /\ len = [k \in Kind |-> 0]
  /\ nextID = 0 /\ issued = [k \in Kind |-> {}]
  /\ allocations = [p \in IPPool |-> {}]
  /\ deletion = None
  /\ scan = [c \in Client |-> None]
  /\ status = "OK"

-----------------------------------------------------------------------------
(***************************************************************************)
(* The tables, under the lock                                              *)
(***************************************************************************)

\* Client c calls: it has read what it listed, and gets the lock.
Locked(c) == scan[c] = None /\ deletion = None

Return(s) == status' = s

\* Bounds: the tables and IP pools with x, the clients that read with c.
MayUse(x) ==
  Cardinality({x} \cup {k \in Kind : arr[k] # <<>>} \cup {p \in IPPool : allocations[p] # {}})
    <= MaxTables
MayRead(c) == Cardinality({d \in Client : d = c \/ scan[d] # None}) <= MaxReaders

Table(k) == SubSeq(arr[k], 1, len[k])
Index(k, i) == {n \in 1 .. len[k] : arr[k][n].id = i}

Reads(c, k) == scan[c] # None /\ scan[c].kind = k

\* The readers of the array of kind k keep the array when it is replaced.
Detached(k) ==
  [c \in Client |-> IF Reads(c, k) /\ scan[c].live
                    THEN [scan[c] EXCEPT !.live = FALSE, !.arr = arr[k]] ELSE scan[c]]

\* Mutant of Store: the id is the number of objects.
StoreAtLen(k) ==
  LET o == [id |-> len[k], content |-> [w \in Word |-> 0]] IN
  /\ nextID' = nextID + 1 /\ issued' = [issued EXCEPT ![k] = @ \cup {o.id}]
  /\ \E spare \in 0 .. MaxSpare :
       arr' = [arr EXCEPT ![k] = Append(Table(k), o) \o [n \in 1 .. spare |-> Zero]]
  /\ scan' = Detached(k)

\* append: into the array if there is room, otherwise into a new one.
Store(k) ==
  LET o == [id |-> nextID, content |-> [w \in Word |-> 0]] IN
  /\ nextID' = nextID + 1 /\ issued' = [issued EXCEPT ![k] = @ \cup {o.id}]
  /\ \/ /\ len[k] < Len(arr[k])
        /\ arr' = [arr EXCEPT ![k][len[k] + 1] = o]
        /\ UNCHANGED scan
     \/ /\ len[k] = Len(arr[k])
        /\ \E spare \in 0 .. MaxSpare :
             arr' = [arr EXCEPT ![k] = Append(@, o) \o [n \in 1 .. spare |-> Zero]]
        /\ scan' = Detached(k)

Create(c, k) ==
  /\ Locked(c) /\ nextID < MaxID
  /\ MayUse(k)
  /\ Store(k)
  /\ len' = [len EXCEPT ![k] = @ + 1]
  /\ Return("OK")
  /\ UNCHANGED <<allocations, deletion>>

Read(c, k, i) ==
  /\ Locked(c)
  /\ Return(IF Index(k, i) # {} THEN "OK" ELSE "NotFound")
  /\ UNCHANGED <<arr, len, nextID, issued, allocations, deletion, scan>>

\* The object o is current from now on, also for those who are reading.
Witnessed(k, o) ==
  [c \in Client |-> IF Reads(c, k) /\ scan[c].calm
                    THEN [scan[c] EXCEPT !.current = @ \cup {o}] ELSE scan[c]]

\* Mutant of Replace: the object moves to the front.
MoveToFront(k, n, o) ==
  arr' = [arr EXCEPT ![k] = <<o>> \o RemoveAt(@, n)]

Replace(k, n, o) == arr' = [arr EXCEPT ![k][n] = o]

Update(c, k, i) ==
  /\ Locked(c)
  /\ \/ \E n \in Index(k, i) :
          LET o == [arr[k][n] EXCEPT !.content = [w \in Word |-> @[w] + 1]] IN
          o \in Object /\ Replace(k, n, o) /\ scan' = Witnessed(k, o) /\ Return("OK")
     \/ Index(k, i) = {} /\ Return("NotFound") /\ UNCHANGED <<arr, scan>>
  /\ UNCHANGED <<len, nextID, issued, allocations, deletion>>

\* The array is about to be shifted, for those who read it or are about to.
Disturbed(k) ==
  [c \in Client |-> IF Reads(c, k) /\ (scan[c].live \/ scan[c].arr = None \/ scan[c].len = -1)
                    THEN [scan[c] EXCEPT !.calm = FALSE, !.start = <<>>, !.current = {}]
                    ELSE scan[c]]

Delete(c, k, i) ==
  /\ Locked(c)
  /\ \/ \E n \in Index(k, i) :
          /\ deletion' = [client |-> c, kind |-> k, at |-> n, obj |-> arr[k][n]]
          /\ scan' = Disturbed(k)
          /\ UNCHANGED status
     \/ Index(k, i) = {} /\ Return("NotFound") /\ UNCHANGED <<deletion, scan>>
  /\ UNCHANGED <<arr, len, nextID, issued, allocations>>

\* The next element is moved down by one.
Shift(k, n) ==
  /\ n < len[k]
  /\ arr' = [arr EXCEPT ![k][n] = arr[k][n + 1]]
  /\ deletion' = [deletion EXCEPT !.at = n + 1]
  /\ UNCHANGED <<len, nextID, issued, allocations, scan, status>>

\* The slice becomes shorter; its last element stays in the array.
Shorten(k, n) ==
  /\ n = len[k]
  /\ len' = [len EXCEPT ![k] = @ - 1]
  /\ deletion' = None
  /\ Return("OK")
  /\ UNCHANGED <<arr, nextID, issued, allocations, scan>>

DeleteStep ==
  /\ deletion # None
  /\ \/ Shift(deletion.kind, deletion.at)
     \/ Shorten(deletion.kind, deletion.at)

-----------------------------------------------------------------------------
(***************************************************************************)
(* Reading without the lock                                                *)
(***************************************************************************)

(***************************************************************************)
(* A reader of a slice: what it looks for (an id, or None for all), its    *)
(* array, the length, the position, its copy of the element there and what *)
(* it has found; and what there was when it started, what was current      *)
(* since then, and whether no deletion has touched its array (after one,   *)
(* what a list finds is not recorded).                                     *)
(***************************************************************************)
Reader(k, i, live, a, n) ==
  [kind |-> k, id |-> i, live |-> live, arr |-> a, len |-> n, at |-> 1, half |-> Zero,
   found |-> <<>>, start |-> Table(k), current |-> ToSet(Table(k)),
   calm |-> deletion = None \/ deletion.kind # k]

\* A list: the slice itself, or a copy.
List(c, k, live) ==
  /\ Locked(c) /\ MayRead(c)
  /\ scan' = [scan EXCEPT ![c] = Reader(k, None, live, IF live THEN <<>> ELSE Table(k), len[k])]
  /\ Return("OK")
  /\ UNCHANGED <<arr, len, nextID, issued, allocations, deletion>>

\* The array reader c has.
ArrayOf(c) == IF scan[c].live THEN arr[scan[c].kind] ELSE scan[c].arr

Advance(c, s) ==
  /\ scan' = [scan EXCEPT ![c] = s]
  /\ UNCHANGED <<arr, len, nextID, issued, allocations, deletion, status>>

\* Mutant of Complete: the last element is not looked at.
CompleteEarly(s) == s.len >= 0 /\ (s.at >= s.len \/ (s.id # None /\ s.found # <<>>))

\* The end of the slice, or of the search.
Complete(s) == s.len >= 0 /\ (s.at > s.len \/ (s.id # None /\ s.found # <<>>))

\* Client c is about to read an element.
AtElement(c) ==
  LET s == scan[c] IN s # None /\ s.half = Zero /\ s.arr # None /\ s.len # -1 /\ ~Complete(s)

(***************************************************************************)
(* The element is copied, each word at a time of its own: ReadHalf         *)
(* begins with the words as they are, and ReadWord takes one of them, or   *)
(* the id, as it is later, until ReadRest ends the copy.                   *)
(***************************************************************************)
ReadHalf(c) ==
  /\ AtElement(c)
  /\ scan[c].at <= Len(ArrayOf(c))
  /\ Advance(c, [scan[c] EXCEPT !.half = ArrayOf(c)[scan[c].at]])

ReadWord(c) ==
  LET s == scan[c]  now == ArrayOf(c)[s.at] IN
  /\ s # None /\ s.half # Zero
  /\ \/ \E w \in Word : Advance(c, [s EXCEPT !.half.content[w] = now.content[w]])
     \/ Advance(c, [s EXCEPT !.half.id = now.id])

ReadRest(c) ==
  LET s == scan[c] IN
  /\ s # None /\ s.half # Zero
  /\ Advance(c, [s EXCEPT !.half = Zero, !.at = @ + 1,
                          !.found = IF s.id = s.half.id \/ (s.id = None /\ s.calm)
                                    THEN Append(@, s.half) ELSE @])

\* The reading is over.
EndScan(c) ==
  /\ scan[c] # None /\ scan[c].half = Zero /\ scan[c].arr # None
  /\ Complete(scan[c])
  /\ Advance(c, None)

(***************************************************************************)
(* ReadLoadBalancerTCPMonitor reads the array and the length one after the *)
(* other, in either order: they may be those of two different slices.      *)
(***************************************************************************)
ReadLoadBalancerTCPMonitor(c, i) ==
  /\ MayRead(c) /\ scan[c] = None /\ ~(deletion # None /\ deletion.client = c)
  /\ \/ Advance(c, Reader("monitor", i, TRUE, <<>>, -1))
     \/ Advance(c, Reader("monitor", i, FALSE, None, len["monitor"]))

ReadOtherWord(c) ==
  LET s == scan[c] IN
  /\ s # None
  /\ \/ s.len = -1 /\ Advance(c, [s EXCEPT !.len = len["monitor"]])
     \/ s.arr = None /\ Advance(c, [s EXCEPT !.live = TRUE, !.arr = <<>>])

\* Beyond the end of its array a reader gets whatever is there.
ReadBeyond(c) ==
  /\ AtElement(c)
  /\ scan[c].at > Len(ArrayOf(c))
  /\ Advance(c, None)

-----------------------------------------------------------------------------
(***************************************************************************)
(* The IP pools                                                            *)
(***************************************************************************)
tables == <<arr, len, nextID, issued, deletion, scan>>

\* Mutant of FreeAddresses: the addresses are counted from 0 to size.
FreeFromZero(p) == (0 .. Size) \ allocations[p]

FreeAddresses(p) == (1 .. Size) \ allocations[p]

\* The pool is full, or the first address that is free is taken.
AllocateFromIPPool(c, p) ==
  /\ Locked(c)
  /\ \/ p \notin IPPool /\ Return("NotFound") /\ UNCHANGED allocations
     \/ /\ p \in IPPool /\ Cardinality(allocations[p]) = Size
        /\ Return("Full") /\ UNCHANGED allocations
     \/ /\ p \in IPPool /\ Cardinality(allocations[p]) # Size /\ MayUse(p)
        /\ allocations' = [allocations EXCEPT ![p] = @ \cup {Min(FreeAddresses(p))}]
        /\ Return("OK")
  /\ UNCHANGED tables

ListIPPools(c) == Locked(c) /\ Return("OK") /\ UNCHANGED <<tables, allocations>>

ListIPPoolAllocations(c, p) ==
  /\ Locked(c)
  /\ Return(IF p \in IPPool THEN "OK" ELSE "NotFound")
  /\ UNCHANGED <<tables, allocations>>

ReleaseFromIPPool(c, p, a) ==
  /\ Locked(c)
  /\ \/ /\ p \in IPPool /\ a \in allocations[p]
        /\ allocations' = [allocations EXCEPT ![p] = @ \ {a}]
        /\ Return("OK")
     \/ /\ p \in IPPool => a \notin allocations[p]
        /\ Return("NotFound") /\ UNCHANGED allocations
  /\ UNCHANGED tables

-----------------------------------------------------------------------------
(***************************************************************************)
(* The operations of the broker on its four tables                         *)
(***************************************************************************)
CreateLoadBalancerService(c) == Create(c, "service")
ReadLoadBalancerService(c, i) == Read(c, "service", i)
ListLoadBalancerServices(c) == List(c, "service", TRUE)
UpdateLoadBalancerService(c, i) == Update(c, "service", i)
DeleteLoadBalancerService(c, i) == Delete(c, "service", i)

CreateLoadBalancerVirtualServer(c) == Create(c, "server")
ListLoadBalancerVirtualServers(c) == List(c, "server", TRUE)
UpdateLoadBalancerVirtualServer(c, i) == Update(c, "server", i)
DeleteLoadBalancerVirtualServer(c, i) == Delete(c, "server", i)

CreateLoadBalancerPool(c) == Create(c, "pool")
ReadLoadBalancerPool(c, i) == Read(c, "pool", i)
ListLoadBalancerPools(c) == List(c, "pool", TRUE)
UpdateLoadBalancerPool(c, i) == Update(c, "pool", i)
DeleteLoadBalancerPool(c, i) == Delete(c, "pool", i)

CreateLoadBalancerTCPMonitor(c) == Create(c, "monitor")
ListLoadBalancerMonitors(c) == List(c, "monitor", FALSE)
UpdateLoadBalancerTCPMonitor(c, i) == Update(c, "monitor", i)
DeleteLoadBalancerMonitor(c, i) == Delete(c, "monitor", i)

ServiceCall(c) ==
  \/ CreateLoadBalancerService(c) \/ ListLoadBalancerServices(c)
  \/ \E i \in issued["service"] :
       ReadLoadBalancerService(c, i) \/ UpdateLoadBalancerService(c, i)
         \/ DeleteLoadBalancerService(c, i)

ServerCall(c) ==
  \/ CreateLoadBalancerVirtualServer(c) \/ ListLoadBalancerVirtualServers(c)
  \/ \E i \in issued["server"] :
       UpdateLoadBalancerVirtualServer(c, i) \/ DeleteLoadBalancerVirtualServer(c, i)

PoolCall(c) ==
  \/ CreateLoadBalancerPool(c) \/ ListLoadBalancerPools(c)
  \/ \E i \in issued["pool"] :
       ReadLoadBalancerPool(c, i) \/ UpdateLoadBalancerPool(c, i) \/ DeleteLoadBalancerPool(c, i)

MonitorCall(c) ==
  \/ CreateLoadBalancerTCPMonitor(c) \/ ListLoadBalancerMonitors(c)
  \/ \E i \in issued["monitor"] :
       ReadLoadBalancerTCPMonitor(c, i) \/ UpdateLoadBalancerTCPMonitor(c, i)
         \/ DeleteLoadBalancerMonitor(c, i)

IPPoolCall(c) ==
  \/ ListIPPools(c)
  \/ \E p \in IPPool \cup {OtherIPPool} :
       \/ AllocateFromIPPool(c, p) \/ ListIPPoolAllocations(c, p)
       \/ \E a \in 1 .. Size : ReleaseFromIPPool(c, p, a)

Reading(c) ==
  \/ ReadHalf(c) \/ ReadWord(c) \/ ReadRest(c)
  \/ ReadOtherWord(c) \/ ReadBeyond(c) \/ EndScan(c)

Next ==
  \/ \E c \in Client :
       ServiceCall(c) \/ ServerCall(c) \/ PoolCall(c) \/ MonitorCall(c) \/ IPPoolCall(c)
         \/ Reading(c)
  \/ DeleteStep

Spec == Init /\ [][Next]_vars

-----------------------------------------------------------------------------
Ids(seq) == [n \in 1 .. Len(seq) |-> seq[n].id]

\* Object i had every word of o while s was reading, though perhaps not at the same time.
Had(s, i, o) ==
  /\ o.id = i
  /\ \A w \in Word : \E u \in s.current : u.id = i /\ u.content[w] = o.content[w]

(***************************************************************************)
(* Although the callers of a list read the broker's slice after the lock   *)
(* is released, while others create and update objects, they find every    *)
(* object that was there when they called, once and in the order of        *)
(* creation, and every word of it is one that this object had meanwhile:   *)
(* an object that is not updated is read as it is, one that is updated may *)
(* be a mixture of its versions, but of no other object.  A deletion of an *)
(* object of the same kind disturbs even this: it shifts the array under   *)
(* the reader.                                                             *)
(***************************************************************************)
ListExact ==
  \A c \in Client :
    LET s == scan[c] IN
    s # None /\ s.id = None /\ s.calm /\ Complete(s) =>
      /\ Ids(s.found) = Ids(s.start)
      /\ \A n \in 1 .. Len(s.found) : Had(s, s.start[n].id, s.found[n])

(***************************************************************************)
(* A TCP monitor that exists while it is read is found, although           *)
(* ReadLoadBalancerTCPMonitor does not take the lock and may have the      *)
(* array of one slice and the length of another, unless a monitor is       *)
(* deleted meanwhile; the search ends before the end of its array.  What   *)
(* is returned is made of words that this monitor had meanwhile.           *)
(***************************************************************************)
MonitorFound ==
  \A c \in Client :
    LET s == scan[c] IN
    s # None /\ s.calm /\ s.id \in {o.id : o \in ToSet(s.start)} =>
      /\ AtElement(c) => s.at <= Len(ArrayOf(c))
      /\ Complete(s) /\ s.arr # None => Len(s.found) = 1 /\ Had(s, s.id, s.found[1])

(***************************************************************************)
(* What the operations that hold the lock do is what NsxtBroker promises:  *)
(* one atomic step each, on objects whose ids are never used twice; an     *)
(* object is gone when its deletion returns, and allocating an address     *)
(* fails only if the pool is full ("should never be reached" is not).      *)
(***************************************************************************)
Promise ==
  INSTANCE ObjectStore WITH
    Id <- 0 .. MaxID - 1,
    Address <- 1 .. Size,
    objects <- [k \in Kind |-> ToSet(Table(k)) \cup
                  IF deletion # None /\ deletion.kind = k THEN {deletion.obj} ELSE {}],
    issued <- UNION {issued[k] : k \in Kind}
PromiseKept == Promise!Spec
=============================================================================
