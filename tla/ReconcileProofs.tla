--------------------------- MODULE ReconcileProofs ---------------------------
(***************************************************************************)
(* Proofs that EnsureLoadBalancer, EnsureLoadBalancerDeleted and           *)
(* UpdateLoadBalancer bring NSX-T in line with their arguments, for any    *)
(* number of services, ports, nodes, goroutines, failures and crashes:     *)
(* SnapshotCoherent, RefIntegrity, OkMeansExact, DetachedFirst and         *)
(* AddressStable.  The last part is about the IP pools: AddressHeld,       *)
(* AddressExclusive and NoLeakedAddress.                                   *)
(*                                                                         *)
(* The first need one another: Process decides from lists it read at the   *)
(* start, so what it creates, keeps and deletes is right only because the  *)
(* lists are not stale; they are not stale because identifiers are unique  *)
(* and nobody else works on the service; a pool is deleted safely only     *)
(* because no virtual server refers to it.  Good is the conjunction, with  *)
(* what has been achieved at each place of the code, that is inductive.    *)
(***************************************************************************)
EXTENDS LoadBalancerProofs, FiniteSetTheorems

-----------------------------------------------------------------------------
(***************************************************************************)
(* The inductive invariant.  S, L and M are the virtual servers, pools and *)
(* TCP monitors of one service in NSX-T; l, e, c, x and k are the place,   *)
(* the error, the call, the state and the loop variables of one goroutine. *)
(***************************************************************************)

\* Identifiers are unique, none is nil, and all are older than n.
Keyed(X, n) == (\A x \in X : x.id \in 1 .. n - 1) /\ (\A x, y \in X : x.id = y.id => x = y)

OnePerPort(X) == \A x, y \in X : x.port = y.port => x = y

\* What NSX-T has for a service at any time, whatever has failed.
Consistent(S, L, M) ==
  /\ OnePerPort(S) /\ OnePerPort(L) /\ OnePerPort(M)
  /\ \A v \in S : \E l \in L : l.id = v.pool /\ l.port = v.port
  /\ \A l \in L : l.monitor # NoId => \E m \in M : m.id = l.monitor /\ m.port = l.port
  /\ \A v, w \in S : v.ip = w.ip

\* The monitor i, the pool i, and all objects for port q are as call c wants them.
MonitorDone(c, M, q, i) ==
  IF q \in TCP THEN \E m \in M : m.id = i /\ m.port = q /\ m.nodePort = c.nodePort
  ELSE i = NoId
PoolDone(c, L, M, q, i) ==
  \E l \in L : l.id = i /\ l.port = q /\ l.members = c.nodes /\ MonitorDone(c, M, q, l.monitor)
PortDone(c, S, L, M, q) ==
  \E v \in S : v.port = q /\ v.nodePort = c.nodePort /\ PoolDone(c, L, M, q, v.pool)
Done(c, S, L, M, Q) == \A q \in Q : PortDone(c, S, L, M, q)

\* A virtual server of the service uses the pool, as ValidPools wants it.
Used(c, S, l) == l.port \in c.ports /\ \E v \in S : v.port \in c.ports /\ v.pool = l.id

\* NSX-T has what call c wants, with address a, and nothing else.
Exact(c, a, S, L, M) ==
  /\ Done(c, S, L, M, c.ports)
  /\ \A v \in S : v.port \in c.ports /\ v.ip = a
  /\ \A l \in L : l.port \in c.ports
  /\ \A m \in M : m.port \in c.ports \cap TCP

\* Places of EnsureLoadBalancer, and places that are not reached after an error.
Ensuring == AfterServers \cup {"findServers", "isAllocated", "release", "rollback"}
Updating == {"updateFind", "updatePools"}
Quiet == (AfterServers \ {"finish"}) \cup Updating \cup {"idle", "lock", "findServers"}

\* The lists read are what NSX-T has.
Snapshot(l, x, S, L, M) ==
  /\ l \in AfterServers => x.servers = S
  /\ l \in AfterPools \cup {"updatePools"} => x.pools = L
  /\ l \in AfterMonitors => x.monitors = M

\* What has been achieved so far.
Progress(l, c, x, k, S, L, M) ==
  /\ l \in AfterMonitors => \A v \in S : v.ip = x.ip
  /\ l \in {"ports", "attach"} => Done(c, S, L, M, c.ports \ k.todo)
  /\ l \in {"monitor", "pool", "server", "createServer"} =>
       Done(c, S, L, M, c.ports \ (k.todo \cup {k.port}))
  /\ l = "monitor" => k.port \in TCP
  /\ l = "pool" => MonitorDone(c, M, k.port, k.monitor)
  /\ l \in {"server", "createServer"} => PoolDone(c, L, M, k.port, k.pool)
  /\ l = "createServer" => Matching(S, k.port) = {}
  /\ l \in {"orphanServers", "deleteServer", "orphanPools", "orphanMonitors"} =>
       Done(c, S, L, M, c.ports)
  /\ l = "deleteServer" => \A v \in S : v.id = k.server => v.port \notin c.ports
  /\ l \in {"orphanPools", "orphanMonitors"} => \A v \in S : v.port \in c.ports
  /\ l = "orphanMonitors" => \A y \in L : Used(c, S, y)
  /\ l \in {"finish", "isAllocated", "release"} => Exact(c, x.ip, S, L, M)
  /\ l = "unlock" => IF c.op = "update"
                     THEN \A y \in L : y.port \in c.ports => y.members = c.nodes
                     ELSE Exact(c, x.ip, S, L, M)

At(l, e, c, x, k, S, L, M) ==
  /\ l \in Quiet => e = "none"
  /\ l = "rollback" => e # "none"
  /\ l \in Ensuring => c.op # "update"
  /\ l \in Updating => c.op = "update"
  /\ l \in {"attach", "rollback", "deleteServer"} => \E v \in S : v.id = k.server
  /\ e = "none" => Snapshot(l, x, S, L, M) /\ Progress(l, c, x, k, S, L, M)

KeysInv == Keyed(servers, nextId) /\ Keyed(pools, nextId) /\ Keyed(monitors, nextId)
DataInv == \A s \in Svc : Consistent(Of(servers, s), Of(pools, s), Of(monitors, s))
GoroutineAt(p) ==
  At(pc[p], err[p], call[p], st[p], cur[p], Of(servers, call[p].svc),
     Of(pools, call[p].svc), Of(monitors, call[p].svc))
Good == KeysInv /\ DataInv /\ \A p \in Proc : GoroutineAt(p)

\* The load balancer service does not refer to the virtual server that is about to be
\* deleted, if removeVirtualServerFromLoadBalancerService can find it.
AttachInv ==
  RouterGiven => \A p \in Proc : pc[p] = "deleteServer" => cur[p].server \notin attached

\* The new dangling references are those of goroutines that delete what they have created.
OnlyRollback ==
  RouterGiven => \A i \in Dangling' \ Dangling :
    \E p \in Proc : pc[p] = "rollback" /\ cur[p].server = i

-----------------------------------------------------------------------------
(***************************************************************************)
(* Creating, updating and deleting one object in NSX-T                     *)
(***************************************************************************)

\* A new object gets a new identifier; only its service sees it.
LEMMA Added ==
  ASSUME NEW X, NEW x, NEW n \in Nat \ {0}, Keyed(X, n), x.id = n
  PROVE  /\ Keyed(X \cup {x}, n + 1)
         /\ \A s : s # x.svc => Of(X \cup {x}, s) = Of(X, s)
         /\ Of(X \cup {x}, x.svc) = Of(X, x.svc) \cup {x}
<1>1. Keyed(X \cup {x}, n + 1)
  BY DEF Keyed
<1>2. \A s : s # x.svc => Of(X \cup {x}, s) = Of(X, s)
  BY DEF Of
<1>3. Of(X \cup {x}, x.svc) = Of(X, x.svc) \cup {x}
  BY DEF Of
<1> QED BY <1>1, <1>2, <1>3

\* An object is updated in place; only its service sees it.
LEMMA Replaced ==
  ASSUME NEW X, NEW y \in X, NEW x, NEW n, Keyed(X, n), x.id = y.id, x.svc = y.svc
  PROVE  /\ Keyed(Replace(X, x), n)
         /\ \A s : s # x.svc => Of(Replace(X, x), s) = Of(X, s)
         /\ Of(Replace(X, x), x.svc) = Replace(Of(X, x.svc), x)
<1>1. \A z \in X : z.id = x.id => z = y
  BY DEF Keyed
<1>2. \A z : z \in Replace(X, x) <=> (z = x \/ (z \in X /\ z.id # x.id))
  BY DEF Replace
<1>3. Keyed(Replace(X, x), n)
  BY <1>2 DEF Keyed
<1>4. ASSUME NEW s, s # x.svc PROVE Of(Replace(X, x), s) = Of(X, s)
  BY <1>1, <1>2, <1>4 DEF Of
<1>5. Of(Replace(X, x), x.svc) = Replace(Of(X, x.svc), x)
  <2>1. \A z : z \in Replace(Of(X, x.svc), x) <=>
                 (z = x \/ (z \in X /\ z.svc = x.svc /\ z.id # x.id))
    BY DEF Replace, Of
  <2>2. \A z : z \in Of(Replace(X, x), x.svc) <=> (z \in Replace(X, x) /\ z.svc = x.svc)
    BY DEF Of
  <2> QED BY <1>2, <2>1, <2>2
<1> QED BY <1>3, <1>4, <1>5

\* An object is deleted; only its service sees it.
LEMMA Removed ==
  ASSUME NEW X, NEW y \in X, NEW n, Keyed(X, n)
  PROVE  /\ Keyed(Without(X, y.id), n)
         /\ \A s : s # y.svc => Of(Without(X, y.id), s) = Of(X, s)
         /\ Of(Without(X, y.id), y.svc) = Without(Of(X, y.svc), y.id)
<1>1. Keyed(Without(X, y.id), n)
  BY DEF Keyed, Without
<1>2. \A s : s # y.svc => Of(Without(X, y.id), s) = Of(X, s)
  BY DEF Keyed, Without, Of
<1>3. Of(Without(X, y.id), y.svc) = Without(Of(X, y.svc), y.id)
  BY DEF Without, Of
<1> QED BY <1>1, <1>2, <1>3

\* Identifiers stay old, and those of a service's objects are unique too.
LEMMA KeyedWeaker ==
  ASSUME NEW X, NEW n \in Nat, Keyed(X, n)
  PROVE  Keyed(X, n + 1) /\ \A s : Keyed(Of(X, s), n)
BY DEF Keyed, Of

-----------------------------------------------------------------------------
(***************************************************************************)
(* What this means for the objects of one service, and for the ports that  *)
(* are done already                                                        *)
(***************************************************************************)

\* createTCPMonitor
LEMMA MonitorAdded ==
  ASSUME NEW S, NEW L, NEW M, NEW m, Consistent(S, L, M), Matching(M, m.port) = {}
  PROVE  /\ Consistent(S, L, M \cup {m})
         /\ \A c, q : PortDone(c, S, L, M, q) => PortDone(c, S, L, M \cup {m}, q)
<1>1. Consistent(S, L, M \cup {m})
  BY DEF Consistent, OnePerPort, Matching
<1>2. \A c, q : PortDone(c, S, L, M, q) => PortDone(c, S, L, M \cup {m}, q)
  BY DEF PortDone, PoolDone, MonitorDone
<1> QED BY <1>1, <1>2

\* updateTCPMonitor
LEMMA MonitorReplaced ==
  ASSUME NEW S, NEW L, NEW M, NEW n, NEW y \in M, NEW m, Keyed(M, n), Consistent(S, L, M),
         m.id = y.id, m.port = y.port
  PROVE  /\ Consistent(S, L, Replace(M, m)) /\ m \in Replace(M, m)
         /\ \A c, q : q # m.port /\ PortDone(c, S, L, M, q) => PortDone(c, S, L, Replace(M, m), q)
<1>1. \A z : z \in Replace(M, m) <=> (z = m \/ (z \in M /\ z.id # m.id))
  BY DEF Replace
<1>2. \A z \in M : z.id = m.id => z = y
  BY DEF Keyed
<1>3. OnePerPort(Replace(M, m))
  BY <1>1, <1>2 DEF Consistent, OnePerPort
<1>4. ASSUME NEW i, NEW q, \E z \in M : z.id = i /\ z.port = q
      PROVE  \E z \in Replace(M, m) : z.id = i /\ z.port = q
  BY <1>1, <1>2, <1>4
<1>5. Consistent(S, L, Replace(M, m))
  BY <1>3, <1>4 DEF Consistent
<1>6. ASSUME NEW c, NEW q, NEW i, q # m.port, MonitorDone(c, M, q, i)
      PROVE  MonitorDone(c, Replace(M, m), q, i)
  BY <1>1, <1>2, <1>6 DEF MonitorDone
<1>7. ASSUME NEW c, NEW q, q # m.port, PortDone(c, S, L, M, q)
      PROVE  PortDone(c, S, L, Replace(M, m), q)
  BY <1>6, <1>7 DEF PortDone, PoolDone
<1> QED BY <1>1, <1>5, <1>7

\* createPool; the monitor of the pool is there.
LEMMA PoolAdded ==
  ASSUME NEW S, NEW L, NEW M, NEW l, Consistent(S, L, M), Matching(L, l.port) = {},
         l.monitor # NoId => \E m \in M : m.id = l.monitor /\ m.port = l.port
  PROVE  /\ Consistent(S, L \cup {l}, M)
         /\ \A c, q : PortDone(c, S, L, M, q) => PortDone(c, S, L \cup {l}, M, q)
<1>1. Consistent(S, L \cup {l}, M)
  BY DEF Consistent, OnePerPort, Matching
<1>2. \A c, q : PortDone(c, S, L, M, q) => PortDone(c, S, L \cup {l}, M, q)
  BY DEF PortDone, PoolDone
<1> QED BY <1>1, <1>2

\* updatePool
LEMMA PoolReplaced ==
  ASSUME NEW S, NEW L, NEW M, NEW n, NEW y \in L, NEW l, Keyed(L, n), Consistent(S, L, M),
         l.id = y.id, l.port = y.port,
         l.monitor # NoId => \E m \in M : m.id = l.monitor /\ m.port = l.port
  PROVE  /\ Consistent(S, Replace(L, l), M) /\ l \in Replace(L, l)
         /\ \A c, q : q # l.port /\ PortDone(c, S, L, M, q) => PortDone(c, S, Replace(L, l), M, q)
<1>1. \A z : z \in Replace(L, l) <=> (z = l \/ (z \in L /\ z.id # l.id))
  BY DEF Replace
<1>2. \A z \in L : z.id = l.id => z = y
  BY DEF Keyed
<1>3. OnePerPort(Replace(L, l))
  BY <1>1, <1>2 DEF Consistent, OnePerPort
<1>4. ASSUME NEW i, NEW q, \E z \in L : z.id = i /\ z.port = q
      PROVE  \E z \in Replace(L, l) : z.id = i /\ z.port = q
  BY <1>1, <1>2, <1>4
<1>5. Consistent(S, Replace(L, l), M)
  <2>1. \A v \in S : \E z \in Replace(L, l) : z.id = v.pool /\ z.port = v.port
    BY <1>4 DEF Consistent
  <2>2. ASSUME NEW z \in Replace(L, l), z.monitor # NoId
        PROVE  \E m \in M : m.id = z.monitor /\ m.port = z.port
    BY <1>1, <2>2 DEF Consistent
  <2> QED BY <1>3, <2>1, <2>2 DEF Consistent
<1>6. ASSUME NEW c, NEW q, NEW i, q # l.port, PoolDone(c, L, M, q, i)
      PROVE  PoolDone(c, Replace(L, l), M, q, i)
  BY <1>1, <1>2, <1>6 DEF PoolDone
<1>7. ASSUME NEW c, NEW q, q # l.port, PortDone(c, S, L, M, q)
      PROVE  PortDone(c, S, Replace(L, l), M, q)
  BY <1>6, <1>7 DEF PortDone
<1> QED BY <1>1, <1>5, <1>7

\* createVirtualServer; its pool is there, and it has the address of the others.
LEMMA ServerAdded ==
  ASSUME NEW S, NEW L, NEW M, NEW v, Consistent(S, L, M), Matching(S, v.port) = {},
         \E l \in L : l.id = v.pool /\ l.port = v.port, \A w \in S : w.ip = v.ip
  PROVE  /\ Consistent(S \cup {v}, L, M)
         /\ \A c, q : PortDone(c, S, L, M, q) => PortDone(c, S \cup {v}, L, M, q)
<1>1. Consistent(S \cup {v}, L, M)
  BY DEF Consistent, OnePerPort, Matching
<1>2. \A c, q : PortDone(c, S, L, M, q) => PortDone(c, S \cup {v}, L, M, q)
  BY DEF PortDone
<1> QED BY <1>1, <1>2

\* updateVirtualServer
LEMMA ServerReplaced ==
  ASSUME NEW S, NEW L, NEW M, NEW n, NEW y \in S, NEW v, Keyed(S, n), Consistent(S, L, M),
         v.id = y.id, v.port = y.port, v.ip = y.ip,
         \E l \in L : l.id = v.pool /\ l.port = v.port
  PROVE  /\ Consistent(Replace(S, v), L, M) /\ v \in Replace(S, v)
         /\ \A w \in Replace(S, v) : w.ip = y.ip
         /\ \A c, q : q # v.port /\ PortDone(c, S, L, M, q) => PortDone(c, Replace(S, v), L, M, q)
<1>1. \A z : z \in Replace(S, v) <=> (z = v \/ (z \in S /\ z.id # v.id))
  BY DEF Replace
<1>2. \A z \in S : z.id = v.id => z = y
  BY DEF Keyed
<1>3. OnePerPort(Replace(S, v))
  BY <1>1, <1>2 DEF Consistent, OnePerPort
<1>4. \A w \in Replace(S, v) : w.ip = y.ip
  BY <1>1 DEF Consistent
<1>5. Consistent(Replace(S, v), L, M)
  BY <1>1, <1>3, <1>4 DEF Consistent
<1>6. ASSUME NEW c, NEW q, q # v.port, PortDone(c, S, L, M, q)
      PROVE  PortDone(c, Replace(S, v), L, M, q)
  BY <1>1, <1>2, <1>6 DEF PortDone
<1> QED BY <1>1, <1>4, <1>5, <1>6

\* deleteVirtualServer, and the deletion of a virtual server that cannot be attached
LEMMA ServerRemoved ==
  ASSUME NEW S, NEW L, NEW M, NEW i, Consistent(S, L, M)
  PROVE  /\ Consistent(Without(S, i), L, M)
         /\ \A c, q : (\A v \in S : v.id = i => v.port # q) /\ PortDone(c, S, L, M, q)
                        => PortDone(c, Without(S, i), L, M, q)
BY DEF Consistent, OnePerPort, Without, PortDone

\* deletePool of a pool that no virtual server uses
LEMMA PoolRemoved ==
  ASSUME NEW S, NEW L, NEW M, NEW i, Consistent(S, L, M), \A v \in S : v.pool # i
  PROVE  /\ Consistent(S, Without(L, i), M)
         /\ \A c, q : PortDone(c, S, L, M, q) => PortDone(c, S, Without(L, i), M, q)
<1>1. Consistent(S, Without(L, i), M)
  BY DEF Consistent, OnePerPort, Without
<1>2. ASSUME NEW c, NEW q, NEW j, j # i, PoolDone(c, L, M, q, j)
      PROVE  PoolDone(c, Without(L, i), M, q, j)
  BY <1>2 DEF PoolDone, Without
<1>3. \A c, q : PortDone(c, S, L, M, q) => PortDone(c, S, Without(L, i), M, q)
  BY <1>2 DEF PortDone
<1> QED BY <1>1, <1>3

\* deleteTCPMonitor of a monitor that no pool uses
LEMMA MonitorRemoved ==
  ASSUME NEW S, NEW L, NEW M, NEW i, Consistent(S, L, M), \A l \in L : l.monitor # i
  PROVE  /\ Consistent(S, L, Without(M, i))
         /\ \A c, q : PortDone(c, S, L, M, q) => PortDone(c, S, L, Without(M, i), q)
<1>1. Consistent(S, L, Without(M, i))
  BY DEF Consistent, OnePerPort, Without
<1>2. ASSUME NEW c, NEW q, NEW j, j # i, MonitorDone(c, M, q, j)
      PROVE  MonitorDone(c, Without(M, i), q, j)
  BY <1>2 DEF MonitorDone, Without
<1>3. \A c, q : PortDone(c, S, L, M, q) => PortDone(c, S, L, Without(M, i), q)
  BY <1>2 DEF PortDone, PoolDone
<1> QED BY <1>1, <1>3
-----------------------------------------------------------------------------
(***************************************************************************)
(* A step of one goroutine, seen from the others                           *)
(***************************************************************************)

\* A step of goroutine p keeps NSX-T in order and other services alone.
Tidy(p) ==
  /\ KeysInv' /\ DataInv'
  /\ \A s \in Svc \ {call[p].svc} :
       /\ Of(servers', s) = Of(servers, s)
       /\ Of(pools', s) = Of(pools, s)
       /\ Of(monitors', s) = Of(monitors, s)

\* It does if it leaves the objects alone ...
LEMMA Untouched ==
  ASSUME Good, NEW p \in Proc, UNCHANGED <<servers, pools, monitors, nextId>>
  PROVE  Tidy(p)
BY DEF Good, KeysInv, DataInv, Tidy

\* ... or changes those of its own service only, and keeps them consistent.
LEMMA TidyIf ==
  ASSUME Good, NEW p \in Proc, KeysInv',
         \A s : s # call[p].svc => Of(servers', s) = Of(servers, s),
         \A s : s # call[p].svc => Of(pools', s) = Of(pools, s),
         \A s : s # call[p].svc => Of(monitors', s) = Of(monitors, s),
         Consistent(Of(servers', call[p].svc), Of(pools', call[p].svc),
                    Of(monitors', call[p].svc))
  PROVE  Tidy(p)
<1>1. ASSUME NEW s \in Svc
      PROVE  Consistent(Of(servers', s), Of(pools', s), Of(monitors', s))
  <2>1. CASE s = call[p].svc
    BY <2>1
  <2>2. CASE s # call[p].svc
    <3>1. Consistent(Of(servers, s), Of(pools, s), Of(monitors, s))
      BY DEF Good, DataInv
    <3> QED BY <2>2, <3>1
  <2> QED BY <2>1, <2>2
<1>2. DataInv'
  BY <1>1 DEF DataInv
<1> QED BY <1>2 DEF Tidy

\* Outside of the operations nothing is required but that there is no error.
LEMMA NotInside ==
  ASSUME NEW l \in {"idle", "lock"}, NEW e, NEW c, NEW x, NEW k, NEW S, NEW L, NEW M
  PROVE  At(l, e, c, x, k, S, L, M) <=> e = "none"
BY DEF At, Snapshot, Progress, Quiet, Ensuring, Updating, AfterServers, AfterPools, AfterMonitors

\* The step keeps the invariant if it does so for the goroutine that takes it:
\* the others work on other services, as they hold their keys.
LEMMA FrameStep ==
  ASSUME Inv, Good, NEW p \in Proc, pc[p] \in Inside, UNCHANGED outside,
         NEW l \in Inside, MovesTo(p, l), Tidy(p),
         \A q \in Proc \ {p} : st'[q] = st[q] /\ cur'[q] = cur[q],
         At(l, err'[p], call[p], st'[p], cur'[p], Of(servers', call[p].svc),
            Of(pools', call[p].svc), Of(monitors', call[p].svc))
  PROVE  Good'
<1>1. /\ pc' = [pc EXCEPT ![p] = l] /\ call' = call
      /\ \A q \in Proc \ {p} : err'[q] = err[q]
      /\ pc \in [Proc -> Label] /\ err \in [Proc -> {"none", "fault", "class", "exhausted"}]
  BY DEF MovesTo, Goto, Fault, Error, outside, Inv, TypeOK
<1>2. ASSUME NEW q \in Proc
      PROVE  At(pc'[q], err'[q], call'[q], st'[q], cur'[q], Of(servers', call'[q].svc),
                Of(pools', call'[q].svc), Of(monitors', call'[q].svc))
  <2>1. CASE q = p
    BY <1>1, <2>1
  <2>2. CASE q # p
    <3>1. /\ pc'[q] = pc[q] /\ err'[q] = err[q] /\ call'[q] = call[q]
          /\ st'[q] = st[q] /\ cur'[q] = cur[q]
      BY <1>1, <2>2
    <3>2. At(pc[q], err[q], call[q], st[q], cur[q], Of(servers, call[q].svc),
             Of(pools, call[q].svc), Of(monitors, call[q].svc))
      BY DEF Good, GoroutineAt
    <3>3. CASE pc[q] \in {"idle", "lock"}
      BY <3>1, <3>2, <3>3, NotInside
    <3>4. CASE pc[q] \notin {"idle", "lock"}
      <4>1. call[q].svc \in Svc \ {call[p].svc}
        BY <2>2, <3>4 DEF Inv, LockInv, CallInv, Inside
      <4>2. /\ Of(servers', call[q].svc) = Of(servers, call[q].svc)
            /\ Of(pools', call[q].svc) = Of(pools, call[q].svc)
            /\ Of(monitors', call[q].svc) = Of(monitors, call[q].svc)
        BY <4>1 DEF Tidy
      <4> QED BY <3>1, <3>2, <4>2
    <3> QED BY <3>3, <3>4
  <2> QED BY <2>1, <2>2
<1>3. (\A q \in Proc : GoroutineAt(q))'
  BY <1>2 DEF GoroutineAt
<1> QED BY <1>3 DEF Good, Tidy

\* Once there is an error nothing more is promised of the operation.
LEMMA ErrStep ==
  ASSUME Inv, Good, NEW p \in Proc, pc[p] \in Inside, UNCHANGED <<outside, st, cur>>,
         NEW l \in {"finish", "isAllocated", "release", "unlock"}, MovesTo(p, l),
         err'[p] # "none", l # "unlock" => call[p].op # "update", Tidy(p)
  PROVE  Good'
<1>1. At(l, err'[p], call[p], st'[p], cur'[p], Of(servers', call[p].svc),
         Of(pools', call[p].svc), Of(monitors', call[p].svc))
  BY DEF At, Quiet, Updating, Ensuring, AfterServers, AfterPools, AfterMonitors
<1>2. l \in Inside
  BY DEF Inside, Label
<1> QED BY <1>1, <1>2, FrameStep DEF outside

\* A call to NSX-T fails or is not answered, or there is no address left.
LEMMA FaultStep ==
  ASSUME Inv, Good, NEW p \in Proc, pc[p] \in Inside, UNCHANGED <<outside, st, cur>>,
         NEW l \in {"finish", "isAllocated", "unlock"}, Fault(p, l) \/ Error(p, "exhausted", l),
         l # "unlock" => call[p].op # "update", Tidy(p)
  PROVE  Good'
<1>1. err'[p] # "none" /\ MovesTo(p, l)
  BY DEF Fault, Error, MovesTo, Inv, TypeOK
<1> QED BY <1>1, ErrStep

\* What the proofs about the steps of a goroutine start from.
LEMMA AtFacts ==
  ASSUME Inv, Good, NEW p \in Proc, pc[p] \in Inside
  PROVE  /\ call[p].svc \in Svc
         /\ \A q \in Proc : st[q] \in State /\ cur[q] \in Cur
         /\ st \in [Proc -> State] /\ cur \in [Proc -> Cur]
         /\ nextId \in Nat \ {0}
         /\ Consistent(Of(servers, call[p].svc), Of(pools, call[p].svc), Of(monitors, call[p].svc))
         /\ Keyed(Of(servers, call[p].svc), nextId)
         /\ Keyed(Of(pools, call[p].svc), nextId)
         /\ Keyed(Of(monitors, call[p].svc), nextId)
         /\ At(pc[p], err[p], call[p], st[p], cur[p], Of(servers, call[p].svc),
               Of(pools, call[p].svc), Of(monitors, call[p].svc))
<1>1. call[p].svc \in Svc
  BY DEF Inv, CallInv, Inside
<1>2. st \in [Proc -> State] /\ cur \in [Proc -> Cur] /\ nextId \in Nat \ {0}
  BY DEF Inv, TypeOK, Id, NoId
<1>3. \A q \in Proc : st[q] \in State /\ cur[q] \in Cur
  BY <1>2
<1>4. /\ Keyed(Of(servers, call[p].svc), nextId)
      /\ Keyed(Of(pools, call[p].svc), nextId)
      /\ Keyed(Of(monitors, call[p].svc), nextId)
  BY <1>2, KeyedWeaker DEF Good, KeysInv
<1> QED BY <1>1, <1>2, <1>3, <1>4 DEF Good, DataInv, GoroutineAt
-----------------------------------------------------------------------------
(***************************************************************************)
(* Process                                                                 *)
(***************************************************************************)

\* The places between the Find calls and the end of Process.
InProcess == AfterMonitors \ {"finish"}

\* There, no call has failed, the lists are current, and Progress says how far it is.
LEMMA InProcessAt ==
  ASSUME NEW l \in InProcess, NEW e, NEW c, NEW x, NEW k, NEW S, NEW L, NEW M
  PROVE  At(l, e, c, x, k, S, L, M) <=>
           /\ e = "none" /\ c.op # "update"
           /\ x.servers = S /\ x.pools = L /\ x.monitors = M
           /\ l \in {"attach", "deleteServer"} => \E v \in S : v.id = k.server
           /\ Progress(l, c, x, k, S, L, M)
BY DEF InProcess, At, Snapshot, Quiet, Ensuring, Updating, AfterServers, AfterPools,
       AfterMonitors

\* What a step of Process starts from.
LEMMA ProcessFacts ==
  ASSUME Inv, Good, NEW p \in Proc, pc[p] \in InProcess
  PROVE  /\ pc[p] \in Inside /\ err[p] = "none" /\ call[p].op # "update"
         /\ st[p].servers = Of(servers, call[p].svc) /\ st[p].pools = Of(pools, call[p].svc)
         /\ st[p].monitors = Of(monitors, call[p].svc)
         /\ \A v \in Of(servers, call[p].svc) : v.ip = st[p].ip
         /\ pc[p] \in {"attach", "deleteServer"} =>
              \E v \in Of(servers, call[p].svc) : v.id = cur[p].server
         /\ Progress(pc[p], call[p], st[p], cur[p], Of(servers, call[p].svc),
                     Of(pools, call[p].svc), Of(monitors, call[p].svc))
<1>1. pc[p] \in Inside
  BY DEF InProcess, AfterMonitors, Inside, Label
<1>2. At(pc[p], err[p], call[p], st[p], cur[p], Of(servers, call[p].svc),
         Of(pools, call[p].svc), Of(monitors, call[p].svc))
  BY <1>1, AtFacts
<1>3. Progress(pc[p], call[p], st[p], cur[p], Of(servers, call[p].svc),
               Of(pools, call[p].svc), Of(monitors, call[p].svc))
  BY <1>2, InProcessAt
<1>4. \A v \in Of(servers, call[p].svc) : v.ip = st[p].ip
  BY <1>3 DEF Progress, InProcess
<1> QED BY <1>1, <1>2, <1>3, <1>4, InProcessAt

\* A successful step within Process keeps the invariant if it keeps the lists
\* current and makes the progress it should.
LEMMA ProcessStep ==
  ASSUME Inv, Good, NEW p \in Proc, pc[p] \in InProcess, UNCHANGED outside,
         NEW l \in InProcess, Goto(p, l), Tidy(p),
         \A q \in Proc \ {p} : st'[q] = st[q] /\ cur'[q] = cur[q],
         st'[p].servers = Of(servers', call[p].svc), st'[p].pools = Of(pools', call[p].svc),
         st'[p].monitors = Of(monitors', call[p].svc),
         l \in {"attach", "deleteServer"} =>
           \E v \in Of(servers', call[p].svc) : v.id = cur'[p].server,
         Progress(l, call[p], st'[p], cur'[p], Of(servers', call[p].svc),
                  Of(pools', call[p].svc), Of(monitors', call[p].svc))
  PROVE  Good'
<1>1. pc[p] \in Inside /\ err[p] = "none" /\ call[p].op # "update"
  BY ProcessFacts
<1>2. err'[p] = "none" /\ MovesTo(p, l) /\ l \in Inside
  BY <1>1 DEF Goto, MovesTo, InProcess, AfterMonitors, Inside, Label
<1>3. At(l, err'[p], call[p], st'[p], cur'[p], Of(servers', call[p].svc),
         Of(pools', call[p].svc), Of(monitors', call[p].svc))
  BY <1>1, <1>2, InProcessAt
<1> QED BY <1>1, <1>2, <1>3, FrameStep

\* A call that fails within Process ends it.
LEMMA ProcessFault ==
  ASSUME Inv, Good, NEW p \in Proc, pc[p] \in InProcess, UNCHANGED <<outside, st, cur>>,
         NEW l \in {"finish", "isAllocated"}, Fault(p, l) \/ Error(p, "exhausted", l), Tidy(p)
  PROVE  Good'
BY ProcessFacts, FaultStep

\* The loop over the ports goes on, or the clean-up starts.
LEMMA NextPortGood ==
  ASSUME Inv, Good, NEW p \in Proc, NextPort(p)
  PROVE  Good'
<1> DEFINE c == call[p]
           S == Of(servers, c.svc)
           L == Of(pools, c.svc)
           M == Of(monitors, c.svc)
<1>1. /\ pc[p] = "ports" /\ pc[p] \in InProcess /\ UNCHANGED outside /\ st' = st
      /\ UNCHANGED <<servers, pools, monitors, nextId>>
  BY DEF NextPort, InProcess, AfterMonitors, nsxt
<1>2. /\ st[p].servers = S /\ st[p].pools = L /\ st[p].monitors = M
      /\ \A v \in S : v.ip = st[p].ip
      /\ Progress("ports", c, st[p], cur[p], S, L, M) /\ pc[p] \in Inside
  BY <1>1, ProcessFacts
<1>3. cur \in [Proc -> Cur]
  BY <1>2, AtFacts
<1>4. Done(c, S, L, M, c.ports \ cur[p].todo)
  BY <1>2 DEF Progress
<1>5. Tidy(p)
  BY <1>1, Untouched
<1>6. CASE cur[p].todo = {} /\ Goto(p, "orphanServers") /\ cur' = cur
  <2>1. Progress("orphanServers", c, st[p], cur[p], S, L, M)
    BY <1>2, <1>4, <1>6 DEF Progress, Done
  <2> QED BY <1>1, <1>2, <1>5, <1>6, <2>1, ProcessStep DEF InProcess, AfterMonitors
<1>7. ASSUME NEW q \in cur[p].todo,
             cur' = [cur EXCEPT ![p].todo = @ \ {q}, ![p].port = q, ![p].monitor = NoId],
             Goto(p, IF q \in TCP THEN "monitor" ELSE "pool")
      PROVE  Good'
  <2>1. /\ cur'[p].todo = cur[p].todo \ {q} /\ cur'[p].port = q /\ cur'[p].monitor = NoId
        /\ \A r \in Proc \ {p} : cur'[r] = cur[r]
    BY <1>3, <1>7 DEF Cur
  <2>2. Done(c, S, L, M, c.ports \ (cur'[p].todo \cup {cur'[p].port}))
    BY <1>4, <2>1 DEF Done
  <2>3. CASE q \in TCP
    <3>1. Progress("monitor", c, st[p], cur'[p], S, L, M)
      BY <1>2, <2>1, <2>2, <2>3 DEF Progress
    <3> QED BY <1>1, <1>2, <1>5, <1>7, <2>1, <2>3, <3>1, ProcessStep DEF InProcess, AfterMonitors
  <2>4. CASE q \notin TCP
    <3>1. Progress("pool", c, st[p], cur'[p], S, L, M)
      BY <1>2, <2>1, <2>2, <2>4 DEF Progress, MonitorDone
    <3> QED BY <1>1, <1>2, <1>5, <1>7, <2>1, <2>4, <3>1, ProcessStep DEF InProcess, AfterMonitors
  <2> QED BY <2>3, <2>4
<1> QED BY <1>6, <1>7 DEF NextPort
\* getTCPMonitor
LEMMA GetTCPMonitorGood ==
  ASSUME Inv, Good, NEW p \in Proc, GetTCPMonitor(p)
  PROVE  Good'
<1> DEFINE c == call[p]
           S == Of(servers, c.svc)
           L == Of(pools, c.svc)
           M == Of(monitors, c.svc)
           Q == c.ports \ (cur[p].todo \cup {cur[p].port})
<1>1. /\ pc[p] = "monitor" /\ pc[p] \in InProcess /\ UNCHANGED outside
      /\ servers' = servers /\ pools' = pools
      /\ "pool" \in InProcess
  BY DEF GetTCPMonitor, KeepTCPMonitor, UpdateTCPMonitor, CreateTCPMonitor, InProcess,
         AfterMonitors, nsxt
<1>2. /\ st[p].servers = S /\ st[p].pools = L /\ st[p].monitors = M
      /\ \A v \in S : v.ip = st[p].ip
      /\ Progress("monitor", c, st[p], cur[p], S, L, M) /\ pc[p] \in Inside
  BY <1>1, ProcessFacts
<1>3. /\ cur \in [Proc -> Cur] /\ st \in [Proc -> State] /\ nextId \in Nat \ {0}
      /\ Keyed(M, nextId) /\ Consistent(S, L, M)
  BY <1>2, AtFacts
<1>4. Done(c, S, L, M, Q) /\ cur[p].port \in TCP
  BY <1>2 DEF Progress
<1>5. KeysInv
  BY DEF Good
\* The monitor found, updated or created is m: then the pool is next.
<1>6. ASSUME NEW m, Goto(p, "pool"), Tidy(p), cur' = [cur EXCEPT ![p].monitor = m.id],
             st'[p].servers = S, st'[p].pools = L, st'[p].ip = st[p].ip,
             st'[p].monitors = Of(monitors', c.svc), \A q \in Proc \ {p} : st'[q] = st[q],
             m \in Of(monitors', c.svc), m.port = cur[p].port, m.nodePort = c.nodePort,
             Done(c, S, L, Of(monitors', c.svc), Q)
      PROVE  Good'
  <2>1. /\ cur'[p].todo = cur[p].todo /\ cur'[p].port = cur[p].port /\ cur'[p].monitor = m.id
        /\ \A q \in Proc \ {p} : cur'[q] = cur[q]
    BY <1>3, <1>6 DEF Cur
  <2>2. MonitorDone(c, Of(monitors', c.svc), cur'[p].port, cur'[p].monitor)
    BY <1>4, <1>6, <2>1 DEF MonitorDone
  <2>3. Progress("pool", c, st'[p], cur'[p], S, L, Of(monitors', c.svc))
    BY <1>2, <1>6, <2>1, <2>2 DEF Progress
  <2> QED BY <1>1, <1>6, <2>1, <2>3, ProcessStep
<1>7. CASE KeepTCPMonitor(p)
  <2>1. PICK m \in Matching(st[p].monitors, cur[p].port) :
          m.nodePort = c.nodePort /\ cur' = [cur EXCEPT ![p].monitor = m.id]
    BY <1>7 DEF KeepTCPMonitor
  <2>2. Goto(p, "pool") /\ monitors' = monitors /\ nextId' = nextId /\ st' = st
    BY <1>7 DEF KeepTCPMonitor, nsxt
  <2>3. Tidy(p)
    BY <1>1, <2>2, Untouched
  <2>4. m \in M /\ m.port = cur[p].port
    BY <1>2, <2>1 DEF Matching
  <2> QED BY <1>2, <1>4, <1>6, <2>1, <2>2, <2>3, <2>4
<1>8. CASE UpdateTCPMonitor(p)
  <2> DEFINE n(m) == [m EXCEPT !.nodePort = c.nodePort]
  <2>1. PICK m \in Matching(st[p].monitors, cur[p].port) :
          \/ /\ monitors' = Replace(monitors, n(m))
             /\ \/ /\ st' = [st EXCEPT ![p].monitors = Replace(@, n(m))]
                   /\ cur' = [cur EXCEPT ![p].monitor = n(m).id]
                   /\ Goto(p, "pool")
                \/ Fault(p, "finish") /\ UNCHANGED <<st, cur>>
          \/ Fault(p, "finish") /\ UNCHANGED <<monitors, st, cur>>
    BY <1>8 DEF UpdateTCPMonitor
  <2>2. m \in M /\ m \in monitors /\ m.svc = c.svc /\ m.port = cur[p].port /\ nextId' = nextId
    BY <1>2, <1>8, <2>1 DEF Matching, Of, UpdateTCPMonitor
  <2>3. m \in TCPMonitor
    BY <2>2 DEF Inv, TypeOK
  <2>4. /\ n(m).id = m.id /\ n(m).svc = c.svc /\ n(m).port = cur[p].port
        /\ n(m).nodePort = c.nodePort
    BY <2>2, <2>3 DEF TCPMonitor
  <2> HIDE DEF n
  <2>5. CASE monitors' = Replace(monitors, n(m))
    <3>1. /\ Keyed(monitors', nextId) /\ Of(monitors', c.svc) = Replace(M, n(m))
          /\ \A s : s # c.svc => Of(monitors', s) = Of(monitors, s)
      BY <1>5, <2>2, <2>4, <2>5, Replaced DEF KeysInv
    <3>2. /\ Consistent(S, L, Replace(M, n(m))) /\ n(m) \in Replace(M, n(m))
          /\ \A q : q # cur[p].port /\ PortDone(c, S, L, M, q)
                      => PortDone(c, S, L, Replace(M, n(m)), q)
      BY <1>3, <2>2, <2>4, MonitorReplaced
    <3>3. Done(c, S, L, Replace(M, n(m)), Q)
      BY <1>4, <3>2 DEF Done
    <3>4. Tidy(p)
      BY <1>1, <1>5, <2>2, <3>1, <3>2, TidyIf DEF KeysInv
    <3>5. CASE /\ st' = [st EXCEPT ![p].monitors = Replace(@, n(m))]
               /\ cur' = [cur EXCEPT ![p].monitor = n(m).id]
               /\ Goto(p, "pool")
      <4>1. /\ st'[p].servers = S /\ st'[p].pools = L /\ st'[p].ip = st[p].ip
            /\ st'[p].monitors = Replace(M, n(m)) /\ \A q \in Proc \ {p} : st'[q] = st[q]
        BY <1>2, <1>3, <3>5 DEF State
      <4> QED BY <1>6, <2>4, <3>1, <3>2, <3>3, <3>4, <3>5, <4>1
    <3>6. CASE Fault(p, "finish") /\ UNCHANGED <<st, cur>>
      BY <1>1, <3>4, <3>6, ProcessFault
    <3> QED BY <2>1, <3>4, <3>5, <3>6
  <2>6. CASE Fault(p, "finish") /\ UNCHANGED <<monitors, st, cur>>
    BY <1>1, <2>2, <2>6, Untouched, ProcessFault
  <2> QED BY <2>1, <2>5, <2>6
<1>9. CASE CreateTCPMonitor(p)
  <2> DEFINE m == NewTCPMonitor(p)
  <2>1. /\ m.id = nextId /\ m.svc = c.svc /\ m.port = cur[p].port /\ m.nodePort = c.nodePort
    BY DEF NewTCPMonitor
  <2>2. /\ Matching(M, cur[p].port) = {}
        /\ \/ /\ monitors' = monitors \cup {m} /\ nextId' = nextId + 1
              /\ \/ /\ st' = [st EXCEPT ![p].monitors = @ \cup {m}]
                    /\ cur' = [cur EXCEPT ![p].monitor = m.id]
                    /\ Goto(p, "pool")
                 \/ Fault(p, "finish") /\ UNCHANGED <<st, cur>>
           \/ Fault(p, "finish") /\ UNCHANGED <<monitors, nextId, st, cur>>
    BY <1>2, <1>9 DEF CreateTCPMonitor
  <2> HIDE DEF m
  <2>3. CASE monitors' = monitors \cup {m} /\ nextId' = nextId + 1
    <3>1. /\ Keyed(monitors', nextId') /\ Of(monitors', c.svc) = M \cup {m}
          /\ \A s : s # c.svc => Of(monitors', s) = Of(monitors, s)
      BY <1>3, <1>5, <2>1, <2>3, Added DEF KeysInv
    <3>2. Keyed(servers, nextId') /\ Keyed(pools, nextId')
      BY <1>3, <1>5, <2>3, KeyedWeaker DEF KeysInv
    <3>3. /\ Consistent(S, L, M \cup {m})
          /\ \A q : PortDone(c, S, L, M, q) => PortDone(c, S, L, M \cup {m}, q)
      BY <1>3, <2>1, <2>2, MonitorAdded
    <3>4. Done(c, S, L, M \cup {m}, Q)
      BY <1>4, <3>3 DEF Done
    <3>5. Tidy(p)
      BY <1>1, <3>1, <3>2, <3>3, TidyIf DEF KeysInv
    <3>6. CASE /\ st' = [st EXCEPT ![p].monitors = @ \cup {m}]
               /\ cur' = [cur EXCEPT ![p].monitor = m.id]
               /\ Goto(p, "pool")
      <4>1. /\ st'[p].servers = S /\ st'[p].pools = L /\ st'[p].ip = st[p].ip
            /\ st'[p].monitors = M \cup {m} /\ \A q \in Proc \ {p} : st'[q] = st[q]
        BY <1>2, <1>3, <3>6 DEF State
      <4> QED BY <1>6, <2>1, <3>1, <3>4, <3>5, <3>6, <4>1
    <3>7. CASE Fault(p, "finish") /\ UNCHANGED <<st, cur>>
      BY <1>1, <3>5, <3>7, ProcessFault
    <3> QED BY <2>2, <3>6, <3>7
  <2>4. CASE Fault(p, "finish") /\ UNCHANGED <<monitors, nextId, st, cur>>
    BY <1>1, <2>4, Untouched, ProcessFault
  <2> QED BY <2>2, <2>3, <2>4
<1> QED BY <1>7, <1>8, <1>9 DEF GetTCPMonitor
\* getPool
LEMMA GetPoolGood ==
  ASSUME Inv, Good, NEW p \in Proc, GetPool(p)
  PROVE  Good'
<1> DEFINE c == call[p]
           S == Of(servers, c.svc)
           L == Of(pools, c.svc)
           M == Of(monitors, c.svc)
           Q == c.ports \ (cur[p].todo \cup {cur[p].port})
<1>1. /\ pc[p] = "pool" /\ pc[p] \in InProcess /\ UNCHANGED outside
      /\ servers' = servers /\ monitors' = monitors
      /\ "server" \in InProcess
  BY DEF GetPool, KeepPool, UpdatePool, CreatePool, InProcess, AfterMonitors, nsxt
<1>2. /\ st[p].servers = S /\ st[p].pools = L /\ st[p].monitors = M
      /\ \A v \in S : v.ip = st[p].ip
      /\ Progress("pool", c, st[p], cur[p], S, L, M) /\ pc[p] \in Inside
  BY <1>1, ProcessFacts
<1>3. /\ cur \in [Proc -> Cur] /\ st \in [Proc -> State] /\ nextId \in Nat \ {0}
      /\ Keyed(L, nextId) /\ Consistent(S, L, M)
  BY <1>2, AtFacts
<1>4. Done(c, S, L, M, Q) /\ MonitorDone(c, M, cur[p].port, cur[p].monitor)
  BY <1>2 DEF Progress
<1>5. KeysInv
  BY DEF Good
<1>6. cur[p].monitor # NoId => \E m \in M : m.id = cur[p].monitor /\ m.port = cur[p].port
  BY <1>4 DEF MonitorDone
\* The pool found, updated or created is l: then the virtual server is next.
<1>7. ASSUME NEW l, Goto(p, "server"), Tidy(p), cur' = [cur EXCEPT ![p].pool = l.id],
             st'[p].servers = S, st'[p].monitors = M, st'[p].ip = st[p].ip,
             st'[p].pools = Of(pools', c.svc), \A q \in Proc \ {p} : st'[q] = st[q],
             l \in Of(pools', c.svc), l.port = cur[p].port, l.members = c.nodes,
             l.monitor = cur[p].monitor, Done(c, S, Of(pools', c.svc), M, Q)
      PROVE  Good'
  <2>1. /\ cur'[p].todo = cur[p].todo /\ cur'[p].port = cur[p].port /\ cur'[p].pool = l.id
        /\ \A q \in Proc \ {p} : cur'[q] = cur[q]
    BY <1>3, <1>7 DEF Cur
  <2>2. PoolDone(c, Of(pools', c.svc), M, cur'[p].port, cur'[p].pool)
    BY <1>4, <1>7, <2>1 DEF PoolDone
  <2>3. Progress("server", c, st'[p], cur'[p], S, Of(pools', c.svc), M)
    BY <1>2, <1>7, <2>1, <2>2 DEF Progress
  <2> QED BY <1>1, <1>7, <2>1, <2>3, ProcessStep
<1>8. CASE KeepPool(p)
  <2>1. PICK l \in Matching(st[p].pools, cur[p].port) :
          /\ l.members = c.nodes /\ l.monitor = cur[p].monitor
          /\ cur' = [cur EXCEPT ![p].pool = l.id]
    BY <1>8 DEF KeepPool
  <2>2. Goto(p, "server") /\ pools' = pools /\ nextId' = nextId /\ st' = st
    BY <1>8 DEF KeepPool, nsxt
  <2>3. Tidy(p)
    BY <1>1, <2>2, Untouched
  <2>4. l \in L /\ l.port = cur[p].port
    BY <1>2, <2>1 DEF Matching
  <2> QED BY <1>2, <1>4, <1>7, <2>1, <2>2, <2>3, <2>4
<1>9. CASE UpdatePool(p)
  <2> DEFINE n(l) == [l EXCEPT !.members = c.nodes, !.monitor = cur[p].monitor]
  <2>1. PICK l \in Matching(st[p].pools, cur[p].port) :
          \/ /\ pools' = Replace(pools, n(l))
             /\ \/ /\ st' = [st EXCEPT ![p].pools = Replace(@, n(l))]
                   /\ cur' = [cur EXCEPT ![p].pool = n(l).id]
                   /\ Goto(p, "server")
                \/ Fault(p, "finish") /\ UNCHANGED <<st, cur>>
          \/ Fault(p, "finish") /\ UNCHANGED <<pools, st, cur>>
    BY <1>9 DEF UpdatePool
  <2>2. l \in L /\ l \in pools /\ l.svc = c.svc /\ l.port = cur[p].port /\ nextId' = nextId
    BY <1>2, <1>9, <2>1 DEF Matching, Of, UpdatePool
  <2>3. l \in Pool
    BY <2>2 DEF Inv, TypeOK
  <2>4. /\ n(l).id = l.id /\ n(l).svc = c.svc /\ n(l).port = cur[p].port
        /\ n(l).members = c.nodes /\ n(l).monitor = cur[p].monitor
    BY <2>2, <2>3 DEF Pool
  <2> HIDE DEF n
  <2>5. CASE pools' = Replace(pools, n(l))
    <3>1. /\ Keyed(pools', nextId) /\ Of(pools', c.svc) = Replace(L, n(l))
          /\ \A s : s # c.svc => Of(pools', s) = Of(pools, s)
      BY <1>5, <2>2, <2>4, <2>5, Replaced DEF KeysInv
    <3>2. /\ Consistent(S, Replace(L, n(l)), M) /\ n(l) \in Replace(L, n(l))
          /\ \A q : q # cur[p].port /\ PortDone(c, S, L, M, q)
                      => PortDone(c, S, Replace(L, n(l)), M, q)
      BY <1>3, <1>6, <2>2, <2>4, PoolReplaced
    <3>3. Done(c, S, Replace(L, n(l)), M, Q)
      BY <1>4, <3>2 DEF Done
    <3>4. Tidy(p)
      BY <1>1, <1>5, <2>2, <3>1, <3>2, TidyIf DEF KeysInv
    <3>5. CASE /\ st' = [st EXCEPT ![p].pools = Replace(@, n(l))]
               /\ cur' = [cur EXCEPT ![p].pool = n(l).id]
               /\ Goto(p, "server")
      <4>1. /\ st'[p].servers = S /\ st'[p].monitors = M /\ st'[p].ip = st[p].ip
            /\ st'[p].pools = Replace(L, n(l)) /\ \A q \in Proc \ {p} : st'[q] = st[q]
        BY <1>2, <1>3, <3>5 DEF State
      <4> QED BY <1>7, <2>4, <3>1, <3>2, <3>3, <3>4, <3>5, <4>1
    <3>6. CASE Fault(p, "finish") /\ UNCHANGED <<st, cur>>
      BY <1>1, <3>4, <3>6, ProcessFault
    <3> QED BY <2>1, <3>4, <3>5, <3>6
  <2>6. CASE Fault(p, "finish") /\ UNCHANGED <<pools, st, cur>>
    BY <1>1, <2>2, <2>6, Untouched, ProcessFault
  <2> QED BY <2>1, <2>5, <2>6
<1>10. CASE CreatePool(p)
  <2> DEFINE l == NewPool(p)
  <2>1. /\ l.id = nextId /\ l.svc = c.svc /\ l.port = cur[p].port /\ l.members = c.nodes
        /\ l.monitor = cur[p].monitor
    BY DEF NewPool
  <2>2. /\ Matching(L, cur[p].port) = {}
        /\ \/ /\ pools' = pools \cup {l} /\ nextId' = nextId + 1
              /\ \/ /\ st' = [st EXCEPT ![p].pools = @ \cup {l}]
                    /\ cur' = [cur EXCEPT ![p].pool = l.id]
                    /\ Goto(p, "server")
                 \/ Fault(p, "finish") /\ UNCHANGED <<st, cur>>
           \/ Fault(p, "finish") /\ UNCHANGED <<pools, nextId, st, cur>>
    BY <1>2, <1>10 DEF CreatePool
  <2> HIDE DEF l
  <2>3. CASE pools' = pools \cup {l} /\ nextId' = nextId + 1
    <3>1. /\ Keyed(pools', nextId') /\ Of(pools', c.svc) = L \cup {l}
          /\ \A s : s # c.svc => Of(pools', s) = Of(pools, s)
      <4>1. Keyed(pools, nextId) /\ l.id = nextId /\ l.svc = c.svc
        BY <1>5, <2>1 DEF KeysInv
      <4>2. /\ Keyed(pools \cup {l}, nextId + 1)
            /\ Of(pools \cup {l}, l.svc) = Of(pools, l.svc) \cup {l}
            /\ \A s : s # l.svc => Of(pools \cup {l}, s) = Of(pools, s)
        BY <1>3, <4>1, Added
      <4> QED BY <2>3, <4>1, <4>2
    <3>2. Keyed(servers, nextId') /\ Keyed(monitors, nextId')
      BY <1>3, <1>5, <2>3, KeyedWeaker DEF KeysInv
    <3>3. /\ Consistent(S, L \cup {l}, M)
          /\ \A q : PortDone(c, S, L, M, q) => PortDone(c, S, L \cup {l}, M, q)
      BY <1>3, <1>6, <2>1, <2>2, PoolAdded
    <3>4. Done(c, S, L \cup {l}, M, Q)
      BY <1>4, <3>3 DEF Done
    <3>5. Tidy(p)
      BY <1>1, <3>1, <3>2, <3>3, TidyIf DEF KeysInv
    <3>6. CASE /\ st' = [st EXCEPT ![p].pools = @ \cup {l}]
               /\ cur' = [cur EXCEPT ![p].pool = l.id]
               /\ Goto(p, "server")
      <4>1. /\ st'[p].servers = S /\ st'[p].monitors = M /\ st'[p].ip = st[p].ip
            /\ st'[p].pools = L \cup {l} /\ \A q \in Proc \ {p} : st'[q] = st[q]
        BY <1>2, <1>3, <3>6 DEF State
      <4> QED BY <1>7, <2>1, <3>1, <3>4, <3>5, <3>6, <4>1
    <3>7. CASE Fault(p, "finish") /\ UNCHANGED <<st, cur>>
      BY <1>1, <3>5, <3>7, ProcessFault
    <3> QED BY <2>2, <3>6, <3>7
  <2>4. CASE Fault(p, "finish") /\ UNCHANGED <<pools, nextId, st, cur>>
    BY <1>1, <2>4, Untouched, ProcessFault
  <2> QED BY <2>2, <2>3, <2>4
<1> QED BY <1>8, <1>9, <1>10 DEF GetPool

\* getVirtualServer, if there is one: the port is done.
LEMMA ExistingServerGood ==
  ASSUME Inv, Good, NEW p \in Proc, KeepVirtualServer(p) \/ UpdateVirtualServer(p)
  PROVE  Good'
<1> DEFINE c == call[p]
           S == Of(servers, c.svc)
           L == Of(pools, c.svc)
           M == Of(monitors, c.svc)
<1>1. /\ pc[p] = "server" /\ pc[p] \in InProcess /\ UNCHANGED outside
      /\ pools' = pools /\ monitors' = monitors /\ nextId' = nextId /\ cur' = cur
      /\ "ports" \in InProcess
  BY DEF KeepVirtualServer, UpdateVirtualServer, InProcess, AfterMonitors, nsxt
<1>2. /\ st[p].servers = S /\ st[p].pools = L /\ st[p].monitors = M
      /\ \A v \in S : v.ip = st[p].ip
      /\ Progress("server", c, st[p], cur[p], S, L, M) /\ pc[p] \in Inside
  BY <1>1, ProcessFacts
<1>3. /\ st \in [Proc -> State] /\ nextId \in Nat \ {0}
      /\ Keyed(S, nextId) /\ Consistent(S, L, M)
  BY <1>2, AtFacts
<1>4. /\ Done(c, S, L, M, c.ports \ (cur[p].todo \cup {cur[p].port}))
      /\ PoolDone(c, L, M, cur[p].port, cur[p].pool)
  BY <1>2 DEF Progress
<1>5. KeysInv
  BY DEF Good
\* The virtual server kept or updated is v.
<1>6. ASSUME NEW v, Goto(p, "ports"), Tidy(p),
             st'[p].pools = L, st'[p].monitors = M, st'[p].ip = st[p].ip,
             st'[p].servers = Of(servers', c.svc), \A q \in Proc \ {p} : st'[q] = st[q],
             v \in Of(servers', c.svc), v.port = cur[p].port, v.nodePort = c.nodePort,
             v.pool = cur[p].pool, \A w \in Of(servers', c.svc) : w.ip = st[p].ip,
             Done(c, Of(servers', c.svc), L, M, c.ports \ (cur[p].todo \cup {cur[p].port}))
      PROVE  Good'
  <2>1. PortDone(c, Of(servers', c.svc), L, M, cur[p].port)
    BY <1>4, <1>6 DEF PortDone
  <2>2. Done(c, Of(servers', c.svc), L, M, c.ports \ cur[p].todo)
    BY <1>6, <2>1 DEF Done
  <2>3. Progress("ports", c, st'[p], cur[p], Of(servers', c.svc), L, M)
    BY <1>6, <2>2 DEF Progress
  <2> QED BY <1>1, <1>6, <2>3, ProcessStep
<1>7. CASE KeepVirtualServer(p)
  <2>1. PICK v \in Matching(st[p].servers, cur[p].port) :
          v.nodePort = c.nodePort /\ v.pool = cur[p].pool
    BY <1>7 DEF KeepVirtualServer
  <2>2. Goto(p, "ports") /\ servers' = servers /\ st' = st
    BY <1>7 DEF KeepVirtualServer, nsxt
  <2>3. Tidy(p)
    BY <1>1, <2>2, Untouched
  <2>4. v \in S /\ v.port = cur[p].port
    BY <1>2, <2>1 DEF Matching
  <2> QED BY <1>2, <1>4, <1>6, <2>1, <2>2, <2>3, <2>4
<1>8. CASE UpdateVirtualServer(p)
  <2> DEFINE n(v) == [v EXCEPT !.nodePort = c.nodePort, !.pool = cur[p].pool]
  <2>1. PICK v \in Matching(st[p].servers, cur[p].port) :
          \/ /\ servers' = Replace(servers, n(v))
             /\ \/ /\ st' = [st EXCEPT ![p].servers = Replace(@, n(v))]
                   /\ Goto(p, "ports")
                \/ Fault(p, "finish") /\ UNCHANGED st
          \/ Fault(p, "finish") /\ UNCHANGED <<servers, st>>
    BY <1>8 DEF UpdateVirtualServer
  <2>2. v \in S /\ v \in servers /\ v.svc = c.svc /\ v.port = cur[p].port
    BY <1>2, <2>1 DEF Matching, Of
  <2>3. v \in VirtualServer
    BY <2>2 DEF Inv, TypeOK
  <2>4. /\ n(v).id = v.id /\ n(v).svc = c.svc /\ n(v).port = cur[p].port /\ n(v).ip = v.ip
        /\ n(v).nodePort = c.nodePort /\ n(v).pool = cur[p].pool
    BY <2>2, <2>3 DEF VirtualServer
  <2> HIDE DEF n
  <2>5. CASE servers' = Replace(servers, n(v))
    <3>1. /\ Keyed(servers', nextId) /\ Of(servers', c.svc) = Replace(S, n(v))
          /\ \A s : s # c.svc => Of(servers', s) = Of(servers, s)
      BY <1>5, <2>2, <2>4, <2>5, Replaced DEF KeysInv
    <3>2. \E l \in L : l.id = n(v).pool /\ l.port = n(v).port
      BY <1>4, <2>4 DEF PoolDone
    <3>3. /\ Consistent(Replace(S, n(v)), L, M) /\ n(v) \in Replace(S, n(v))
          /\ \A w \in Replace(S, n(v)) : w.ip = v.ip
          /\ \A q : q # cur[p].port /\ PortDone(c, S, L, M, q)
                      => PortDone(c, Replace(S, n(v)), L, M, q)
      BY <1>3, <2>2, <2>4, <3>2, ServerReplaced
    <3>4. Done(c, Replace(S, n(v)), L, M, c.ports \ (cur[p].todo \cup {cur[p].port}))
      BY <1>4, <3>3 DEF Done
    <3>5. Tidy(p)
      BY <1>1, <1>5, <3>1, <3>3, TidyIf DEF KeysInv
    <3>6. CASE st' = [st EXCEPT ![p].servers = Replace(@, n(v))] /\ Goto(p, "ports")
      <4>1. /\ st'[p].pools = L /\ st'[p].monitors = M /\ st'[p].ip = st[p].ip
            /\ st'[p].servers = Replace(S, n(v)) /\ \A q \in Proc \ {p} : st'[q] = st[q]
        BY <1>2, <1>3, <3>6 DEF State
      <4>2. \A w \in Replace(S, n(v)) : w.ip = st[p].ip
        BY <1>2, <2>2, <3>3
      <4> QED BY <1>6, <2>4, <3>1, <3>3, <3>4, <3>5, <3>6, <4>1, <4>2
    <3>7. CASE Fault(p, "finish") /\ UNCHANGED st
      BY <1>1, <3>5, <3>7, ProcessFault
    <3> QED BY <2>1, <3>5, <3>6, <3>7
  <2>6. CASE Fault(p, "finish") /\ UNCHANGED <<servers, st>>
    BY <1>1, <2>6, Untouched, ProcessFault
  <2> QED BY <2>1, <2>5, <2>6
<1> QED BY <1>7, <1>8
\* allocateResources: an address is known or taken, while there is no virtual server yet.
LEMMA AddressGood ==
  ASSUME Inv, Good, NEW p \in Proc, KeepAddress(p) \/ Allocate(p)
  PROVE  Good'
<1> DEFINE c == call[p]
           S == Of(servers, c.svc)
           L == Of(pools, c.svc)
           M == Of(monitors, c.svc)
<1>1. /\ pc[p] = "server" /\ pc[p] \in InProcess /\ UNCHANGED outside
      /\ UNCHANGED <<servers, pools, monitors, nextId>>
      /\ "createServer" \in InProcess
  BY DEF KeepAddress, Allocate, InProcess, AfterMonitors, nsxt
<1>2. /\ st[p].servers = S /\ st[p].pools = L /\ st[p].monitors = M
      /\ \A v \in S : v.ip = st[p].ip
      /\ Progress("server", c, st[p], cur[p], S, L, M) /\ pc[p] \in Inside
  BY <1>1, ProcessFacts
<1>3. cur \in [Proc -> Cur] /\ st \in [Proc -> State] /\ S \in SUBSET VirtualServer
  BY <1>2, AtFacts, OfType DEF Inv, TypeOK
<1>4. /\ Done(c, S, L, M, c.ports \ (cur[p].todo \cup {cur[p].port}))
      /\ PoolDone(c, L, M, cur[p].port, cur[p].pool)
  BY <1>2 DEF Progress
<1>5. Tidy(p)
  BY <1>1, Untouched
<1>6. Matching(S, cur[p].port) = {}
  BY <1>2 DEF KeepAddress, Allocate
<1>7. ASSUME NEW b, cur' = [cur EXCEPT ![p].allocated = b], Goto(p, "createServer"),
             st'[p].servers = S, st'[p].pools = L, st'[p].monitors = M,
             \A q \in Proc \ {p} : st'[q] = st[q], \A v \in S : v.ip = st'[p].ip
      PROVE  Good'
  <2>1. /\ cur'[p].todo = cur[p].todo /\ cur'[p].port = cur[p].port /\ cur'[p].pool = cur[p].pool
        /\ \A q \in Proc \ {p} : cur'[q] = cur[q]
    BY <1>3, <1>7 DEF Cur
  <2>2. Progress("createServer", c, st'[p], cur'[p], S, L, M)
    BY <1>4, <1>6, <1>7, <2>1 DEF Progress
  <2> QED BY <1>1, <1>5, <1>7, <2>1, <2>2, ProcessStep
<1>8. CASE KeepAddress(p)
  BY <1>2, <1>7, <1>8 DEF KeepAddress
<1>9. CASE Allocate(p)
  <2>1. S = {}
    <3>1. st[p].ip = NoIP
      BY <1>9 DEF Allocate
    <3>2. \A v \in S : v.ip \in IP
      BY <1>3 DEF VirtualServer
    <3> QED BY <1>2, <3>1, <3>2, NilAssumption
  <2>2. ASSUME NEW a, st' = [st EXCEPT ![p].ip = a], Goto(p, "createServer"),
               cur' = [cur EXCEPT ![p].allocated = TRUE]
        PROVE  Good'
    <3>1. /\ st'[p].servers = S /\ st'[p].pools = L /\ st'[p].monitors = M
          /\ \A q \in Proc \ {p} : st'[q] = st[q]
      BY <1>2, <1>3, <2>2 DEF State
    <3> QED BY <1>7, <2>1, <2>2, <3>1
  <2>3. CASE (Fault(p, "finish") \/ Error(p, "exhausted", "finish")) /\ UNCHANGED <<st, cur>>
    BY <1>1, <1>5, <2>3, ProcessFault
  <2> QED BY <1>9, <2>2, <2>3 DEF Allocate
<1> QED BY <1>8, <1>9

\* createVirtualServer: the creation
LEMMA CreateVirtualServerGood ==
  ASSUME Inv, Good, NEW p \in Proc, CreateVirtualServer(p)
  PROVE  Good'
<1> DEFINE c == call[p]
           S == Of(servers, c.svc)
           L == Of(pools, c.svc)
           M == Of(monitors, c.svc)
           v == NewVirtualServer(p)
<1>1. /\ pc[p] = "createServer" /\ pc[p] \in InProcess /\ UNCHANGED outside
      /\ pools' = pools /\ monitors' = monitors
      /\ "attach" \in InProcess /\ ReleaseIfAllocated(p) \in {"finish", "isAllocated"}
  BY DEF CreateVirtualServer, InProcess, AfterMonitors, ReleaseIfAllocated
<1>2. /\ st[p].servers = S /\ st[p].pools = L /\ st[p].monitors = M
      /\ \A w \in S : w.ip = st[p].ip
      /\ Progress("createServer", c, st[p], cur[p], S, L, M) /\ pc[p] \in Inside
  BY <1>1, ProcessFacts
<1>3. /\ cur \in [Proc -> Cur] /\ st \in [Proc -> State] /\ nextId \in Nat \ {0}
      /\ Consistent(S, L, M) /\ KeysInv
  BY <1>2, AtFacts DEF Good
<1>4. /\ Done(c, S, L, M, c.ports \ (cur[p].todo \cup {cur[p].port}))
      /\ PoolDone(c, L, M, cur[p].port, cur[p].pool) /\ Matching(S, cur[p].port) = {}
  BY <1>2 DEF Progress
<1>5. /\ v.id = nextId /\ v.svc = c.svc /\ v.port = cur[p].port /\ v.nodePort = c.nodePort
      /\ v.pool = cur[p].pool /\ v.ip = st[p].ip
  BY DEF NewVirtualServer
<1>6. \/ /\ servers' = servers \cup {v} /\ nextId' = nextId + 1
         /\ \/ /\ st' = [st EXCEPT ![p].servers = @ \cup {v}]
               /\ cur' = [cur EXCEPT ![p].server = v.id]
               /\ Goto(p, "attach")
            \/ Fault(p, ReleaseIfAllocated(p)) /\ UNCHANGED <<st, cur>>
      \/ Fault(p, ReleaseIfAllocated(p)) /\ UNCHANGED <<servers, nextId, st, cur>>
  BY DEF CreateVirtualServer
<1> HIDE DEF v
<1>7. CASE servers' = servers \cup {v} /\ nextId' = nextId + 1
  <2>1. /\ Keyed(servers \cup {v}, nextId + 1)
        /\ Of(servers \cup {v}, v.svc) = Of(servers, v.svc) \cup {v}
        /\ \A s : s # v.svc => Of(servers \cup {v}, s) = Of(servers, s)
    BY <1>3, <1>5, Added DEF KeysInv
  <2>2. Keyed(pools, nextId') /\ Keyed(monitors, nextId')
    BY <1>3, <1>7, KeyedWeaker DEF KeysInv
  <2>3. \E l \in L : l.id = v.pool /\ l.port = v.port
    BY <1>4, <1>5 DEF PoolDone
  <2>4. /\ Consistent(S \cup {v}, L, M)
        /\ \A q : PortDone(c, S, L, M, q) => PortDone(c, S \cup {v}, L, M, q)
    BY <1>2, <1>3, <1>4, <1>5, <2>3, ServerAdded
  <2>5. PortDone(c, S \cup {v}, L, M, cur[p].port)
    BY <1>4, <1>5 DEF PortDone
  <2>6. Done(c, S \cup {v}, L, M, c.ports \ cur[p].todo)
    BY <1>4, <2>4, <2>5 DEF Done
  <2>7. Of(servers', c.svc) = S \cup {v}
    BY <1>5, <1>7, <2>1
  <2>8. Tidy(p)
    BY <1>1, <1>5, <1>7, <2>1, <2>2, <2>4, <2>7, TidyIf DEF KeysInv
  <2>9. CASE /\ st' = [st EXCEPT ![p].servers = @ \cup {v}]
             /\ cur' = [cur EXCEPT ![p].server = v.id]
             /\ Goto(p, "attach")
    <3>1. /\ st'[p].pools = L /\ st'[p].monitors = M /\ st'[p].ip = st[p].ip
          /\ st'[p].servers = S \cup {v} /\ \A q \in Proc \ {p} : st'[q] = st[q]
      BY <1>2, <1>3, <2>9 DEF State
    <3>2. /\ cur'[p].todo = cur[p].todo /\ cur'[p].server = v.id
          /\ \A q \in Proc \ {p} : cur'[q] = cur[q]
      BY <1>3, <2>9 DEF Cur
    <3>3. Progress("attach", c, st'[p], cur'[p], S \cup {v}, L, M)
      BY <1>2, <1>5, <2>6, <3>1, <3>2 DEF Progress
    <3> QED BY <1>1, <2>7, <2>8, <2>9, <3>1, <3>2, <3>3, ProcessStep
  <2>10. CASE Fault(p, ReleaseIfAllocated(p)) /\ UNCHANGED <<st, cur>>
    BY <1>1, <2>8, <2>10, ProcessFault
  <2> QED BY <1>6, <2>9, <2>10
<1>8. CASE Fault(p, ReleaseIfAllocated(p)) /\ UNCHANGED <<servers, nextId, st, cur>>
  BY <1>1, <1>8, Untouched, ProcessFault
<1> QED BY <1>6, <1>7, <1>8

\* addVirtualServerToLoadBalancerService; after an error the virtual server is still there.
LEMMA AttachGood ==
  ASSUME Inv, Good, NEW p \in Proc, Attach(p)
  PROVE  Good'
<1> DEFINE c == call[p]
           S == Of(servers, c.svc)
           L == Of(pools, c.svc)
           M == Of(monitors, c.svc)
<1>1. /\ pc[p] = "attach" /\ pc[p] \in InProcess /\ UNCHANGED outside /\ UNCHANGED <<st, cur>>
      /\ UNCHANGED <<servers, pools, monitors, nextId>> /\ "ports" \in InProcess
  BY DEF Attach, InProcess, AfterMonitors
<1>2. /\ st[p].servers = S /\ st[p].pools = L /\ st[p].monitors = M
      /\ c.op # "update" /\ \A v \in S : v.ip = st[p].ip
      /\ Progress("attach", c, st[p], cur[p], S, L, M) /\ pc[p] \in Inside
      /\ \E v \in S : v.id = cur[p].server
  BY <1>1, ProcessFacts
<1>3. Tidy(p)
  BY <1>1, Untouched
<1>4. CASE Goto(p, "ports")
  <2>1. Progress("ports", c, st[p], cur[p], S, L, M)
    BY <1>2 DEF Progress
  <2> QED BY <1>1, <1>2, <1>3, <1>4, <2>1, ProcessStep
<1>5. CASE Fault(p, "rollback")
  <2>1. err'[p] # "none" /\ MovesTo(p, "rollback") /\ "rollback" \in Inside
    BY <1>5 DEF Fault, MovesTo, Inv, TypeOK, Inside, Label
  <2>2. At("rollback", err'[p], c, st[p], cur[p], S, L, M)
    BY <1>2, <2>1 DEF At, Quiet, Updating, AfterServers, AfterPools, AfterMonitors
  <2> QED BY <1>1, <1>2, <1>3, <2>1, <2>2, FrameStep
<1> QED BY <1>4, <1>5 DEF Attach

\* The new virtual server, and no other, is deleted again.
LEMMA RollbackGood ==
  ASSUME Inv, Good, NEW p \in Proc, Rollback(p)
  PROVE  Good'
<1> DEFINE c == call[p]
           S == Of(servers, c.svc)
           L == Of(pools, c.svc)
           M == Of(monitors, c.svc)
<1>1. /\ pc[p] = "rollback" /\ pc[p] \in Inside /\ UNCHANGED outside /\ UNCHANGED <<st, cur>>
      /\ UNCHANGED <<pools, monitors, nextId>>
      /\ ReleaseIfAllocated(p) \in {"finish", "isAllocated"}
      /\ MovesTo(p, ReleaseIfAllocated(p))
      /\ servers' = servers \/ servers' = Without(servers, cur[p].server)
  BY DEF Rollback, Inside, Label, ReleaseIfAllocated, MovesTo
<1>2. /\ Consistent(S, L, M) /\ KeysInv
      /\ At("rollback", err[p], c, st[p], cur[p], S, L, M)
  BY <1>1, AtFacts DEF Good
<1>3. /\ err[p] # "none" /\ c.op # "update" /\ \E v \in S : v.id = cur[p].server
  BY <1>2 DEF At, Ensuring
<1>4. err'[p] # "none"
  BY <1>1, <1>3 DEF MovesTo, Goto, Fault, Error, Inv, TypeOK
<1>5. Tidy(p)
  <2>1. CASE servers' = servers
    BY <1>1, <2>1, Untouched
  <2>2. CASE servers' = Without(servers, cur[p].server)
    <3>1. PICK v \in S : v.id = cur[p].server
      BY <1>3
    <3>2. v \in servers /\ v.svc = c.svc
      BY DEF Of
    <3>3. /\ Keyed(servers', nextId) /\ Of(servers', c.svc) = Without(S, cur[p].server)
          /\ \A s : s # c.svc => Of(servers', s) = Of(servers, s)
      BY <1>2, <2>2, <3>1, <3>2, Removed DEF KeysInv
    <3>4. Consistent(Without(S, cur[p].server), L, M)
      BY <1>2, ServerRemoved
    <3> QED BY <1>1, <1>2, <3>3, <3>4, TidyIf DEF KeysInv
  <2> QED BY <1>1, <2>1, <2>2
<1> QED BY <1>1, <1>3, <1>4, <1>5, ErrStep
-----------------------------------------------------------------------------
(***************************************************************************)
(* The clean-up: what is deleted is not referred to, and what the ports    *)
(* need stays                                                              *)
(***************************************************************************)

\* deleteVirtualServer: the virtual server is detached.
LEMMA DetachGood ==
  ASSUME Inv, Good, NEW p \in Proc, Detach(p)
  PROVE  Good'
<1> DEFINE c == call[p]
           S == Of(servers, c.svc)
           L == Of(pools, c.svc)
           M == Of(monitors, c.svc)
<1>1. /\ pc[p] = "orphanServers" /\ pc[p] \in InProcess /\ UNCHANGED outside /\ st' = st
      /\ UNCHANGED <<servers, pools, monitors, nextId>> /\ "deleteServer" \in InProcess
  BY DEF Detach, InProcess, AfterMonitors
<1>2. /\ st[p].servers = S /\ st[p].pools = L /\ st[p].monitors = M
      /\ Progress("orphanServers", c, st[p], cur[p], S, L, M) /\ pc[p] \in Inside
      /\ \A v \in S : v.ip = st[p].ip
  BY <1>1, ProcessFacts
<1>3. cur \in [Proc -> Cur] /\ Keyed(S, nextId)
  BY <1>2, AtFacts
<1>4. Tidy(p)
  BY <1>1, Untouched
<1>5. CASE \E v \in S : /\ v.port \notin c.ports
                        /\ cur' = [cur EXCEPT ![p].server = v.id] /\ Goto(p, "deleteServer")
  <2>1. PICK v \in S : /\ v.port \notin c.ports
                       /\ cur' = [cur EXCEPT ![p].server = v.id] /\ Goto(p, "deleteServer")
    BY <1>5
  <2>2. cur'[p].server = v.id /\ \A q \in Proc \ {p} : cur'[q] = cur[q]
    BY <1>3, <2>1 DEF Cur
  <2>3. \A w \in S : w.id = v.id => w.port \notin c.ports
    BY <1>3, <2>1 DEF Keyed
  <2>4. Progress("deleteServer", c, st[p], cur'[p], S, L, M)
    BY <1>2, <2>2, <2>3 DEF Progress
  <2> QED BY <1>1, <1>2, <1>4, <2>1, <2>2, <2>4, ProcessStep
<1>6. CASE Fault(p, "finish") /\ cur' = cur
  BY <1>1, <1>4, <1>6, ProcessFault
<1> QED BY <1>2, <1>5, <1>6 DEF Detach, Orphaned

\* deleteVirtualServer: it is deleted.  No port needs it.
LEMMA DeleteVirtualServerGood ==
  ASSUME Inv, Good, NEW p \in Proc, DeleteVirtualServer(p)
  PROVE  Good'
<1> DEFINE c == call[p]
           S == Of(servers, c.svc)
           L == Of(pools, c.svc)
           M == Of(monitors, c.svc)
           i == cur[p].server
<1>1. /\ pc[p] = "deleteServer" /\ pc[p] \in InProcess /\ UNCHANGED outside /\ cur' = cur
      /\ UNCHANGED <<pools, monitors, nextId>> /\ "orphanServers" \in InProcess
  BY DEF DeleteVirtualServer, InProcess, AfterMonitors
<1>2. /\ st[p].servers = S /\ st[p].pools = L /\ st[p].monitors = M
      /\ \A v \in S : v.ip = st[p].ip
      /\ Progress("deleteServer", c, st[p], cur[p], S, L, M) /\ pc[p] \in Inside
      /\ \E v \in S : v.id = i
  BY <1>1, ProcessFacts
<1>3. st \in [Proc -> State] /\ Consistent(S, L, M) /\ KeysInv
  BY <1>2, AtFacts DEF Good
<1>4. Done(c, S, L, M, c.ports) /\ \A v \in S : v.id = i => v.port \notin c.ports
  BY <1>2 DEF Progress
<1>5. CASE servers' = Without(servers, i)
  <2>1. PICK v \in S : v.id = i
    BY <1>2
  <2>2. v \in servers /\ v.svc = c.svc
    BY DEF Of
  <2>3. /\ Keyed(servers', nextId) /\ Of(servers', c.svc) = Without(S, i)
        /\ \A s : s # c.svc => Of(servers', s) = Of(servers, s)
    BY <1>3, <1>5, <2>1, <2>2, Removed DEF KeysInv
  <2>4. /\ Consistent(Without(S, i), L, M)
        /\ \A q : (\A w \in S : w.id = i => w.port # q) /\ PortDone(c, S, L, M, q)
                    => PortDone(c, Without(S, i), L, M, q)
    BY <1>3, ServerRemoved
  <2>5. Done(c, Without(S, i), L, M, c.ports)
    BY <1>4, <2>4 DEF Done
  <2>6. Tidy(p)
    BY <1>1, <1>3, <2>3, <2>4, TidyIf DEF KeysInv
  <2>7. CASE st' = [st EXCEPT ![p].servers = Without(@, i)] /\ Goto(p, "orphanServers")
    <3>1. /\ st'[p].pools = L /\ st'[p].monitors = M /\ st'[p].ip = st[p].ip
          /\ st'[p].servers = Without(S, i) /\ \A q \in Proc \ {p} : st'[q] = st[q]
      BY <1>2, <1>3, <2>7 DEF State
    <3>2. \A w \in Without(S, i) : w.ip = st'[p].ip
      BY <1>2, <3>1 DEF Without
    <3>3. Progress("orphanServers", c, st'[p], cur[p], Without(S, i), L, M)
      BY <2>5, <3>2 DEF Progress
    <3> QED BY <1>1, <2>3, <2>6, <2>7, <3>1, <3>3, ProcessStep
  <2>8. CASE Fault(p, "finish") /\ UNCHANGED st
    BY <1>1, <2>6, <2>8, ProcessFault
  <2> QED BY <1>5, <2>6, <2>7, <2>8 DEF DeleteVirtualServer
<1>6. CASE Fault(p, "finish") /\ UNCHANGED <<servers, st>>
  BY <1>1, <1>6, Untouched, ProcessFault
<1> QED BY <1>5, <1>6 DEF DeleteVirtualServer

\* deletePool.  No virtual server refers to the pool: those that are left have a port of
\* the call, and so has the pool they use.
LEMMA DeletePoolGood ==
  ASSUME Inv, Good, NEW p \in Proc, DeletePool(p)
  PROVE  Good'
<1> DEFINE c == call[p]
           S == Of(servers, c.svc)
           L == Of(pools, c.svc)
           M == Of(monitors, c.svc)
<1>1. /\ pc[p] = "orphanPools" /\ pc[p] \in InProcess /\ UNCHANGED outside /\ cur' = cur
      /\ UNCHANGED <<servers, monitors, nextId>>
  BY DEF DeletePool, InProcess, AfterMonitors
<1>2. /\ st[p].servers = S /\ st[p].pools = L /\ st[p].monitors = M
      /\ \A v \in S : v.ip = st[p].ip
      /\ Progress("orphanPools", c, st[p], cur[p], S, L, M) /\ pc[p] \in Inside
  BY <1>1, ProcessFacts
<1>3. st \in [Proc -> State] /\ Consistent(S, L, M) /\ KeysInv /\ Keyed(L, nextId)
  BY <1>2, AtFacts DEF Good
<1>4. Done(c, S, L, M, c.ports) /\ \A v \in S : v.port \in c.ports
  BY <1>2 DEF Progress
<1>5. PICK l \in st[p].pools \ ValidPools(p) :
        \/ /\ pools' = Without(pools, l.id)
           /\ \/ /\ st' = [st EXCEPT ![p].pools = Without(@, l.id)]
                 /\ Goto(p, "orphanPools")
              \/ Fault(p, "finish") /\ UNCHANGED st
        \/ Fault(p, "finish") /\ UNCHANGED <<pools, st>>
  BY DEF DeletePool
<1>6. l \in L /\ l \in pools /\ l.svc = c.svc
  BY <1>2, <1>5 DEF Of
<1>7. ~Used(c, S, l)
  BY <1>2, <1>5 DEF ValidPools, Orphaned, Used
<1>8. \A v \in S : v.pool # l.id
  <2> SUFFICES ASSUME NEW v \in S, v.pool = l.id PROVE FALSE
    OBVIOUS
  <2>1. PICK k \in L : k.id = v.pool /\ k.port = v.port
    BY <1>3 DEF Consistent
  <2>2. k = l
    BY <1>3, <1>6, <2>1 DEF Keyed
  <2> QED BY <1>4, <1>7, <2>1, <2>2 DEF Used
<1>9. CASE pools' = Without(pools, l.id)
  <2>1. /\ Keyed(pools', nextId) /\ Of(pools', c.svc) = Without(L, l.id)
        /\ \A s : s # c.svc => Of(pools', s) = Of(pools, s)
    BY <1>3, <1>6, <1>9, Removed DEF KeysInv
  <2>2. /\ Consistent(S, Without(L, l.id), M)
        /\ \A q : PortDone(c, S, L, M, q) => PortDone(c, S, Without(L, l.id), M, q)
    BY <1>3, <1>8, PoolRemoved
  <2>3. Done(c, S, Without(L, l.id), M, c.ports)
    BY <1>4, <2>2 DEF Done
  <2>4. Tidy(p)
    BY <1>1, <1>3, <2>1, <2>2, TidyIf DEF KeysInv
  <2>5. CASE st' = [st EXCEPT ![p].pools = Without(@, l.id)] /\ Goto(p, "orphanPools")
    <3>1. /\ st'[p].servers = S /\ st'[p].monitors = M /\ st'[p].ip = st[p].ip
          /\ st'[p].pools = Without(L, l.id) /\ \A q \in Proc \ {p} : st'[q] = st[q]
      BY <1>2, <1>3, <2>5 DEF State
    <3>2. Progress("orphanPools", c, st'[p], cur[p], S, Without(L, l.id), M)
      BY <1>2, <1>4, <2>3, <3>1 DEF Progress
    <3> QED BY <1>1, <2>1, <2>4, <2>5, <3>1, <3>2, ProcessStep
  <2>6. CASE Fault(p, "finish") /\ UNCHANGED st
    BY <1>1, <2>4, <2>6, ProcessFault
  <2> QED BY <1>1, <1>5, <2>4, <2>5, <2>6
<1>10. CASE Fault(p, "finish") /\ UNCHANGED <<pools, st>>
  BY <1>1, <1>10, Untouched, ProcessFault
<1> QED BY <1>5, <1>9, <1>10

\* deleteTCPMonitor.  No pool refers to the monitor: those that are left are in use, and
\* have the port of their monitor.
LEMMA DeleteTCPMonitorGood ==
  ASSUME Inv, Good, NEW p \in Proc, DeleteTCPMonitor(p)
  PROVE  Good'
<1> DEFINE c == call[p]
           S == Of(servers, c.svc)
           L == Of(pools, c.svc)
           M == Of(monitors, c.svc)
<1>1. /\ pc[p] = "orphanMonitors" /\ pc[p] \in InProcess /\ UNCHANGED outside /\ cur' = cur
      /\ UNCHANGED <<servers, pools, nextId>>
  BY DEF DeleteTCPMonitor, InProcess, AfterMonitors
<1>2. /\ st[p].servers = S /\ st[p].pools = L /\ st[p].monitors = M
      /\ \A v \in S : v.ip = st[p].ip
      /\ Progress("orphanMonitors", c, st[p], cur[p], S, L, M) /\ pc[p] \in Inside
  BY <1>1, ProcessFacts
<1>3. /\ st \in [Proc -> State] /\ Consistent(S, L, M) /\ KeysInv
      /\ Keyed(M, nextId) /\ nextId \in Nat
  BY <1>2, AtFacts DEF Good
<1>4. /\ Done(c, S, L, M, c.ports) /\ \A v \in S : v.port \in c.ports
      /\ \A l \in L : Used(c, S, l)
  BY <1>2 DEF Progress
<1>5. PICK m \in st[p].monitors \ ValidTCPMonitors(p) :
        \/ /\ monitors' = Without(monitors, m.id)
           /\ \/ /\ st' = [st EXCEPT ![p].monitors = Without(@, m.id)]
                 /\ Goto(p, "orphanMonitors")
              \/ Fault(p, "finish") /\ UNCHANGED st
        \/ Fault(p, "finish") /\ UNCHANGED <<monitors, st>>
  BY DEF DeleteTCPMonitor
<1>6. m \in M /\ m \in monitors /\ m.svc = c.svc /\ m.id # NoId
  BY <1>2, <1>3, <1>5 DEF Of, Keyed, NoId
<1>7. \A l \in L : l \in ValidPools(p)
  BY <1>2, <1>4 DEF ValidPools, Orphaned, Used
<1>8. \A l \in L : l.monitor # m.id
  <2> SUFFICES ASSUME NEW l \in L, l.monitor = m.id PROVE FALSE
    OBVIOUS
  <2>1. PICK k \in M : k.id = l.monitor /\ k.port = l.port
    BY <1>3, <1>6 DEF Consistent
  <2>2. k = m
    BY <1>3, <1>6, <2>1 DEF Keyed
  <2>3. m.port \in c.ports
    BY <1>4, <2>1, <2>2 DEF Used
  <2> QED BY <1>5, <1>7, <2>3 DEF ValidTCPMonitors
<1>9. CASE monitors' = Without(monitors, m.id)
  <2>1. /\ Keyed(monitors', nextId) /\ Of(monitors', c.svc) = Without(M, m.id)
        /\ \A s : s # c.svc => Of(monitors', s) = Of(monitors, s)
    BY <1>3, <1>6, <1>9, Removed DEF KeysInv
  <2>2. /\ Consistent(S, L, Without(M, m.id))
        /\ \A q : PortDone(c, S, L, M, q) => PortDone(c, S, L, Without(M, m.id), q)
    BY <1>3, <1>8, MonitorRemoved
  <2>3. Done(c, S, L, Without(M, m.id), c.ports)
    BY <1>4, <2>2 DEF Done
  <2>4. Tidy(p)
    BY <1>1, <1>3, <2>1, <2>2, TidyIf DEF KeysInv
  <2>5. CASE st' = [st EXCEPT ![p].monitors = Without(@, m.id)] /\ Goto(p, "orphanMonitors")
    <3>1. /\ st'[p].servers = S /\ st'[p].pools = L /\ st'[p].ip = st[p].ip
          /\ st'[p].monitors = Without(M, m.id) /\ \A q \in Proc \ {p} : st'[q] = st[q]
      BY <1>2, <1>3, <2>5 DEF State
    <3>2. Progress("orphanMonitors", c, st'[p], cur[p], S, L, Without(M, m.id))
      BY <1>2, <1>4, <2>3, <3>1 DEF Progress
    <3> QED BY <1>1, <2>1, <2>4, <2>5, <3>1, <3>2, ProcessStep
  <2>6. CASE Fault(p, "finish") /\ UNCHANGED st
    BY <1>1, <2>4, <2>6, ProcessFault
  <2> QED BY <1>1, <1>5, <2>4, <2>5, <2>6
<1>10. CASE Fault(p, "finish") /\ UNCHANGED <<monitors, st>>
  BY <1>1, <1>10, Untouched, ProcessFault
<1> QED BY <1>5, <1>9, <1>10
\* Nothing is left to delete of one kind.
LEMMA NoOrphansGood ==
  ASSUME Inv, Good, NEW p \in Proc,
         NoOrphanServers(p) \/ NoOrphanPools(p) \/ NoOrphanTCPMonitors(p)
  PROVE  Good'
<1> DEFINE c == call[p]
           S == Of(servers, c.svc)
           L == Of(pools, c.svc)
           M == Of(monitors, c.svc)
<1>1. /\ pc[p] \in InProcess /\ UNCHANGED outside /\ UNCHANGED <<st, cur>>
      /\ UNCHANGED <<servers, pools, monitors, nextId>>
      /\ "orphanPools" \in InProcess /\ "orphanMonitors" \in InProcess
  BY DEF NoOrphanServers, NoOrphanPools, NoOrphanTCPMonitors, InProcess, AfterMonitors, nsxt
<1>2. /\ st[p].servers = S /\ st[p].pools = L /\ st[p].monitors = M
      /\ err[p] = "none" /\ c.op # "update" /\ \A v \in S : v.ip = st[p].ip
      /\ Progress(pc[p], c, st[p], cur[p], S, L, M) /\ pc[p] \in Inside
  BY <1>1, ProcessFacts
<1>3. Tidy(p)
  BY <1>1, Untouched
<1>4. CASE NoOrphanServers(p)
  <2>1. pc[p] = "orphanServers" /\ Goto(p, "orphanPools") /\ \A v \in S : v.port \in c.ports
    BY <1>2, <1>4 DEF NoOrphanServers, Orphaned
  <2>2. Progress("orphanPools", c, st[p], cur[p], S, L, M)
    BY <1>2, <2>1 DEF Progress
  <2> QED BY <1>1, <1>2, <1>3, <2>1, <2>2, ProcessStep
<1>5. CASE NoOrphanPools(p)
  <2>1. pc[p] = "orphanPools" /\ Goto(p, "orphanMonitors") /\ \A l \in L : l \in ValidPools(p)
    BY <1>2, <1>5 DEF NoOrphanPools
  <2>2. \A l \in L : Used(c, S, l)
    BY <1>2, <2>1 DEF ValidPools, Orphaned, Used
  <2>3. Progress("orphanMonitors", c, st[p], cur[p], S, L, M)
    BY <1>2, <2>1, <2>2 DEF Progress
  <2> QED BY <1>1, <1>2, <1>3, <2>1, <2>3, ProcessStep
<1>6. CASE NoOrphanTCPMonitors(p)
  <2>1. /\ pc[p] = "orphanMonitors" /\ Goto(p, "finish")
        /\ \A m \in M : m \in ValidTCPMonitors(p)
    BY <1>2, <1>6 DEF NoOrphanTCPMonitors
  <2>2. /\ Done(c, S, L, M, c.ports) /\ \A v \in S : v.port \in c.ports
        /\ \A l \in L : Used(c, S, l)
    BY <1>2, <2>1 DEF Progress
  <2>3. Consistent(S, L, M) /\ Keyed(M, nextId) /\ Keyed(L, nextId) /\ nextId \in Nat
    BY <1>2, AtFacts
  \* A monitor that is kept is that of a pool for a TCP port: another has none.
  <2>4. ASSUME NEW m \in M PROVE m.port \in c.ports \cap TCP
    <3>1. PICK l \in L : l.monitor = m.id
      BY <1>2, <2>1 DEF ValidTCPMonitors, ValidPools
    <3>2. m.id # NoId
      BY <2>3 DEF Keyed, NoId
    <3>3. PICK k \in M : k.id = l.monitor /\ k.port = l.port
      BY <2>3, <3>1, <3>2 DEF Consistent
    <3>4. m.port = l.port
      BY <2>3, <3>1, <3>3 DEF Keyed
    <3>5. l.port \in c.ports
      BY <2>2 DEF Used
    <3>6. PICK y \in L : y.port = l.port /\ MonitorDone(c, M, l.port, y.monitor)
      BY <2>2, <3>5 DEF Done, PortDone, PoolDone
    <3>7. y = l
      BY <2>3, <3>6 DEF Consistent, OnePerPort
    <3>8. l.port \in TCP
      BY <3>1, <3>2, <3>6, <3>7 DEF MonitorDone
    <3> QED BY <3>4, <3>5, <3>8
  <2>5. Exact(c, st[p].ip, S, L, M)
    BY <1>2, <2>2, <2>4 DEF Exact, Used
  <2>6. Progress("finish", c, st[p], cur[p], S, L, M)
    BY <1>2, <2>5 DEF Progress
  <2>7. At("finish", "none", c, st[p], cur[p], S, L, M)
    BY <1>2, <2>6 DEF At, Snapshot, Quiet, Updating
  <2>8. err'[p] = "none" /\ MovesTo(p, "finish") /\ "finish" \in Inside
    BY <1>2, <2>1 DEF Goto, MovesTo, Inside, Label
  <2> QED BY <1>1, <1>2, <1>3, <2>7, <2>8, FrameStep
<1> QED BY <1>4, <1>5, <1>6

\* Finish and releaseResources leave the objects alone.
LEMMA FinishGood ==
  ASSUME Inv, Good, NEW p \in Proc, Finish(p) \/ IsAllocated(p) \/ Release(p)
  PROVE  Good'
<1> DEFINE c == call[p]
           S == Of(servers, c.svc)
           L == Of(pools, c.svc)
           M == Of(monitors, c.svc)
<1>1. /\ pc[p] \in {"finish", "isAllocated", "release"} /\ pc[p] \in Inside
      /\ UNCHANGED outside /\ UNCHANGED <<st, cur>>
      /\ UNCHANGED <<servers, pools, monitors, nextId>>
  BY DEF Finish, IsAllocated, Release, Inside, Label, nsxt
<1>2. PICK l \in {"isAllocated", "release", "unlock"} :
        Goto(p, l) \/ (l = "unlock" /\ Fault(p, "unlock"))
  BY DEF Finish, IsAllocated, Release
<1>3. MovesTo(p, l) /\ l \in Inside
  BY <1>2 DEF MovesTo, Inside, Label
<1>4. At(pc[p], err[p], c, st[p], cur[p], S, L, M)
  BY <1>1, AtFacts
<1>5. c.op # "update"
  BY <1>1, <1>4 DEF At, Ensuring, AfterServers, AfterPools, AfterMonitors
<1>6. Tidy(p)
  BY <1>1, Untouched
<1>7. CASE err'[p] # "none"
  BY <1>1, <1>3, <1>5, <1>6, <1>7, ErrStep
<1>8. CASE err'[p] = "none"
  <2>1. err[p] = "none"
    BY <1>2, <1>8 DEF Goto, Fault, Inv, TypeOK
  <2>2. Exact(c, st[p].ip, S, L, M)
    BY <1>1, <1>4, <2>1 DEF At, Progress
  <2>3. At(l, "none", c, st[p], cur[p], S, L, M)
    BY <1>5, <2>2 DEF At, Snapshot, Progress, Quiet, Ensuring, Updating, AfterServers,
                      AfterPools, AfterMonitors
  <2> QED BY <1>1, <1>3, <1>6, <1>8, <2>3, FrameStep
<1> QED BY <1>7, <1>8

-----------------------------------------------------------------------------
(***************************************************************************)
(* The lists are read                                                      *)
(***************************************************************************)

\* FindVirtualServers and FindPools in Process
LEMMA FindGood ==
  ASSUME Inv, Good, NEW p \in Proc, FindVirtualServers(p) \/ FindPools(p)
  PROVE  Good'
<1> DEFINE c == call[p]
           S == Of(servers, c.svc)
           L == Of(pools, c.svc)
           M == Of(monitors, c.svc)
<1>1. /\ pc[p] \in {"findServers", "findPools"} /\ pc[p] \in Inside
      /\ UNCHANGED outside /\ cur' = cur
      /\ UNCHANGED <<servers, pools, monitors, nextId>>
  BY DEF FindVirtualServers, FindPools, Inside, Label, nsxt
<1>2. At(pc[p], err[p], c, st[p], cur[p], S, L, M) /\ st \in [Proc -> State]
  BY <1>1, AtFacts
<1>3. c.op # "update" /\ err[p] = "none"
  BY <1>1, <1>2 DEF At, Ensuring, Quiet, AfterServers
<1>4. Tidy(p)
  BY <1>1, Untouched
<1>5. CASE Fault(p, "finish") /\ st' = st
  BY <1>1, <1>3, <1>4, <1>5, FaultStep
<1>6. CASE FindVirtualServers(p) /\ Goto(p, "findPools")
           /\ st' = [st EXCEPT ![p].servers = S]
  <2>1. st'[p].servers = S /\ \A q \in Proc \ {p} : st'[q] = st[q]
    BY <1>2, <1>6 DEF State
  <2>2. At("findPools", "none", c, st'[p], cur[p], S, L, M)
    BY <1>3, <2>1 DEF At, Snapshot, Progress, Quiet, Updating, AfterServers, AfterPools,
                      AfterMonitors
  <2>3. err'[p] = "none" /\ MovesTo(p, "findPools") /\ "findPools" \in Inside
    BY <1>3, <1>6 DEF Goto, MovesTo, Inside, Label
  <2> QED BY <1>1, <1>4, <2>1, <2>2, <2>3, FrameStep
<1>7. CASE FindPools(p) /\ Goto(p, "findMonitors") /\ st' = [st EXCEPT ![p].pools = L]
  <2>1. /\ st'[p].servers = st[p].servers /\ st'[p].pools = L
        /\ \A q \in Proc \ {p} : st'[q] = st[q]
    BY <1>2, <1>7 DEF State
  <2>2. st[p].servers = S
    BY <1>2, <1>3, <1>7 DEF At, Snapshot, FindPools, AfterServers
  <2>3. At("findMonitors", "none", c, st'[p], cur[p], S, L, M)
    BY <1>3, <2>1, <2>2 DEF At, Snapshot, Progress, Quiet, Updating, AfterServers, AfterPools,
                            AfterMonitors
  <2>4. err'[p] = "none" /\ MovesTo(p, "findMonitors") /\ "findMonitors" \in Inside
    BY <1>3, <1>7 DEF Goto, MovesTo, Inside, Label
  <2> QED BY <1>1, <1>4, <2>1, <2>3, <2>4, FrameStep
<1> QED BY <1>5, <1>6, <1>7 DEF FindVirtualServers, FindPools

\* FindTCPMonitors: all virtual servers have the address of the first one.
LEMMA FindTCPMonitorsGood ==
  ASSUME Inv, Good, NEW p \in Proc, FindTCPMonitors(p)
  PROVE  Good'
<1> DEFINE c == call[p]
           S == Of(servers, c.svc)
           L == Of(pools, c.svc)
           M == Of(monitors, c.svc)
<1>1. /\ pc[p] = "findMonitors" /\ pc[p] \in Inside /\ UNCHANGED outside
      /\ UNCHANGED <<servers, pools, monitors, nextId>>
  BY DEF FindTCPMonitors, Inside, Label, nsxt
<1>2. /\ At("findMonitors", err[p], c, st[p], cur[p], S, L, M)
      /\ st \in [Proc -> State] /\ cur \in [Proc -> Cur] /\ Consistent(S, L, M)
  BY <1>1, AtFacts
<1>3. c.op # "update" /\ err[p] = "none" /\ st[p].servers = S /\ st[p].pools = L
  BY <1>2 DEF At, Snapshot, Ensuring, Quiet, AfterServers, AfterPools, AfterMonitors
<1>4. Tidy(p)
  BY <1>1, Untouched
<1>5. CASE Fault(p, "finish") /\ UNCHANGED <<st, cur>>
  BY <1>1, <1>3, <1>4, <1>5, FaultStep
<1>6. CASE /\ \E a \in AddressAndClass(p) :
                st' = [st EXCEPT ![p].monitors = M, ![p].ip = a.ip, ![p].class = a.class]
           /\ cur' = [cur EXCEPT ![p].todo = c.ports]
           /\ Goto(p, "ports")
  <2>1. PICK a \in AddressAndClass(p) :
          st' = [st EXCEPT ![p].monitors = M, ![p].ip = a.ip, ![p].class = a.class]
    BY <1>6
  <2>2. /\ st'[p].servers = S /\ st'[p].pools = L /\ st'[p].monitors = M /\ st'[p].ip = a.ip
        /\ \A q \in Proc \ {p} : st'[q] = st[q]
    BY <1>2, <1>3, <2>1 DEF State
  <2>3. cur'[p].todo = c.ports /\ \A q \in Proc \ {p} : cur'[q] = cur[q]
    BY <1>2, <1>6 DEF Cur
  <2>4. \A v \in S : v.ip = a.ip
    BY <1>2, <1>3, <2>1 DEF AddressAndClass, Consistent
  <2>5. Progress("ports", c, st'[p], cur'[p], S, L, M)
    BY <2>2, <2>3, <2>4 DEF Progress, Done
  <2>6. err'[p] = "none" /\ MovesTo(p, "ports") /\ "ports" \in Inside /\ "ports" \in InProcess
    BY <1>3, <1>6 DEF Goto, MovesTo, Inside, Label, InProcess, AfterMonitors
  <2>7. At("ports", err'[p], c, st'[p], cur'[p], S, L, M)
    BY <1>3, <2>2, <2>5, <2>6, InProcessAt
  <2> QED BY <1>1, <1>4, <2>2, <2>3, <2>6, <2>7, FrameStep
<1> QED BY <1>5, <1>6 DEF FindTCPMonitors
-----------------------------------------------------------------------------
(***************************************************************************)
(* UpdatePoolMembers                                                       *)
(***************************************************************************)

\* The pools are read, updated one by one, and in the end none is outdated.
LEMMA UpdateGood ==
  ASSUME Inv, Good, NEW p \in Proc,
         UpdateFindPools(p) \/ UpdatePoolMembers(p) \/ UpdatePoolMembersDone(p)
  PROVE  Good'
<1> DEFINE c == call[p]
           S == Of(servers, c.svc)
           L == Of(pools, c.svc)
           M == Of(monitors, c.svc)
<1>1. /\ pc[p] \in {"updateFind", "updatePools"} /\ pc[p] \in Inside
      /\ UNCHANGED outside /\ cur' = cur
      /\ UNCHANGED <<servers, monitors, nextId>>
      /\ "updatePools" \in Inside /\ "unlock" \in Inside
  BY DEF UpdateFindPools, UpdatePoolMembers, UpdatePoolMembersDone, Inside, Label, nsxt
<1>2. /\ At(pc[p], err[p], c, st[p], cur[p], S, L, M) /\ st \in [Proc -> State]
      /\ Consistent(S, L, M) /\ Keyed(L, nextId) /\ KeysInv
  BY <1>1, AtFacts DEF Good
<1>3. c.op = "update" /\ err[p] = "none" /\ (pc[p] = "updatePools" => st[p].pools = L)
  BY <1>1, <1>2 DEF At, Snapshot, Quiet, Updating
<1>4. ASSUME Fault(p, "unlock"), st' = st, Tidy(p) PROVE Good'
  BY <1>1, <1>4, FaultStep
<1>5. ASSUME Goto(p, "updatePools"), Tidy(p), st'[p].pools = Of(pools', c.svc),
             \A q \in Proc \ {p} : st'[q] = st[q]
      PROVE  Good'
  <2>1. At("updatePools", "none", c, st'[p], cur[p], S, Of(pools', c.svc), M)
    BY <1>3, <1>5 DEF At, Snapshot, Progress, Quiet, Ensuring, Updating, AfterServers,
                      AfterPools, AfterMonitors
  <2>2. err'[p] = "none" /\ MovesTo(p, "updatePools")
    BY <1>3, <1>5 DEF Goto, MovesTo
  <2> QED BY <1>1, <1>5, <2>1, <2>2, FrameStep
<1>6. CASE UpdateFindPools(p)
  <2>1. pools' = pools
    BY <1>6 DEF UpdateFindPools, nsxt
  <2>2. Tidy(p)
    BY <1>1, <2>1, Untouched
  <2>3. CASE st' = [st EXCEPT ![p].pools = L] /\ Goto(p, "updatePools")
    <3>1. st'[p].pools = L /\ \A q \in Proc \ {p} : st'[q] = st[q]
      BY <1>2, <2>3 DEF State
    <3> QED BY <1>5, <2>1, <2>2, <2>3, <3>1
  <2> QED BY <1>4, <1>6, <2>2, <2>3 DEF UpdateFindPools
<1>7. CASE UpdatePoolMembers(p)
  <2> DEFINE n(l) == [l EXCEPT !.members = c.nodes]
  <2>1. PICK l \in Outdated(p) :
          \/ /\ pools' = Replace(pools, n(l))
             /\ \/ /\ st' = [st EXCEPT ![p].pools = Replace(@, n(l))]
                   /\ Goto(p, "updatePools")
                \/ Fault(p, "unlock") /\ UNCHANGED st
          \/ Fault(p, "unlock") /\ UNCHANGED <<pools, st>>
    BY <1>7 DEF UpdatePoolMembers
  <2>2. l \in L /\ l \in pools /\ l.svc = c.svc
    BY <1>3, <1>7, <2>1 DEF Outdated, Of, UpdatePoolMembers
  <2>3. l \in Pool
    BY <2>2 DEF Inv, TypeOK
  <2>4. /\ n(l).id = l.id /\ n(l).svc = c.svc /\ n(l).port = l.port
        /\ n(l).monitor = l.monitor
    BY <2>2, <2>3 DEF Pool
  <2> HIDE DEF n
  <2>5. CASE pools' = Replace(pools, n(l))
    <3>1. /\ Keyed(pools', nextId) /\ Of(pools', c.svc) = Replace(L, n(l))
          /\ \A s : s # c.svc => Of(pools', s) = Of(pools, s)
      BY <1>2, <2>2, <2>4, <2>5, Replaced DEF KeysInv
    <3>2. n(l).monitor # NoId => \E m \in M : m.id = n(l).monitor /\ m.port = n(l).port
      BY <1>2, <2>2, <2>4 DEF Consistent
    <3>3. Consistent(S, Replace(L, n(l)), M)
      BY <1>2, <2>2, <2>4, <3>2, PoolReplaced
    <3>4. Tidy(p)
      BY <1>1, <1>2, <3>1, <3>3, TidyIf DEF KeysInv
    <3>5. CASE st' = [st EXCEPT ![p].pools = Replace(@, n(l))] /\ Goto(p, "updatePools")
      <4>1. pc[p] = "updatePools"
        BY <1>7 DEF UpdatePoolMembers
      <4>2. st'[p].pools = Replace(L, n(l)) /\ \A q \in Proc \ {p} : st'[q] = st[q]
        BY <1>2, <1>3, <3>5, <4>1 DEF State
      <4> QED BY <1>5, <3>1, <3>4, <3>5, <4>2
    <3> QED BY <1>4, <2>1, <3>4, <3>5
  <2>6. CASE Fault(p, "unlock") /\ UNCHANGED <<pools, st>>
    BY <1>1, <1>4, <2>6, Untouched
  <2> QED BY <2>1, <2>5, <2>6
<1>8. CASE UpdatePoolMembersDone(p)
  <2>1. /\ pc[p] = "updatePools" /\ pools' = pools /\ st' = st /\ Goto(p, "unlock")
        /\ Outdated(p) = {}
    BY <1>8 DEF UpdatePoolMembersDone, nsxt
  <2>2. \A l \in L : l.port \in c.ports => l.members = c.nodes
    BY <1>3, <2>1 DEF Outdated
  <2>3. At("unlock", "none", c, st[p], cur[p], S, L, M)
    BY <1>3, <2>2 DEF At, Snapshot, Progress, Quiet, Ensuring, Updating, AfterServers,
                      AfterPools, AfterMonitors
  <2>4. err'[p] = "none" /\ MovesTo(p, "unlock")
    BY <1>3, <2>1 DEF Goto, MovesTo
  <2>5. Tidy(p)
    BY <1>1, <2>1, Untouched
  <2> QED BY <1>1, <2>1, <2>3, <2>4, <2>5, FrameStep
<1> QED BY <1>6, <1>7, <1>8

-----------------------------------------------------------------------------
(***************************************************************************)
(* The key lock, the callers, users and crashes: NSX-T does not change     *)
(***************************************************************************)

\* Every goroutine stays where it is, or is where it may be.
LEMMA LocalStep ==
  ASSUME Good, UNCHANGED <<servers, pools, monitors, nextId>>,
         \A q \in Proc :
           \/ /\ pc'[q] = pc[q] /\ err'[q] = err[q] /\ call'[q] = call[q]
              /\ st'[q] = st[q] /\ cur'[q] = cur[q]
           \/ At(pc'[q], err'[q], call'[q], st'[q], cur'[q], Of(servers, call'[q].svc),
                 Of(pools, call'[q].svc), Of(monitors, call'[q].svc))
  PROVE  Good'
<1>1. ASSUME NEW q \in Proc
      PROVE  At(pc'[q], err'[q], call'[q], st'[q], cur'[q], Of(servers', call'[q].svc),
                Of(pools', call'[q].svc), Of(monitors', call'[q].svc))
  <2>1. At(pc[q], err[q], call[q], st[q], cur[q], Of(servers, call[q].svc),
           Of(pools, call[q].svc), Of(monitors, call[q].svc))
    BY DEF Good, GoroutineAt
  <2> QED BY <2>1
<1>2. (\A q \in Proc : GoroutineAt(q))'
  BY <1>1 DEF GoroutineAt
<1>3. KeysInv' /\ DataInv'
  BY DEF Good, KeysInv, DataInv
<1> QED BY <1>2, <1>3 DEF Good

\* Lock
LEMMA LockGood ==
  ASSUME Inv, Good, NEW p \in Proc, Lock(p)
  PROVE  Good'
<1>1. /\ pc[p] = "lock" /\ UNCHANGED <<servers, pools, monitors, nextId>>
      /\ UNCHANGED <<call, st, cur>>
  BY DEF Lock, nsxt
<1>2. err[p] = "none"
  BY <1>1, NotInside DEF Good, GoroutineAt
<1>3. /\ pc \in [Proc -> Label] /\ err \in [Proc -> {"none", "fault", "class", "exhausted"}]
  BY DEF Inv, TypeOK
<1>4. PICK l : /\ pc' = [pc EXCEPT ![p] = l]
               /\ \/ l = "updateFind" /\ call[p].op = "update" /\ err' = err
                  \/ l = "findServers" /\ call[p].op # "update" /\ err' = err
                  \/ l = "unlock" /\ err' = [err EXCEPT ![p] = "class"]
  BY DEF Lock, Goto, Error
<1>5. At(l, err'[p], call[p], st[p], cur[p], Of(servers, call[p].svc),
         Of(pools, call[p].svc), Of(monitors, call[p].svc))
  BY <1>2, <1>3, <1>4
     DEF At, Snapshot, Progress, Quiet, Ensuring, Updating, AfterServers, AfterPools,
         AfterMonitors
<1>6. \A q \in Proc : q # p => pc'[q] = pc[q] /\ err'[q] = err[q]
  BY <1>3, <1>4
<1>7. pc'[p] = l
  BY <1>3, <1>4
<1> QED BY <1>1, <1>5, <1>6, <1>7, LocalStep

\* Unlock
LEMMA UnlockGood ==
  ASSUME Inv, Good, NEW p \in Proc, Unlock(p)
  PROVE  Good'
<1>1. UNCHANGED <<servers, pools, monitors, nextId>>
  BY DEF Unlock, nsxt
<1>2. \A q \in Proc : q # p =>
        /\ pc'[q] = pc[q] /\ err'[q] = err[q] /\ call'[q] = call[q]
        /\ st'[q] = st[q] /\ cur'[q] = cur[q]
  BY DEF Unlock, Inv, TypeOK
<1>3. pc'[p] = "idle" /\ err'[p] = "none"
  BY DEF Unlock, Inv, TypeOK
<1> QED BY <1>1, <1>2, <1>3, NotInside, LocalStep

\* A goroutine starts an operation.
LEMMA StartGood ==
  ASSUME Inv, Good, NEW p \in Proc, NEW c, Start(p, c)
  PROVE  Good'
<1>1. UNCHANGED <<servers, pools, monitors, nextId, st, cur, err>> /\ pc[p] = "idle"
  BY DEF Start, nsxt
<1>2. \A q \in Proc : q # p => pc'[q] = pc[q] /\ call'[q] = call[q]
  BY DEF Start, Inv, TypeOK
<1>3. pc'[p] = "lock"
  BY DEF Start, Inv, TypeOK
<1>4. err[p] = "none"
  BY <1>1, NotInside DEF Good, GoroutineAt
<1> QED BY <1>1, <1>2, <1>3, <1>4, NotInside, LocalStep

\* A crash leaves no goroutine at work.
LEMMA CrashGood ==
  ASSUME Good, Crash
  PROVE  Good'
<1>1. UNCHANGED <<servers, pools, monitors, nextId>>
  BY DEF Crash, nsxt
<1>2. \A q \in Proc : pc'[q] = "idle" /\ err'[q] = "none"
  BY DEF Crash
<1> QED BY <1>1, <1>2, NotInside, LocalStep

\* What leaves NSX-T and the goroutines alone.
LEMMA GoodUnchanged ==
  ASSUME Good, UNCHANGED <<servers, pools, monitors, nextId, pc, err, call, st, cur>>
  PROVE  Good'
BY LocalStep

-----------------------------------------------------------------------------
(***************************************************************************)
(* The theorems                                                            *)
(***************************************************************************)

LEMMA InitGood == Init => Good
<1> SUFFICES ASSUME Init PROVE Good
  OBVIOUS
<1>1. KeysInv
  BY DEF Init, KeysInv, Keyed
<1>2. DataInv
  BY DEF Init, DataInv, Consistent, OnePerPort, Of
<1>3. ASSUME NEW p \in Proc PROVE GoroutineAt(p)
  <2>1. pc[p] = "idle" /\ err[p] = "none"
    BY DEF Init
  <2> QED BY <2>1, NotInside DEF GoroutineAt
<1> QED BY <1>1, <1>2, <1>3 DEF Good

\* Every step of the provider's operations preserves Good.
LEMMA StepGood ==
  ASSUME Inv, Good, NEW p \in Proc, Step(p)
  PROVE  Good'
<1>1. CASE CleanUp(p)
  BY <1>1, DetachGood, DeleteVirtualServerGood, DeletePoolGood, DeleteTCPMonitorGood,
     NoOrphansGood DEF CleanUp
<1>2. CASE GetVirtualServer(p)
  BY <1>2, ExistingServerGood, AddressGood, CreateVirtualServerGood, AttachGood, RollbackGood
     DEF GetVirtualServer
<1> QED BY <1>1, <1>2, LockGood, FindGood, FindTCPMonitorsGood, NextPortGood,
           GetTCPMonitorGood, GetPoolGood, FinishGood, UpdateGood, UnlockGood DEF Step

\* So does every step of the callers, users and crashes.
LEMMA NextGood == Inv /\ Good /\ [Next]_vars => Good'
<1> SUFFICES ASSUME Inv, Good, [Next]_vars PROVE Good'
  OBVIOUS
<1>1. ASSUME NEW p \in Proc, Step(p) PROVE Good'
  BY <1>1, StepGood
<1>2. CASE Controller
  <2>1. CASE \E s \in Svc : GetLoadBalancerFindsNone(s)
    BY <2>1, GoodUnchanged DEF GetLoadBalancerFindsNone, nsxt
  <2>2. CASE \E s \in Svc, p \in Worker : CallEnsure(p, s) \/ CallUpdate(p, s) \/ CallDelete(p, s)
    BY <2>2, StartGood, WorkerAssumption DEF CallEnsure, CallUpdate, CallDelete
  <2> QED BY <1>2, <2>1, <2>2 DEF Controller
<1>3. CASE User
  BY <1>3, GoodUnchanged DEF User, SetService, DeleteService, SetNodes, nsxt
<1>4. CASE Crash
  BY <1>4, CrashGood
<1>5. CASE UNCHANGED vars
  BY <1>5, GoodUnchanged DEF vars, nsxt
<1> QED BY <1>1, <1>2, <1>3, <1>4, <1>5 DEF Next

(***************************************************************************)
(* Good holds in every behaviour: at each place of the code NSX-T has what *)
(* the operation has achieved so far.                                      *)
(***************************************************************************)
THEOREM LoadBalancerGood == Spec => []Good
BY LoadBalancerInvariant, InitGood, NextGood, PTL DEF Spec

\* The lists read are what NSX-T has.
LEMMA GoodIsCoherent == Good => SnapshotCoherent
BY DEF Good, GoroutineAt, At, Snapshot, SnapshotCoherent

\* What a virtual server or a pool refers to exists.
LEMMA GoodHasRefs ==
  ASSUME Inv, Good
  PROVE  RefIntegrity
<1>1. ASSUME NEW v \in servers
      PROVE  \E l \in pools : l.id = v.pool /\ l.svc = v.svc /\ l.port = v.port
  <2>1. v.svc \in Svc
    BY DEF Inv, TypeOK, VirtualServer
  <2>2. Consistent(Of(servers, v.svc), Of(pools, v.svc), Of(monitors, v.svc))
    BY <2>1 DEF Good, DataInv
  <2> QED BY <2>2 DEF Consistent, Of
<1>2. ASSUME NEW l \in pools, l.monitor # NoId
      PROVE  \E m \in monitors : m.id = l.monitor /\ m.svc = l.svc /\ m.port = l.port
  <2>1. l.svc \in Svc
    BY DEF Inv, TypeOK, Pool
  <2>2. Consistent(Of(servers, l.svc), Of(pools, l.svc), Of(monitors, l.svc))
    BY <2>1 DEF Good, DataInv
  <2> QED BY <1>2, <2>2 DEF Consistent, Of
<1> QED BY <1>1, <1>2 DEF RefIntegrity

\* If the objects of a finite set of ports are one per port there are as many of them.
LEMMA CountByPort ==
  ASSUME NEW Q, IsFiniteSet(Q), NEW X, OnePerPort(X), \A x \in X : x.port \in Q,
         \A q \in Q : \E x \in X : x.port = q
  PROVE  Cardinality(X) = Cardinality(Q)
<1> DEFINE f == [q \in Q |-> CHOOSE x \in X : x.port = q]
<1>1. \A q \in Q : f[q] \in X /\ f[q].port = q
  OBVIOUS
<1>2. f \in [Q -> X]
  BY <1>1
<1>3. \A x \in X : x.port \in Q /\ f[x.port] = x
  BY <1>1 DEF OnePerPort
<1> HIDE DEF f
<1>4. f \in Bijection(Q, X)
  <2>1. \A a, b \in Q : f[a] = f[b] => a = b
    BY <1>1
  <2>2. \A x \in X : \E q \in Q : f[q] = x
    BY <1>3
  <2> QED BY <1>2, <2>1, <2>2 DEF Bijection, Injection, Surjection, IsInjective
<1>5. ExistsBijection(Q, X)
  BY <1>4 DEF ExistsBijection
<1> QED BY <1>5, FS_Bijection

\* An operation that returns without an error has achieved what its call asked for.
LEMMA GoodIsExact ==
  ASSUME Inv, Good
  PROVE  OkMeansExact
<1> SUFFICES ASSUME NEW p \in Proc, pc[p] = "unlock", err[p] = "none"
             PROVE  LET c == call[p]  s == c.svc IN
                    IF c.op = "update"
                    THEN \A l \in Of(pools, s) : l.port \in c.ports => l.members = c.nodes
                    ELSE
                    /\ \A q \in c.ports : \E v \in Of(servers, s), l \in Of(pools, s) :
                          /\ v.port = q /\ v.nodePort = c.nodePort /\ v.pool = l.id
                          /\ v.ip = st[p].ip
                          /\ l.port = q /\ l.members = c.nodes
                          /\ IF q \in TCP
                             THEN \E m \in Of(monitors, s) :
                                    m.id = l.monitor /\ m.port = q /\ m.nodePort = c.nodePort
                             ELSE l.monitor = NoId
                    /\ Cardinality(Of(servers, s)) = Cardinality(c.ports)
                    /\ Cardinality(Of(pools, s)) = Cardinality(c.ports)
                    /\ Cardinality(Of(monitors, s)) = Cardinality(c.ports \cap TCP)
  BY DEF OkMeansExact
<1> DEFINE c == call[p]
           S == Of(servers, c.svc)
           L == Of(pools, c.svc)
           M == Of(monitors, c.svc)
<1>1. pc[p] \in Inside
  BY DEF Inside, Label
<1>2. /\ At("unlock", "none", c, st[p], cur[p], S, L, M) /\ Consistent(S, L, M)
  BY <1>1, AtFacts
<1>3. IF c.op = "update" THEN \A l \in L : l.port \in c.ports => l.members = c.nodes
      ELSE Exact(c, st[p].ip, S, L, M)
  BY <1>2 DEF At, Progress
<1>4. CASE c.op = "update"
  BY <1>3, <1>4
<1>5. CASE c.op # "update"
  <2>1. Exact(c, st[p].ip, S, L, M)
    BY <1>3, <1>5
  <2>2. ASSUME NEW q \in c.ports
        PROVE  \E v \in S, l \in L :
                 /\ v.port = q /\ v.nodePort = c.nodePort /\ v.pool = l.id
                 /\ v.ip = st[p].ip
                 /\ l.port = q /\ l.members = c.nodes
                 /\ MonitorDone(c, M, q, l.monitor)
    BY <2>1 DEF Exact, Done, PortDone, PoolDone
  <2>3. c.ports \in SUBSET Port
    BY FieldTypes DEF Inv
  <2>4. IsFiniteSet(c.ports) /\ IsFiniteSet(c.ports \cap TCP)
    BY <2>3, PortAssumption, FS_Subset
  <2>5. OnePerPort(S) /\ OnePerPort(L) /\ OnePerPort(M)
    BY <1>2 DEF Consistent
  <2>6. /\ \A v \in S : v.port \in c.ports
        /\ \A l \in L : l.port \in c.ports
        /\ \A m \in M : m.port \in c.ports \cap TCP
    BY <2>1 DEF Exact
  <2>7. \A q \in c.ports \cap TCP : \E m \in M : m.port = q
    BY <2>2 DEF MonitorDone
  <2>8. Cardinality(S) = Cardinality(c.ports)
    BY <2>2, <2>4, <2>5, <2>6, CountByPort
  <2>9. Cardinality(L) = Cardinality(c.ports)
    BY <2>2, <2>4, <2>5, <2>6, CountByPort
  <2>10. Cardinality(M) = Cardinality(c.ports \cap TCP)
    BY <2>4, <2>5, <2>6, <2>7, CountByPort
  <2> QED BY <1>5, <2>2, <2>8, <2>9, <2>10 DEF MonitorDone
<1> QED BY <1>4, <1>5

(***************************************************************************)
(* The lists that Process and UpdatePoolMembers have read never become     *)
(* stale.                                                                  *)
(***************************************************************************)
THEOREM LoadBalancerSnapshotCoherent == Spec => []SnapshotCoherent
BY GoodIsCoherent, LoadBalancerGood, PTL

(***************************************************************************)
(* NSX-T never has a virtual server without its pool, or a pool without    *)
(* its monitor.                                                            *)
(***************************************************************************)
THEOREM LoadBalancerRefIntegrity == Spec => []RefIntegrity
BY GoodHasRefs, LoadBalancerInvariant, LoadBalancerGood, PTL

(***************************************************************************)
(* When EnsureLoadBalancer or EnsureLoadBalancerDeleted returns without an *)
(* error NSX-T has exactly what the call asked for, and when               *)
(* UpdateLoadBalancer does the pools have the nodes of the call.           *)
(***************************************************************************)
THEOREM LoadBalancerOkMeansExact == Spec => []OkMeansExact
BY GoodIsExact, LoadBalancerInvariant, LoadBalancerGood, PTL

-----------------------------------------------------------------------------
(***************************************************************************)
(* Detached before it is deleted                                           *)
(***************************************************************************)

\* The other goroutines stay where they are, and goroutine p is not about to delete.
LEMMA AttachKept ==
  ASSUME AttachInv, attached' \subseteq attached,
         \A v \in servers : \E w \in servers' : w.id = v.id,
         \A q \in Proc : pc'[q] # "deleteServer" \/ (pc'[q] = pc[q] /\ cur'[q] = cur[q])
  PROVE  AttachInv' /\ OnlyRollback
<1>1. Dangling' \subseteq Dangling
  BY DEF Dangling
<1> QED BY <1>1 DEF AttachInv, OnlyRollback

\* An update keeps the identifiers.
LEMMA ReplaceKeepsIds ==
  ASSUME NEW X, NEW x
  PROVE  \A v \in X : \E w \in Replace(X, x) : w.id = v.id
<1>1. ASSUME NEW v \in X PROVE \E w \in Replace(X, x) : w.id = v.id
  <2>1. (IF v.id = x.id THEN x ELSE v) \in Replace(X, x)
    BY DEF Replace
  <2> QED BY <2>1
<1> QED BY <1>1

\* The steps of EnsureLoadBalancer that neither attach nor detach nor delete
LEMMA OtherStepsAttach ==
  ASSUME Inv, AttachInv, NEW p \in Proc,
         \/ FindVirtualServers(p) \/ FindPools(p) \/ FindTCPMonitors(p) \/ NextPort(p)
         \/ GetTCPMonitor(p) \/ GetPool(p) \/ KeepVirtualServer(p) \/ UpdateVirtualServer(p)
         \/ KeepAddress(p) \/ Allocate(p) \/ CreateVirtualServer(p)
         \/ NoOrphanServers(p) \/ DeletePool(p) \/ NoOrphanPools(p)
         \/ DeleteTCPMonitor(p) \/ NoOrphanTCPMonitors(p)
         \/ Finish(p) \/ IsAllocated(p) \/ Release(p)
         \/ UpdateFindPools(p) \/ UpdatePoolMembers(p) \/ UpdatePoolMembersDone(p)
  PROVE  AttachInv' /\ OnlyRollback
<1>1. pc \in [Proc -> Label] /\ cur \in [Proc -> Cur] /\ st \in [Proc -> State]
  BY DEF Inv, TypeOK
<1>2. ASSUME NEW l \in Label \ {"deleteServer"}, pc' = [pc EXCEPT ![p] = l],
             attached' = attached, \A q \in Proc \ {p} : cur'[q] = cur[q],
             \A v \in servers : \E w \in servers' : w.id = v.id
      PROVE  AttachInv' /\ OnlyRollback
  <2>1. \A q \in Proc : pc'[q] # "deleteServer" \/ (pc'[q] = pc[q] /\ cur'[q] = cur[q])
    BY <1>1, <1>2
  <2> QED BY <1>2, <2>1, AttachKept
<1>3. ASSUME NEW l, NEW c, Goto(p, l) \/ Fault(p, l) \/ Error(p, c, l)
      PROVE  pc' = [pc EXCEPT ![p] = l]
  BY <1>3 DEF Goto, Fault, Error
<1>4. CASE FindVirtualServers(p) \/ FindPools(p) \/ FindTCPMonitors(p) \/ NextPort(p)
  <2>1. servers' = servers /\ attached' = attached
    BY <1>4 DEF FindVirtualServers, FindPools, FindTCPMonitors, NextPort, nsxt
  <2>2. \A q \in Proc \ {p} : cur'[q] = cur[q]
    BY <1>1, <1>4 DEF FindVirtualServers, FindPools, FindTCPMonitors, NextPort, Cur
  <2>3. \E l \in {"findPools", "findMonitors", "ports", "monitor", "pool", "orphanServers",
                 "finish"} : pc' = [pc EXCEPT ![p] = l]
    BY <1>3, <1>4 DEF FindVirtualServers, FindPools, FindTCPMonitors, NextPort
  <2> QED BY <1>2, <2>1, <2>2, <2>3 DEF Label
<1>5. CASE GetTCPMonitor(p)
  <2>1. servers' = servers /\ attached' = attached
    BY <1>5 DEF GetTCPMonitor, KeepTCPMonitor, UpdateTCPMonitor, CreateTCPMonitor, nsxt
  <2>2. \E l \in {"pool", "finish"} : pc' = [pc EXCEPT ![p] = l]
    BY <1>3, <1>5 DEF GetTCPMonitor, KeepTCPMonitor, UpdateTCPMonitor, CreateTCPMonitor
  <2>3. cur' = cur \/ \E i : cur' = [cur EXCEPT ![p].monitor = i]
    BY <1>5 DEF GetTCPMonitor, KeepTCPMonitor, UpdateTCPMonitor, CreateTCPMonitor
  <2>4. \A q \in Proc \ {p} : cur'[q] = cur[q]
    BY <1>1, <2>3 DEF Cur
  <2> QED BY <1>2, <2>1, <2>2, <2>4 DEF Label
<1>6. CASE GetPool(p)
  <2>1. servers' = servers /\ attached' = attached
    BY <1>6 DEF GetPool, KeepPool, UpdatePool, CreatePool, nsxt
  <2>2. \E l \in {"server", "finish"} : pc' = [pc EXCEPT ![p] = l]
    BY <1>3, <1>6 DEF GetPool, KeepPool, UpdatePool, CreatePool
  <2>3. cur' = cur \/ \E i : cur' = [cur EXCEPT ![p].pool = i]
    BY <1>6 DEF GetPool, KeepPool, UpdatePool, CreatePool
  <2>4. \A q \in Proc \ {p} : cur'[q] = cur[q]
    BY <1>1, <2>3 DEF Cur
  <2> QED BY <1>2, <2>1, <2>2, <2>4 DEF Label
<1>7. CASE KeepVirtualServer(p) \/ UpdateVirtualServer(p)
  <2>1. cur' = cur /\ attached' = attached
    BY <1>7 DEF KeepVirtualServer, UpdateVirtualServer, nsxt
  <2>2. \E l \in {"ports", "finish"} : pc' = [pc EXCEPT ![p] = l]
    BY <1>3, <1>7 DEF KeepVirtualServer, UpdateVirtualServer
  <2>3. servers' = servers \/ \E v : servers' = Replace(servers, v)
    BY <1>7 DEF KeepVirtualServer, UpdateVirtualServer, nsxt
  <2>4. \A v \in servers : \E w \in servers' : w.id = v.id
    BY <2>3, ReplaceKeepsIds
  <2> QED BY <1>2, <2>1, <2>2, <2>4 DEF Label
<1>8. CASE KeepAddress(p) \/ Allocate(p) \/ CreateVirtualServer(p)
  <2>1. attached' = attached /\ \A v \in servers : v \in servers'
    BY <1>8 DEF KeepAddress, Allocate, CreateVirtualServer, nsxt
  <2>2. \E l \in {"createServer", "attach", "isAllocated", "finish"} : pc' = [pc EXCEPT ![p] = l]
    BY <1>3, <1>8 DEF KeepAddress, Allocate, CreateVirtualServer, ReleaseIfAllocated
  <2>3. \A q \in Proc \ {p} : cur'[q] = cur[q]
    BY <1>1, <1>8 DEF KeepAddress, Allocate, CreateVirtualServer, Cur
  <2> QED BY <1>2, <2>1, <2>2, <2>3 DEF Label
<1>9. CASE \/ NoOrphanServers(p) \/ DeletePool(p) \/ NoOrphanPools(p)
           \/ DeleteTCPMonitor(p) \/ NoOrphanTCPMonitors(p)
  <2>1. UNCHANGED <<servers, attached, cur>>
    BY <1>9 DEF NoOrphanServers, DeletePool, NoOrphanPools, DeleteTCPMonitor,
                NoOrphanTCPMonitors, nsxt
  <2>2. \E l \in {"orphanPools", "orphanMonitors", "finish"} : pc' = [pc EXCEPT ![p] = l]
    BY <1>3, <1>9 DEF NoOrphanServers, DeletePool, NoOrphanPools, DeleteTCPMonitor,
                      NoOrphanTCPMonitors
  <2> QED BY <1>2, <2>1, <2>2 DEF Label
<1>10. CASE \/ Finish(p) \/ IsAllocated(p) \/ Release(p)
            \/ UpdateFindPools(p) \/ UpdatePoolMembers(p) \/ UpdatePoolMembersDone(p)
  <2>1. UNCHANGED <<servers, attached, cur>>
    BY <1>10 DEF Finish, IsAllocated, Release, UpdateFindPools, UpdatePoolMembers,
                 UpdatePoolMembersDone, nsxt
  <2>2. \E l \in {"isAllocated", "release", "updatePools", "unlock"} : pc' = [pc EXCEPT ![p] = l]
    BY <1>3, <1>10 DEF Finish, IsAllocated, Release, UpdateFindPools, UpdatePoolMembers,
                       UpdatePoolMembersDone
  <2> QED BY <1>2, <2>1, <2>2 DEF Label
<1> QED BY <1>4, <1>5, <1>6, <1>7, <1>8, <1>9, <1>10

\* What is attached exists, and is not what another goroutine is about to delete.
LEMMA AttachAttach ==
  ASSUME Inv, Good, AttachInv, NEW p \in Proc, Attach(p)
  PROVE  AttachInv' /\ OnlyRollback
<1>1. /\ pc[p] = "attach" /\ UNCHANGED <<servers, cur>>
      /\ attached' \subseteq attached \cup {cur[p].server}
      /\ \E l \in {"ports", "rollback"} : pc' = [pc EXCEPT ![p] = l]
  BY DEF Attach, Goto, Fault
<1>2. pc \in [Proc -> Label]
  BY DEF Inv, TypeOK
<1>3. ASSUME NEW q \in Proc, pc[q] \in {"attach", "deleteServer"}
      PROVE  \E v \in Of(servers, call[q].svc) : v.id = cur[q].server
  BY <1>3 DEF Good, GoroutineAt, At
<1>4. Dangling' \subseteq Dangling
  BY <1>1, <1>3 DEF Dangling, Of
<1>5. ASSUME RouterGiven, NEW q \in Proc, pc'[q] = "deleteServer"
      PROVE  cur'[q].server \notin attached'
  <2>1. q # p /\ pc[q] = "deleteServer"
    BY <1>1, <1>2, <1>5
  <2>2. cur[q].server \notin attached
    BY <1>5, <2>1 DEF AttachInv
  <2>3. call[q].svc # call[p].svc
    BY <1>1, <2>1 DEF Inv, LockInv
  <2>4. cur[q].server # cur[p].server
    BY <1>1, <1>3, <2>1, <2>3 DEF Good, KeysInv, Keyed, Of
  <2> QED BY <1>1, <2>2, <2>4
<1> QED BY <1>4, <1>5 DEF AttachInv, OnlyRollback

\* What is about to be deleted is not attached.
LEMMA DetachAttach ==
  ASSUME Inv, AttachInv, NEW p \in Proc, Detach(p)
  PROVE  AttachInv' /\ OnlyRollback
<1>1. servers' = servers /\ attached' \subseteq attached
  BY DEF Detach
<1>2. pc \in [Proc -> Label] /\ cur \in [Proc -> Cur]
  BY DEF Inv, TypeOK
<1>3. CASE Fault(p, "finish") /\ cur' = cur
  <2>1. \A q \in Proc : pc'[q] # "deleteServer" \/ (pc'[q] = pc[q] /\ cur'[q] = cur[q])
    BY <1>2, <1>3 DEF Fault
  <2> QED BY <1>1, <2>1, AttachKept
<1>4. CASE ~(Fault(p, "finish") /\ cur' = cur)
  <2>1. PICK v : /\ RouterGiven => attached' = attached \ {v.id}
                 /\ cur' = [cur EXCEPT ![p].server = v.id]
                 /\ pc' = [pc EXCEPT ![p] = "deleteServer"]
    BY <1>4 DEF Detach, Goto
  <2>2. /\ pc'[p] = "deleteServer" /\ cur'[p].server = v.id
        /\ \A q \in Proc \ {p} : pc'[q] = pc[q] /\ cur'[q] = cur[q]
    BY <1>2, <2>1 DEF Cur
  <2>3. Dangling' \subseteq Dangling
    BY <1>1 DEF Dangling
  <2>4. AttachInv'
    BY <1>1, <2>1, <2>2 DEF AttachInv
  <2> QED BY <2>3, <2>4 DEF OnlyRollback
<1> QED BY <1>3, <1>4

\* What is deleted is not attached, or is what could not be attached.
LEMMA DeleteAttach ==
  ASSUME Inv, AttachInv, NEW p \in Proc, DeleteVirtualServer(p) \/ Rollback(p)
  PROVE  AttachInv' /\ OnlyRollback
<1>1. /\ servers' = Without(servers, cur[p].server) \/ servers' = servers
      /\ UNCHANGED <<attached, cur>> /\ pc[p] \in {"deleteServer", "rollback"}
  BY DEF DeleteVirtualServer, Rollback
<1>2. pc \in [Proc -> Label]
  BY DEF Inv, TypeOK
<1>3. \E l \in {"orphanServers", "finish", "isAllocated"} : pc' = [pc EXCEPT ![p] = l]
  BY DEF DeleteVirtualServer, Rollback, ReleaseIfAllocated, Goto, Fault
<1>4. AttachInv'
  BY <1>1, <1>2, <1>3 DEF AttachInv
<1>5. \A i \in Dangling' \ Dangling : i = cur[p].server /\ i \in attached
  BY <1>1 DEF Dangling, Without
<1>6. RouterGiven /\ pc[p] = "deleteServer" => cur[p].server \notin attached
  BY DEF AttachInv
<1> QED BY <1>1, <1>4, <1>5, <1>6 DEF OnlyRollback

\* All steps preserve AttachInv, and do what DetachedFirst says.
LEMMA NextAttach ==
  ASSUME Inv, Good, AttachInv, [Next]_vars
  PROVE  AttachInv' /\ OnlyRollback
<1>1. ASSUME UNCHANGED <<servers, attached>>,
             \A q \in Proc : pc'[q] # "deleteServer" \/ (pc'[q] = pc[q] /\ cur'[q] = cur[q])
      PROVE  AttachInv' /\ OnlyRollback
  BY <1>1, AttachKept
<1>2. pc \in [Proc -> Label]
  BY DEF Inv, TypeOK
<1>3. ASSUME NEW p \in Proc, Lock(p) PROVE AttachInv' /\ OnlyRollback
  <2>1. UNCHANGED <<servers, attached, cur>>
    BY <1>3 DEF Lock, nsxt
  <2>2. \E l \in {"updateFind", "findServers", "unlock"} : pc' = [pc EXCEPT ![p] = l]
    BY <1>3 DEF Lock, Goto, Error
  <2> QED BY <1>1, <1>2, <2>1, <2>2
<1>4. ASSUME NEW p \in Proc, Unlock(p) PROVE AttachInv' /\ OnlyRollback
  <2>1. UNCHANGED <<servers, attached>>
    BY <1>4 DEF Unlock, nsxt
  <2>2. \A q \in Proc : pc'[q] # "deleteServer" \/ (pc'[q] = pc[q] /\ cur'[q] = cur[q])
    BY <1>4 DEF Unlock, Inv, TypeOK
  <2> QED BY <1>1, <2>1, <2>2
<1>5. ASSUME NEW p \in Proc, NEW c, Start(p, c) PROVE AttachInv' /\ OnlyRollback
  <2>1. UNCHANGED <<servers, attached, cur>> /\ pc' = [pc EXCEPT ![p] = "lock"]
    BY <1>5 DEF Start, nsxt
  <2> QED BY <1>1, <1>2, <2>1
<1>6. CASE Crash
  <2>1. UNCHANGED <<servers, attached>> /\ \A q \in Proc : pc'[q] = "idle"
    BY <1>6 DEF Crash, nsxt
  <2> QED BY <1>1, <2>1
<1>7. CASE UNCHANGED <<servers, attached, pc, cur>>
  BY <1>1, <1>7
<1>8. ASSUME NEW p \in Proc, Step(p) PROVE AttachInv' /\ OnlyRollback
  BY <1>3, <1>4, <1>8, OtherStepsAttach, AttachAttach, DetachAttach, DeleteAttach
  DEF Step, GetVirtualServer, CleanUp
<1>9. CASE Controller
  <2>1. CASE \E s \in Svc : GetLoadBalancerFindsNone(s)
    BY <1>7, <2>1 DEF GetLoadBalancerFindsNone, nsxt
  <2>2. CASE \E s \in Svc, p \in Worker :
               CallEnsure(p, s) \/ CallUpdate(p, s) \/ CallDelete(p, s)
    BY <1>5, <2>2, WorkerAssumption DEF CallEnsure, CallUpdate, CallDelete
  <2> QED BY <1>9, <2>1, <2>2 DEF Controller
<1>10. CASE User
  BY <1>7, <1>10 DEF User, SetService, DeleteService, SetNodes, nsxt
<1>11. CASE UNCHANGED vars
  BY <1>7, <1>11 DEF vars, nsxt
<1> QED BY <1>6, <1>8, <1>9, <1>10, <1>11 DEF Next

(***************************************************************************)
(* If a router is configured no step but the one of createVirtualServer    *)
(* that deletes what it could not attach leaves the load balancer service  *)
(* with a reference to a virtual server that does not exist, for any       *)
(* number of services, ports, goroutines, failures and crashes.            *)
(***************************************************************************)
THEOREM LoadBalancerDetachedFirst == Spec => DetachedFirst
<1>1. Init => AttachInv
  BY DEF Init, AttachInv
<1>2. Inv /\ Good /\ AttachInv /\ [Next]_vars => AttachInv'
  BY NextAttach
<1>3. Inv /\ Good /\ AttachInv /\ [Next]_vars =>
        [RouterGiven => \A i \in Dangling' \ Dangling :
           \E p \in Proc : pc[p] = "rollback" /\ cur[p].server = i]_vars
  BY NextAttach DEF OnlyRollback
<1> QED
  BY <1>1, <1>2, <1>3, LoadBalancerInvariant, LoadBalancerGood, PTL DEF Spec, DetachedFirst

-----------------------------------------------------------------------------
(***************************************************************************)
(* The address of a service stays                                          *)
(***************************************************************************)

\* The steps that create or update no virtual server
LEMMA NoNewServers ==
  ASSUME NEW p \in Proc, Step(p)
  PROVE  UpdateVirtualServer(p) \/ CreateVirtualServer(p) \/ servers' \subseteq servers
<1>1. CASE Lock(p) \/ Unlock(p)
  BY <1>1 DEF Lock, Unlock, nsxt
<1>2. CASE FindVirtualServers(p) \/ FindPools(p) \/ FindTCPMonitors(p) \/ NextPort(p)
  BY <1>2 DEF FindVirtualServers, FindPools, FindTCPMonitors, NextPort, nsxt
<1>3. CASE GetTCPMonitor(p) \/ GetPool(p)
  BY <1>3 DEF GetTCPMonitor, KeepTCPMonitor, UpdateTCPMonitor, CreateTCPMonitor, GetPool,
              KeepPool, UpdatePool, CreatePool, nsxt
<1>4. CASE GetVirtualServer(p)
  <2>1. CASE KeepVirtualServer(p) \/ KeepAddress(p) \/ Allocate(p) \/ Attach(p)
    BY <2>1 DEF KeepVirtualServer, KeepAddress, Allocate, Attach, nsxt
  <2>2. CASE Rollback(p)
    BY <2>2 DEF Rollback, Without
  <2> QED BY <1>4, <2>1, <2>2 DEF GetVirtualServer
<1>5. CASE CleanUp(p)
  <2>1. CASE Detach(p) \/ DeleteVirtualServer(p) \/ NoOrphanServers(p)
    BY <2>1 DEF Detach, DeleteVirtualServer, NoOrphanServers, Without, nsxt
  <2>2. CASE \/ DeletePool(p) \/ NoOrphanPools(p)
             \/ DeleteTCPMonitor(p) \/ NoOrphanTCPMonitors(p)
    BY <2>2 DEF DeletePool, NoOrphanPools, DeleteTCPMonitor, NoOrphanTCPMonitors, nsxt
  <2> QED BY <1>5, <2>1, <2>2 DEF CleanUp
<1>6. CASE \/ Finish(p) \/ IsAllocated(p) \/ Release(p)
           \/ UpdateFindPools(p) \/ UpdatePoolMembers(p) \/ UpdatePoolMembersDone(p)
  BY <1>6 DEF Finish, IsAllocated, Release, UpdateFindPools, UpdatePoolMembers,
              UpdatePoolMembersDone, nsxt
<1> QED BY <1>1, <1>2, <1>3, <1>4, <1>5, <1>6 DEF Step

\* The virtual servers of a service have one address.
LEMMA OneAddress ==
  ASSUME Inv, Good
  PROVE  \A v, w \in servers : v.svc = w.svc => v.ip = w.ip
<1> SUFFICES ASSUME NEW v \in servers, NEW w \in servers, v.svc = w.svc PROVE v.ip = w.ip
  OBVIOUS
<1>1. v.svc \in Svc
  BY DEF Inv, TypeOK, VirtualServer
<1>2. v \in Of(servers, v.svc) /\ w \in Of(servers, v.svc)
  BY DEF Of
<1> QED BY <1>1, <1>2 DEF Good, DataInv, Consistent

\* What every step does to the addresses of the virtual servers.
LEMMA AddressesStay ==
  ASSUME Inv, Good, [Next]_vars
  PROVE  \A v \in servers, w \in servers' : v.svc = w.svc => v.ip = w.ip
<1>1. \A v, w \in servers : v.svc = w.svc => v.ip = w.ip
  BY OneAddress
<1>2. CASE servers' \subseteq servers
  BY <1>1, <1>2
\* Every virtual server afterwards has the service and the address of one before.
<1>3. ASSUME NEW p \in Proc, UpdateVirtualServer(p)
      PROVE  \A w \in servers' : \E u \in servers : u.svc = w.svc /\ u.ip = w.ip
  <2>1. CASE UNCHANGED servers
    BY <2>1
  <2>2. CASE ~UNCHANGED servers
    <3>1. PICK v \in Matching(st[p].servers, cur[p].port) :
            servers' = Replace(servers, [v EXCEPT !.nodePort = call[p].nodePort,
                                                  !.pool = cur[p].pool])
      BY <1>3, <2>2 DEF UpdateVirtualServer
    <3>2. v \in servers
      BY <1>3, <3>1, ProcessFacts DEF UpdateVirtualServer, Matching, Of, InProcess, AfterMonitors
    <3>3. v \in VirtualServer
      BY <3>2 DEF Inv, TypeOK
    <3> DEFINE n == [v EXCEPT !.nodePort = call[p].nodePort, !.pool = cur[p].pool]
    <3>4. n.svc = v.svc /\ n.ip = v.ip
      BY <3>3 DEF VirtualServer
    <3>5. servers' = Replace(servers, n)
      BY <3>1
    <3> HIDE DEF n
    <3>6. \A w \in servers' : w = n \/ w \in servers
      BY <3>5 DEF Replace
    <3> QED BY <3>2, <3>4, <3>6
  <2> QED BY <2>1, <2>2
\* A new virtual server gets the address of those the service has.
<1>4. ASSUME NEW p \in Proc, CreateVirtualServer(p)
      PROVE  \A v \in servers, w \in servers' : v.svc = w.svc => v.ip = w.ip
  <2>1. \A v \in servers : v.svc = call[p].svc => v.ip = st[p].ip
    BY <1>4, ProcessFacts DEF CreateVirtualServer, Of, InProcess, AfterMonitors
  <2>2. \A w \in servers' : w \in servers \/ (w.svc = call[p].svc /\ w.ip = st[p].ip)
    BY <1>4 DEF CreateVirtualServer, NewVirtualServer
  <2> QED BY <1>1, <2>1, <2>2
<1>5. CASE Controller \/ User \/ Crash \/ UNCHANGED vars
  <2>1. servers' = servers
    BY <1>5 DEF Controller, CallEnsure, CallUpdate, CallDelete, Start,
       GetLoadBalancerFindsNone, User, SetService, DeleteService, SetNodes, Crash, vars, nsxt
  <2> QED BY <1>2, <2>1
<1>6. ASSUME NEW p \in Proc, Step(p)
      PROVE  \A v \in servers, w \in servers' : v.svc = w.svc => v.ip = w.ip
  BY <1>1, <1>2, <1>3, <1>4, <1>6, NoNewServers
<1> QED BY <1>5, <1>6 DEF Next

(***************************************************************************)
(* A service keeps its address while it has a virtual server, for any      *)
(* ports, failures and crashes: Process takes the address from the virtual *)
(* servers it has found, and they have only one.                           *)
(***************************************************************************)
THEOREM LoadBalancerAddressStable == Spec => AddressStable
<1>1. Inv /\ Good /\ [Next]_vars =>
        [\A v \in servers, w \in servers' : v.svc = w.svc => v.ip = w.ip]_vars
  BY AddressesStay
<1> QED BY <1>1, LoadBalancerInvariant, LoadBalancerGood, PTL DEF Spec, AddressStable

-----------------------------------------------------------------------------
(***************************************************************************)
(* Who has an address is nowhere written down: it is in the virtual        *)
(* servers, and while the first of them is created, or the last one has    *)
(* been deleted, only in the state of a goroutine.  Claim is this          *)
(* ownership.  Every step leaves the claims as they are, but for the one   *)
(* that allocates and the one that releases; that the latter is not        *)
(* reached too early is PathInv, and that an address is never taken from   *)
(* the status of a service that has lost it is ServedInv.                  *)
(***************************************************************************)

\* A service has at least one port, as the Kubernetes API server requires.
HasPorts == \A c \in Spec0 : c.ports # {}

\* No address belongs to two IP pools.
DisjointPools == \A c, d \in IPPool : c # d => IPsOf[c] \cap IPsOf[d] = {}

-----------------------------------------------------------------------------
(***************************************************************************)
(* The inductive invariant of the addresses                                *)
(***************************************************************************)

\* The places where the address and the class in the state are those of the service.
Holding == AfterMonitors \cup {"isAllocated", "release"}

\* Goroutine p knows of the address of its service.
Holder(p) == pc[p] \in Holding /\ st[p].ip # NoIP

\* Service s has address a of IP pool c: because a virtual server has it, or because the
\* goroutine that works on the service has just allocated it, or is about to release it.
Claim(s, a, c) ==
  \/ \E v \in servers : v.svc = s /\ v.ip = a /\ v.class = c
  \/ \E p \in Proc : Holder(p) /\ call[p].svc = s /\ st[p].ip = a /\ st[p].class = c

\* An address that is claimed is allocated, to one service only, and a service has one
\* only; without crashes every allocated address is claimed.
ClaimsInv ==
  /\ \A c \in IPPool : alloc[c] \subseteq IPsOf[c]
  /\ \A s \in Svc, a \in IP, c \in IPPool : Claim(s, a, c) => a \in alloc[c]
  /\ \A s, t \in Svc, a \in IP, c \in IPPool : Claim(s, a, c) /\ Claim(t, a, c) => s = t
  /\ \A s \in Svc, a, b \in IP, c, d \in IPPool :
       Claim(s, a, c) /\ Claim(s, b, d) => a = b /\ c = d
  /\ crashes = 0 => \A c \in IPPool : \A a \in alloc[c] : \E s \in Svc : Claim(s, a, c)

\* Goroutine p was started by a worker for a service that exists or is being deleted.
Processing(p) == pc[p] # "idle" /\ call[p].op \in {"ensure", "delete"}

\* What the callers guarantee: they process a service one at a time.
CallerInv ==
  /\ \A s \in Svc : spec[s] \in Spec0
  /\ \A s \in Svc : phase[s] = "absent" => status[s] = NoIP
  /\ \A p \in Proc : pc[p] # "idle" =>
       /\ call[p].op \in {"ensure", "delete", "update"}
       /\ call[p].ports = {} <=> call[p].op = "delete"
  /\ \A p \in Proc : Processing(p) =>
       /\ phase[call[p].svc] # "absent"
       /\ call[p].op = "delete" => phase[call[p].svc] = "deleting"
  /\ \A p, q \in Proc : Processing(p) /\ Processing(q) /\ call[p].svc = call[q].svc => p = q

Served(s) == \E v \in servers : v.svc = s

\* Places before the address and the class are known.
Starting == {"lock", "findServers", "findPools", "findMonitors"}

\* A service with an address in its status has a virtual server, from which the class is
\* known; so has one whose deletion begins.
ServedInv ==
  /\ \A s \in Svc : phase[s] = "present" /\ status[s] # NoIP => Served(s)
  /\ \A p \in Proc :
       /\ pc[p] \in Starting /\ Processing(p)
       /\ call[p].op = "delete" \/ call[p].status # NoIP
       => Served(call[p].svc)

\* The address is released only by a deletion that has not failed.
PathInv ==
  \A p \in Proc :
    /\ pc[p] # "rollback"
    /\ pc[p] \in {"isAllocated", "release"} => err[p] = "none" /\ call[p].ports = {}
    /\ pc[p] = "finish" /\ err[p] # "none" => st[p].ip = NoIP

AddressInv == CallerInv /\ (faults = 0 => ClaimsInv /\ ServedInv /\ PathInv)

-----------------------------------------------------------------------------
(***************************************************************************)
(* What the callers guarantee                                              *)
(***************************************************************************)

\* A step inside an operation does not concern the callers.
LEMMA CallerKept ==
  ASSUME CallerInv, UNCHANGED <<spec, phase, status, call>>,
         \A q \in Proc : pc'[q] = "idle" <=> pc[q] = "idle"
  PROVE  CallerInv'
BY DEF CallerInv, Processing

\* The caller writes the status, or removes the finalizer.
LEMMA UnlockCaller ==
  ASSUME Inv, CallerInv, NEW p \in Proc, Unlock(p)
  PROVE  CallerInv'
<1> DEFINE s == call[p].svc
<1>1. /\ pc[p] = "unlock" /\ pc'[p] = "idle" /\ spec' = spec /\ s \in Svc
      /\ \A q \in Proc \ {p} : pc'[q] = pc[q] /\ call'[q] = call[q]
  BY DEF Inv, TypeOK, CallInv, Unlock
<1>2. /\ \A t \in Svc \ {s} : phase'[t] = phase[t] /\ status'[t] = status[t]
      /\ phase'[s] = IF call[p].op = "delete" /\ err[p] = "none" THEN "absent" ELSE phase[s]
      /\ phase'[s] = "absent" => status'[s] = NoIP
  BY <1>1 DEF Inv, TypeOK, Unlock, CallerInv
<1>3. \A q \in Proc : Processing(q)' => q # p /\ Processing(q)
  BY <1>1 DEF Processing
<1>4. ASSUME NEW q \in Proc, Processing(q)', call[q].svc = s
      PROVE  phase'[s] = phase[s]
  BY <1>1, <1>2, <1>3, <1>4 DEF CallerInv, Processing
<1>5. \A t \in Svc : phase'[t] = "absent" => status'[t] = NoIP
  BY <1>2 DEF CallerInv
<1>6. \A q \in Proc : Processing(q)' =>
        /\ phase'[call'[q].svc] # "absent"
        /\ call'[q].op = "delete" => phase'[call'[q].svc] = "deleting"
  <2> SUFFICES ASSUME NEW q \in Proc, Processing(q)'
               PROVE  /\ phase'[call'[q].svc] # "absent"
                      /\ call'[q].op = "delete" => phase'[call'[q].svc] = "deleting"
    OBVIOUS
  <2>1. Processing(q) /\ call'[q] = call[q] /\ call[q].svc \in Svc
    BY <1>1, <1>3 DEF Processing, Inv, CallInv
  <2>2. phase'[call[q].svc] = phase[call[q].svc]
    BY <1>2, <1>4, <2>1
  <2> QED BY <2>1, <2>2 DEF CallerInv
<1> QED BY <1>1, <1>3, <1>5, <1>6 DEF CallerInv

\* A goroutine is started: it is the only worker that processes the service.
LEMMA StartCaller ==
  ASSUME HasPorts, Inv, CallerInv, NEW p \in Proc, NEW s \in Svc,
         CallEnsure(p, s) \/ CallUpdate(p, s) \/ CallDelete(p, s)
  PROVE  CallerInv'
<1>1. PICK o \in {"ensure", "update", "delete"} :
        /\ Start(p, NewCall(o, s)) /\ UNCHANGED <<phase, status>>
        /\ o = "ensure" => phase[s] = "present" /\ ~Processed(s)
        /\ o = "delete" => phase[s] = "deleting" /\ ~Processed(s)
  BY DEF CallEnsure, CallUpdate, CallDelete
<1>2. /\ pc'[p] = "lock" /\ call'[p] = NewCall(o, s) /\ spec' = spec
      /\ \A q \in Proc \ {p} : pc'[q] = pc[q] /\ call'[q] = call[q]
  BY <1>1 DEF Start, Inv, TypeOK
<1>3. spec[s].ports # {}
  BY DEF CallerInv, HasPorts
<1>4. call'[p].op = o /\ call'[p].svc = s /\ (call'[p].ports = {} <=> o = "delete")
  BY <1>2, <1>3 DEF NewCall
<1>5. \A q \in Proc \ {p} : Processing(q)' <=> Processing(q)
  BY <1>2 DEF Processing
<1>6. o # "update" => \A q \in Proc : Processing(q) => call[q].svc # s
  BY <1>1 DEF Processed, Processing
<1>7. Processing(p)' => o # "update"
  BY <1>4 DEF Processing
<1> QED BY <1>1, <1>2, <1>4, <1>5, <1>6, <1>7 DEF CallerInv

\* Users create, change and delete services.
LEMMA UserCaller ==
  ASSUME Inv, CallerInv, User \/ \E s \in Svc : GetLoadBalancerFindsNone(s)
  PROVE  CallerInv'
<1>1. UNCHANGED <<pc, call>> /\ \A q \in Proc : Processing(q)' <=> Processing(q)
  BY DEF User, SetService, DeleteService, SetNodes, GetLoadBalancerFindsNone, Processing
<1>2. /\ phase \in [Svc -> {"absent", "present", "deleting"}] /\ spec \in [Svc -> ServiceSpec]
      /\ status \in [Svc -> IP \cup {NoIP}]
      /\ \A q \in Proc : Processing(q) => call[q].svc \in Svc
  BY DEF Inv, TypeOK, CallInv, Processing
<1>3. ASSUME NEW s \in Svc, NEW c \in Spec0, SetService(s, c) PROVE CallerInv'
  BY <1>1, <1>2, <1>3 DEF SetService, CallerInv
<1>4. ASSUME NEW s \in Svc, DeleteService(s) PROVE CallerInv'
  BY <1>1, <1>2, <1>4 DEF DeleteService, CallerInv
<1>5. ASSUME NEW n, SetNodes(n) PROVE CallerInv'
  BY <1>1, <1>5 DEF SetNodes, CallerInv
<1>6. ASSUME NEW s \in Svc, GetLoadBalancerFindsNone(s) PROVE CallerInv'
  <2>1. \A q \in Proc : Processing(q) => call[q].svc # s
    BY <1>6 DEF GetLoadBalancerFindsNone, Processed, Processing
  <2> QED BY <1>1, <1>2, <1>6, <2>1 DEF GetLoadBalancerFindsNone, CallerInv
<1> QED BY <1>3, <1>4, <1>5, <1>6 DEF User

-----------------------------------------------------------------------------
(***************************************************************************)
(* A step inside an operation that does not fail                           *)
(***************************************************************************)

\* A claim has values of its types.
LEMMA ClaimType ==
  ASSUME Inv, NEW s, NEW a, NEW c, Claim(s, a, c)
  PROVE  s \in Svc /\ a \in IP /\ c \in IPPool
<1>1. ASSUME NEW v \in servers PROVE v.svc \in Svc /\ v.ip \in IP /\ v.class \in IPPool
  BY DEF Inv, TypeOK, VirtualServer
<1>2. ASSUME NEW p \in Proc, Holder(p)
      PROVE  call[p].svc \in Svc /\ st[p].ip \in IP /\ st[p].class \in IPPool
  <2>1. pc[p] \in Holding /\ st[p].ip # NoIP
    BY <1>2 DEF Holder
  <2>2. call[p].svc \in Svc /\ st[p].class # NoPool
    BY <2>1 DEF Inv, CallInv, ClassInv, Holding, AfterMonitors
  <2>3. st[p].ip \in IP \cup {NoIP} /\ st[p].class \in IPPool \cup {NoPool}
    BY FieldTypes DEF Inv
  <2> QED BY <2>1, <2>2, <2>3
<1> QED BY <1>1, <1>2 DEF Claim

\* Holders hold the key of the service.
LEMMA OneHolder ==
  ASSUME Inv, NEW p \in Proc, NEW q \in Proc, pc[p] \in Holding, pc[q] \in Holding,
         call[p].svc = call[q].svc
  PROVE  p = q
BY DEF Inv, LockInv, Holding, AfterMonitors

\* No claim comes or goes.
LEMMA ClaimsKept ==
  ASSUME ClaimsInv, alloc' = alloc, crashes' = crashes,
         \A s, a, c : Claim(s, a, c)' <=> Claim(s, a, c)
  PROVE  ClaimsInv'
BY DEF ClaimsInv

\* The step of goroutine p keeps the invariant if it keeps the claims, if a service whose
\* last virtual server it deletes is being deleted, and if it goes where it may go.
LEMMA OperationStep ==
  ASSUME Inv, AddressInv, faults = 0, faults' = 0, NEW p \in Proc, pc[p] # "idle",
         UNCHANGED <<k8s, call>>,
         NEW l \in Label \ {"idle", "lock", "rollback"}, pc' = [pc EXCEPT ![p] = l],
         \A q \in Proc \ {p} : st'[q].ip = st[q].ip /\ err'[q] = err[q],
         ClaimsInv',
         \A s \in Svc : Served(s) => \/ Served(s)'
                                     \/ /\ s = call[p].svc /\ phase[s] = "deleting"
                                        /\ Processing(p) /\ l \notin Starting,
         l \in Starting => pc[p] \in Starting,
         l \in {"isAllocated", "release"} => err'[p] = "none" /\ call[p].ports = {},
         l = "finish" /\ err'[p] # "none" => st'[p].ip = NoIP
  PROVE  AddressInv'
<1>1. CallerInv /\ ServedInv /\ PathInv
  BY DEF AddressInv
<1>2. /\ pc'[p] = l /\ \A q \in Proc \ {p} : pc'[q] = pc[q]
      /\ UNCHANGED <<phase, status, spec>>
  BY DEF Inv, TypeOK, k8s
<1>3. CallerInv'
  BY <1>1, <1>2, CallerKept
<1>4. \A q \in Proc : Processing(q)' <=> Processing(q)
  BY <1>2 DEF Processing
<1>5. ASSUME NEW q \in Proc, pc'[q] \in Starting, Processing(q)',
             call[q].op = "delete" \/ call[q].status # NoIP
      PROVE  Served(call[q].svc)'
  <2>1. pc[q] \in Starting /\ Processing(q)
    BY <1>2, <1>4, <1>5
  <2>2. Served(call[q].svc) /\ call[q].svc \in Svc
    BY <1>1, <1>5, <2>1 DEF ServedInv, Inv, CallInv, Processing
  <2>3. ~(call[q].svc = call[p].svc /\ Processing(p) /\ l \notin Starting)
    BY <1>1, <1>2, <1>5, <2>1 DEF CallerInv
  <2> QED BY <2>2, <2>3
<1>6. ServedInv'
  BY <1>1, <1>2, <1>5 DEF ServedInv
<1>7. PathInv'
  BY <1>1, <1>2 DEF PathInv
<1> QED BY <1>3, <1>6, <1>7 DEF AddressInv

\* The virtual servers and the allocated addresses are not touched, and goroutine p knows of
\* the same address as before.
LEMMA PlainStep ==
  ASSUME Inv, AddressInv, faults = 0, faults' = 0, NEW p \in Proc, pc[p] # "idle",
         UNCHANGED <<k8s, call, crashes, servers, alloc>>,
         NEW l \in Label \ {"idle", "lock", "rollback"}, pc' = [pc EXCEPT ![p] = l],
         \A q \in Proc : st'[q].ip = st[q].ip /\ st'[q].class = st[q].class,
         \A q \in Proc \ {p} : err'[q] = err[q],
         l \in Holding <=> pc[p] \in Holding,
         l \in Starting => pc[p] \in Starting,
         l \in {"isAllocated", "release"} => err'[p] = "none" /\ call[p].ports = {},
         l = "finish" /\ err'[p] # "none" => st[p].ip = NoIP
  PROVE  AddressInv'
<1>1. \A q \in Proc : Holder(q)' <=> Holder(q)
  BY DEF Holder, Inv, TypeOK
<1>2. \A s, a, c : Claim(s, a, c)' <=> Claim(s, a, c)
  BY <1>1 DEF Claim
<1>3. ClaimsInv'
  BY <1>2, ClaimsKept DEF AddressInv
<1>4. \A s \in Svc : Served(s) => Served(s)'
  BY DEF Served
<1> QED BY <1>3, <1>4, OperationStep

\* Most steps are plain.
LEMMA PlainSteps ==
  ASSUME Inv, Good, AddressInv, faults = 0, faults' = 0, NEW p \in Proc,
         \/ Lock(p) \/ FindVirtualServers(p) \/ FindPools(p) \/ NextPort(p)
         \/ GetTCPMonitor(p) \/ GetPool(p) \/ KeepVirtualServer(p) \/ KeepAddress(p)
         \/ Attach(p) \/ Detach(p) \/ NoOrphanServers(p) \/ DeletePool(p) \/ NoOrphanPools(p)
         \/ DeleteTCPMonitor(p) \/ NoOrphanTCPMonitors(p)
         \/ UpdateFindPools(p) \/ UpdatePoolMembers(p) \/ UpdatePoolMembersDone(p)
  PROVE  AddressInv'
<1>1. /\ pc \in [Proc -> Label] /\ st \in [Proc -> State]
      /\ err \in [Proc -> {"none", "fault", "class", "exhausted"}]
  BY DEF Inv, TypeOK
<1>2. ASSUME NEW l, Fault(p, l) PROVE FALSE
  BY <1>2 DEF Fault
<1>3. ASSUME \/ st' = st
             \/ \E X : st' = [st EXCEPT ![p].servers = X]
             \/ \E X : st' = [st EXCEPT ![p].pools = X]
             \/ \E X : st' = [st EXCEPT ![p].monitors = X]
      PROVE  \A q \in Proc : st'[q].ip = st[q].ip /\ st'[q].class = st[q].class
  <2>1. ASSUME NEW X, NEW q \in Proc, st' = [st EXCEPT ![p].servers = X]
        PROVE  st'[q].ip = st[q].ip /\ st'[q].class = st[q].class
    BY <1>1, <2>1 DEF State
  <2>2. ASSUME NEW X, NEW q \in Proc, st' = [st EXCEPT ![p].pools = X]
        PROVE  st'[q].ip = st[q].ip /\ st'[q].class = st[q].class
    BY <1>1, <2>2 DEF State
  <2>3. ASSUME NEW X, NEW q \in Proc, st' = [st EXCEPT ![p].monitors = X]
        PROVE  st'[q].ip = st[q].ip /\ st'[q].class = st[q].class
    BY <1>1, <2>3 DEF State
  <2> QED BY <1>3, <2>1, <2>2, <2>3
<1>4. CASE Lock(p)
  <2>1. /\ pc[p] = "lock" /\ UNCHANGED <<k8s, call, crashes, servers, alloc, st>>
        /\ \E l \in {"updateFind", "findServers", "unlock"} : pc' = [pc EXCEPT ![p] = l]
        /\ \A q \in Proc \ {p} : err'[q] = err[q]
    BY <1>1, <1>4 DEF Lock, Goto, Error, nsxt
  <2> QED BY <2>1, PlainStep DEF Label, Holding, AfterMonitors, Starting
<1>5. CASE FindVirtualServers(p) \/ FindPools(p)
  <2>1. /\ pc[p] \in {"findServers", "findPools"}
        /\ UNCHANGED <<k8s, call, crashes, servers, alloc, err>>
        /\ \E l \in {"findPools", "findMonitors"} : pc' = [pc EXCEPT ![p] = l]
    BY <1>2, <1>5 DEF FindVirtualServers, FindPools, Goto, nsxt, outside
  <2>2. (\E X : st' = [st EXCEPT ![p].servers = X]) \/ \E X : st' = [st EXCEPT ![p].pools = X]
    BY <1>2, <1>5 DEF FindVirtualServers, FindPools
  <2>3. \A q \in Proc : st'[q].ip = st[q].ip /\ st'[q].class = st[q].class
    BY <1>3, <2>2
  <2> QED BY <2>1, <2>3, PlainStep DEF Label, Holding, AfterMonitors, Starting
<1>6. ASSUME pc[p] \in InProcess, UNCHANGED <<outside, servers, alloc, err>>,
             NEW l \in InProcess \cup {"finish"}, pc' = [pc EXCEPT ![p] = l],
             \A q \in Proc : st'[q].ip = st[q].ip /\ st'[q].class = st[q].class
      PROVE  AddressInv'
  <2>1. err[p] = "none"
    BY <1>6, ProcessFacts
  <2> QED BY <1>6, <2>1, PlainStep
          DEF outside, InProcess, Label, Holding, AfterMonitors, Starting
<1>7. CASE NextPort(p) \/ KeepVirtualServer(p) \/ KeepAddress(p) \/ Attach(p) \/ Detach(p)
  <2>1. /\ UNCHANGED <<outside, servers, alloc, st, err>>
        /\ pc[p] \in {"ports", "server", "attach", "orphanServers"}
        /\ \E l \in {"monitor", "pool", "orphanServers", "ports", "createServer",
                     "deleteServer"} : pc' = [pc EXCEPT ![p] = l]
    BY <1>2, <1>7 DEF NextPort, KeepVirtualServer, KeepAddress, Attach, Detach, Goto, nsxt
  <2> QED BY <1>6, <2>1 DEF InProcess, AfterMonitors
<1>8. CASE GetTCPMonitor(p)
  <2>1. /\ UNCHANGED <<outside, servers, alloc, err>> /\ pc[p] = "monitor"
        /\ pc' = [pc EXCEPT ![p] = "pool"]
    BY <1>2, <1>8
       DEF GetTCPMonitor, KeepTCPMonitor, UpdateTCPMonitor, CreateTCPMonitor, Goto, nsxt
  <2>2. st' = st \/ \E X : st' = [st EXCEPT ![p].monitors = X]
    BY <1>8 DEF GetTCPMonitor, KeepTCPMonitor, UpdateTCPMonitor, CreateTCPMonitor
  <2>3. \A q \in Proc : st'[q].ip = st[q].ip /\ st'[q].class = st[q].class
    BY <1>3, <2>2
  <2> QED BY <1>6, <2>1, <2>3 DEF InProcess, AfterMonitors
<1>9. CASE GetPool(p)
  <2>1. /\ UNCHANGED <<outside, servers, alloc, err>> /\ pc[p] = "pool"
        /\ pc' = [pc EXCEPT ![p] = "server"]
    BY <1>2, <1>9 DEF GetPool, KeepPool, UpdatePool, CreatePool, Goto, nsxt
  <2>2. st' = st \/ \E X : st' = [st EXCEPT ![p].pools = X]
    BY <1>9 DEF GetPool, KeepPool, UpdatePool, CreatePool
  <2>3. \A q \in Proc : st'[q].ip = st[q].ip /\ st'[q].class = st[q].class
    BY <1>3, <2>2
  <2> QED BY <1>6, <2>1, <2>3 DEF InProcess, AfterMonitors
<1>10. CASE NoOrphanServers(p) \/ DeletePool(p) \/ NoOrphanPools(p)
  <2>1. /\ UNCHANGED <<outside, servers, alloc, err>> /\ pc[p] \in {"orphanServers", "orphanPools"}
        /\ \E l \in {"orphanPools", "orphanMonitors"} : pc' = [pc EXCEPT ![p] = l]
    BY <1>2, <1>10 DEF NoOrphanServers, DeletePool, NoOrphanPools, Goto, nsxt
  <2>2. st' = st \/ \E X : st' = [st EXCEPT ![p].pools = X]
    BY <1>10 DEF NoOrphanServers, DeletePool, NoOrphanPools
  <2>3. \A q \in Proc : st'[q].ip = st[q].ip /\ st'[q].class = st[q].class
    BY <1>3, <2>2
  <2> QED BY <1>6, <2>1, <2>3 DEF InProcess, AfterMonitors
<1>11. CASE DeleteTCPMonitor(p) \/ NoOrphanTCPMonitors(p)
  <2>1. /\ UNCHANGED <<outside, servers, alloc, err>> /\ pc[p] = "orphanMonitors"
        /\ \E l \in {"orphanMonitors", "finish"} : pc' = [pc EXCEPT ![p] = l]
    BY <1>2, <1>11 DEF DeleteTCPMonitor, NoOrphanTCPMonitors, Goto, nsxt
  <2>2. st' = st \/ \E X : st' = [st EXCEPT ![p].monitors = X]
    BY <1>11 DEF DeleteTCPMonitor, NoOrphanTCPMonitors
  <2>3. \A q \in Proc : st'[q].ip = st[q].ip /\ st'[q].class = st[q].class
    BY <1>3, <2>2
  <2> QED BY <1>6, <2>1, <2>3 DEF InProcess, AfterMonitors
<1>12. CASE UpdateFindPools(p) \/ UpdatePoolMembers(p) \/ UpdatePoolMembersDone(p)
  <2>1. /\ UNCHANGED <<k8s, call, crashes, servers, alloc, err>>
        /\ pc[p] \in {"updateFind", "updatePools"}
        /\ \E l \in {"updatePools", "unlock"} : pc' = [pc EXCEPT ![p] = l]
    BY <1>2, <1>12 DEF UpdateFindPools, UpdatePoolMembers, UpdatePoolMembersDone, Goto, nsxt,
                       outside
  <2>2. st' = st \/ \E X : st' = [st EXCEPT ![p].pools = X]
    BY <1>12 DEF UpdateFindPools, UpdatePoolMembers, UpdatePoolMembersDone
  <2>3. \A q \in Proc : st'[q].ip = st[q].ip /\ st'[q].class = st[q].class
    BY <1>3, <2>2
  <2> QED BY <2>1, <2>3, PlainStep DEF Label, Holding, AfterMonitors, Starting
<1> QED BY <1>4, <1>5, <1>7, <1>8, <1>9, <1>10, <1>11, <1>12

-----------------------------------------------------------------------------
(***************************************************************************)
(* The steps that have to do with addresses                                *)
(***************************************************************************)

\* The address and the class that Process starts with are those of a virtual server; only
\* a service that has never had an address has none.
LEMMA FindTCPMonitorsAddress ==
  ASSUME Inv, Good, AddressInv, faults = 0, faults' = 0, NEW p \in Proc, FindTCPMonitors(p)
  PROVE  AddressInv'
<1> DEFINE s0 == call[p].svc
<1>1. /\ pc \in [Proc -> Label] /\ st \in [Proc -> State]
      /\ CallerInv /\ ServedInv /\ ClaimsInv
  BY DEF Inv, TypeOK, AddressInv
<1>2. ASSUME NEW l, Fault(p, l) PROVE FALSE
  BY <1>2 DEF Fault
<1>3. /\ pc[p] = "findMonitors" /\ pc' = [pc EXCEPT ![p] = "ports"]
      /\ UNCHANGED <<outside, k8s, call, crashes, servers, alloc, err>>
  BY <1>2 DEF FindTCPMonitors, Goto, nsxt, outside
<1>4. PICK b \in AddressAndClass(p) :
        st' = [st EXCEPT ![p].monitors = Of(monitors, call[p].svc),
                         ![p].ip = b.ip, ![p].class = b.class]
  BY <1>2 DEF FindTCPMonitors
<1>5. /\ st'[p].ip = b.ip /\ st'[p].class = b.class
      /\ \A q \in Proc \ {p} : st'[q] = st[q]
  BY <1>1, <1>4 DEF State
<1>6. pc[p] \in Inside
  BY <1>3 DEF Inside, Label
<1>7. At("findMonitors", err[p], call[p], st[p], cur[p], Of(servers, s0), Of(pools, s0),
         Of(monitors, s0))
  BY <1>3, <1>6, AtFacts
<1>8. st[p].servers = Of(servers, s0) /\ call[p].op # "update"
  BY <1>7 DEF At, Snapshot, Quiet, Ensuring, AfterServers, AfterPools
<1>9. Processing(p)
  BY <1>1, <1>3, <1>8 DEF CallerInv, Processing
<1>10. b.ip = NoIP \/ \E v \in servers : v.svc = s0 /\ v.ip = b.ip /\ v.class = b.class
  <2>1. CASE st[p].servers = {}
    <3>1. ~Served(s0)
      BY <1>8, <2>1 DEF Of, Served
    <3>2. call[p].status = NoIP
      BY <1>1, <1>3, <1>9, <3>1 DEF ServedInv, Starting
    <3> QED BY <2>1, <3>2 DEF AddressAndClass
  <2>2. CASE st[p].servers # {}
    <3>1. PICK v \in st[p].servers : b = [ip |-> v.ip, class |-> v.class]
      BY <2>2 DEF AddressAndClass
    <3> QED BY <1>8, <3>1 DEF Of
  <2> QED BY <2>1, <2>2
<1>11. /\ ~Holder(p) /\ \A q \in Proc \ {p} : Holder(q)' <=> Holder(q)
       /\ Holder(p)' => b.ip # NoIP
  BY <1>1, <1>3, <1>5 DEF Holder, Holding, AfterMonitors
<1>12. ASSUME NEW s, NEW a, NEW c PROVE Claim(s, a, c)' <=> Claim(s, a, c)
  BY <1>3, <1>5, <1>10, <1>11 DEF Claim
<1>13. ClaimsInv'
  BY <1>1, <1>3, <1>12, ClaimsKept
<1>14. \A s \in Svc : Served(s) => Served(s)'
  BY <1>3 DEF Served
<1> QED BY <1>3, <1>5, <1>13, <1>14, OperationStep DEF Label, Starting

\* An object is updated in place.
LEMMA ReplaceMembers ==
  ASSUME NEW X, NEW n, Keyed(X, n), NEW y \in X, NEW x, x.id = y.id
  PROVE  \A z : z \in Replace(X, x) <=> (z = x \/ (z \in X /\ z # y))
BY DEF Keyed, Replace

\* updateVirtualServer keeps the service, the address and the class.
LEMMA UpdateVirtualServerAddress ==
  ASSUME Inv, Good, AddressInv, faults = 0, faults' = 0, NEW p \in Proc, UpdateVirtualServer(p)
  PROVE  AddressInv'
<1> DEFINE s0 == call[p].svc
<1>1. pc \in [Proc -> Label] /\ st \in [Proc -> State] /\ servers \in SUBSET VirtualServer
  BY DEF Inv, TypeOK
<1>2. ASSUME NEW l, Fault(p, l) PROVE FALSE
  BY <1>2 DEF Fault
<1>3. PICK v \in Matching(st[p].servers, cur[p].port) :
        LET n == [v EXCEPT !.nodePort = call[p].nodePort, !.pool = cur[p].pool] IN
        servers' = Replace(servers, n) /\ st' = [st EXCEPT ![p].servers = Replace(@, n)]
  BY <1>2 DEF UpdateVirtualServer
<1> DEFINE n == [v EXCEPT !.nodePort = call[p].nodePort, !.pool = cur[p].pool]
<1>4. /\ pc[p] = "server" /\ pc' = [pc EXCEPT ![p] = "ports"]
      /\ UNCHANGED <<outside, k8s, call, crashes, alloc, err>>
  BY <1>2 DEF UpdateVirtualServer, Goto, outside
<1>5. \A q \in Proc : st'[q].ip = st[q].ip /\ st'[q].class = st[q].class
  BY <1>1, <1>3 DEF State
<1>6. v \in servers /\ Keyed(servers, nextId)
  BY <1>3, <1>4, ProcessFacts DEF Matching, Of, InProcess, AfterMonitors, Good, KeysInv
<1>7. n.id = v.id /\ n.svc = v.svc /\ n.ip = v.ip /\ n.class = v.class
  BY <1>1, <1>6 DEF VirtualServer
<1>8. /\ \A s, a, c : (\E z \in servers' : z.svc = s /\ z.ip = a /\ z.class = c)
                      <=> \E z \in servers : z.svc = s /\ z.ip = a /\ z.class = c
      /\ \A s : (\E z \in servers : z.svc = s) => \E z \in servers' : z.svc = s
  <2>1. \A z : z \in Replace(servers, n) <=> (z = n \/ (z \in servers /\ z # v))
    <3> HIDE DEF n
    <3> QED BY <1>6, <1>7, ReplaceMembers
  <2>2. servers' = Replace(servers, n)
    BY <1>3
  <2> HIDE DEF n
  <2> QED BY <1>6, <1>7, <2>1, <2>2
<1>9. \A q \in Proc : Holder(q)' <=> Holder(q)
  BY <1>1, <1>4, <1>5 DEF Holder, Holding, AfterMonitors
<1>10. ASSUME NEW s, NEW a, NEW c PROVE Claim(s, a, c)' <=> Claim(s, a, c)
  BY <1>4, <1>5, <1>8, <1>9 DEF Claim
<1>11. ClaimsInv'
  BY <1>4, <1>10, ClaimsKept DEF AddressInv
<1>12. \A s \in Svc : Served(s) => Served(s)'
  BY <1>8 DEF Served
<1> QED BY <1>4, <1>5, <1>11, <1>12, OperationStep DEF Label, Starting

\* Allocate gives an unused address to a service that has none.
LEMMA AllocateAddress ==
  ASSUME Inv, Good, AddressInv, faults = 0, faults' = 0, NEW p \in Proc, Allocate(p)
  PROVE  AddressInv'
<1> DEFINE s0 == call[p].svc
           k == st[p].class
<1>1. /\ pc \in [Proc -> Label] /\ st \in [Proc -> State]
      /\ err \in [Proc -> {"none", "fault", "class", "exhausted"}]
      /\ alloc \in [IPPool -> SUBSET IP] /\ servers \in SUBSET VirtualServer
  BY DEF Inv, TypeOK
<1>2. ASSUME NEW l, Fault(p, l) PROVE FALSE
  BY <1>2 DEF Fault
<1>3. /\ pc[p] = "server" /\ st[p].ip = NoIP
      /\ UNCHANGED <<outside, k8s, call, crashes, servers>>
  BY DEF Allocate, outside
<1>4. k \in IPPool /\ s0 \in Svc
  BY <1>3, FieldTypes DEF Inv, ClassInv, AfterMonitors, CallInv
<1>5. CASE Error(p, "exhausted", "finish") /\ UNCHANGED <<alloc, st>>
  <2>1. /\ pc' = [pc EXCEPT ![p] = "finish"]
        /\ \A q \in Proc \ {p} : err'[q] = err[q]
    BY <1>1, <1>5 DEF Error
  <2> QED BY <1>3, <1>5, <2>1, PlainStep DEF Label, Holding, AfterMonitors, Starting
<1>6. ASSUME NEW i \in FreeAddresses(k), alloc' = [alloc EXCEPT ![k] = @ \cup {i}],
             st' = [st EXCEPT ![p].ip = i], Goto(p, "createServer")
      PROVE  AddressInv'
  <2>1. i \in IPsOf[k] /\ i \notin alloc[k] /\ i \in IP /\ i # NoIP
    BY <1>4, <1>6, IPsOfAssumption, NilAssumption DEF FreeAddresses
  <2>2. /\ st'[p].ip = i /\ st'[p].class = k /\ \A q \in Proc \ {p} : st'[q] = st[q]
        /\ pc' = [pc EXCEPT ![p] = "createServer"] /\ err' = err
    BY <1>1, <1>6 DEF State, Goto
  <2>3. /\ ~Holder(p) /\ Holder(p)' /\ \A q \in Proc \ {p} : Holder(q)' <=> Holder(q)
    BY <1>1, <1>3, <2>1, <2>2 DEF Holder, Holding, AfterMonitors
  <2>4. ASSUME NEW s, NEW a, NEW c
        PROVE  Claim(s, a, c)' <=> Claim(s, a, c) \/ (s = s0 /\ a = i /\ c = k)
    BY <1>3, <2>2, <2>3 DEF Claim
  <2>5. ASSUME NEW a, NEW c, Claim(s0, a, c) PROVE FALSE
    <3>1. ASSUME NEW v \in servers, v.svc = s0 PROVE FALSE
      <4>1. v.ip = st[p].ip
        BY <1>3, <3>1, ProcessFacts DEF InProcess, AfterMonitors, Of
      <4>2. v.ip \in IP
        BY <1>1 DEF VirtualServer
      <4> QED BY <1>3, <4>1, <4>2, NilAssumption
    <3>2. ASSUME NEW q \in Proc, Holder(q), call[q].svc = s0 PROVE FALSE
      <4>1. pc[q] \in Holding /\ pc[p] \in Holding
        BY <1>3, <3>2 DEF Holder, Holding, AfterMonitors
      <4> QED BY <2>3, <3>2, <4>1, OneHolder
    <3> QED BY <2>5, <3>1, <3>2 DEF Claim
  <2>6. ClaimsInv
    BY DEF AddressInv
  <2>7. ASSUME NEW s, Claim(s, i, k) PROVE FALSE
    BY <1>4, <2>1, <2>6, <2>7, ClaimType DEF ClaimsInv
  <2>8. \A c \in IPPool : alloc'[c] = IF c = k THEN alloc[c] \cup {i} ELSE alloc[c]
    BY <1>1, <1>4, <1>6
  <2>9. ClaimsInv'
    <3>1. ASSUME NEW c \in IPPool PROVE alloc'[c] \subseteq IPsOf[c]
      <4>1. alloc[c] \subseteq IPsOf[c]
        BY <2>6 DEF ClaimsInv
      <4> QED BY <2>1, <2>8, <4>1
    <3>2. \A s \in Svc, a \in IP, c \in IPPool : Claim(s, a, c)' => a \in alloc'[c]
      BY <2>4, <2>6, <2>8 DEF ClaimsInv
    <3>3. \A s, t \in Svc, a \in IP, c \in IPPool : Claim(s, a, c)' /\ Claim(t, a, c)' => s = t
      BY <2>4, <2>6, <2>7 DEF ClaimsInv
    <3>4. \A s \in Svc, a, b \in IP, c, d \in IPPool :
            Claim(s, a, c)' /\ Claim(s, b, d)' => a = b /\ c = d
      BY <2>4, <2>5, <2>6 DEF ClaimsInv
    <3>5. crashes' = 0 => \A c \in IPPool : \A a \in alloc'[c] : \E s \in Svc : Claim(s, a, c)'
      <4> SUFFICES ASSUME crashes = 0, NEW c \in IPPool, NEW a \in alloc'[c]
                   PROVE  \E s \in Svc : Claim(s, a, c)'
        BY <1>3
      <4>1. CASE a \in alloc[c]
        BY <2>4, <2>6, <4>1 DEF ClaimsInv
      <4>2. CASE a = i /\ c = k
        BY <1>4, <2>4, <4>2
      <4> QED BY <2>8, <4>1, <4>2
    <3> QED BY <3>1, <3>2, <3>3, <3>4, <3>5 DEF ClaimsInv
  <2>10. \A s \in Svc : Served(s) => Served(s)'
    BY <1>3 DEF Served
  <2> QED BY <1>3, <2>2, <2>9, <2>10, OperationStep DEF Label, Starting
<1> QED BY <1>2, <1>5, <1>6 DEF Allocate

\* createVirtualServer: the virtual server has the address of its service.
LEMMA CreateVirtualServerAddress ==
  ASSUME Inv, Good, AddressInv, faults = 0, faults' = 0, NEW p \in Proc, CreateVirtualServer(p)
  PROVE  AddressInv'
<1> DEFINE v == NewVirtualServer(p)
<1>1. pc \in [Proc -> Label] /\ st \in [Proc -> State]
  BY DEF Inv, TypeOK
<1>2. ASSUME NEW l, Fault(p, l) PROVE FALSE
  BY <1>2 DEF Fault
<1>3. /\ pc[p] = "createServer" /\ pc' = [pc EXCEPT ![p] = "attach"]
      /\ UNCHANGED <<outside, k8s, call, crashes, alloc, err>>
      /\ servers' = servers \cup {v} /\ st' = [st EXCEPT ![p].servers = @ \cup {v}]
  BY <1>2 DEF CreateVirtualServer, Goto, outside
<1>4. \A q \in Proc : st'[q].ip = st[q].ip /\ st'[q].class = st[q].class
  BY <1>1, <1>3 DEF State
<1>5. Holder(p) /\ \A q \in Proc : Holder(q)' <=> Holder(q)
  BY <1>1, <1>3, <1>4 DEF Holder, Holding, AfterMonitors, Inv, ClassInv
<1>6. v.svc = call[p].svc /\ v.ip = st[p].ip /\ v.class = st[p].class
  BY DEF NewVirtualServer
<1>7. ASSUME NEW s, NEW a, NEW c PROVE Claim(s, a, c)' <=> Claim(s, a, c)
  <2> HIDE DEF v
  <2> QED BY <1>3, <1>4, <1>5, <1>6 DEF Claim
<1>8. ClaimsInv'
  BY <1>3, <1>7, ClaimsKept DEF AddressInv
<1>9. \A s \in Svc : Served(s) => Served(s)'
  BY <1>3 DEF Served
<1> QED BY <1>3, <1>4, <1>8, <1>9, OperationStep DEF Label, Starting

\* deleteVirtualServer: the goroutine still knows of the address.  A service that keeps
\* ports keeps a virtual server, one that does not is being deleted.
LEMMA DeleteVirtualServerAddress ==
  ASSUME Inv, Good, AddressInv, faults = 0, faults' = 0, NEW p \in Proc, DeleteVirtualServer(p)
  PROVE  AddressInv'
<1> DEFINE s0 == call[p].svc
<1>1. /\ pc \in [Proc -> Label] /\ st \in [Proc -> State] /\ servers \in SUBSET VirtualServer
      /\ CallerInv /\ ClaimsInv
  BY DEF Inv, TypeOK, AddressInv
<1>2. ASSUME NEW l, Fault(p, l) PROVE FALSE
  BY <1>2 DEF Fault
<1>3. /\ pc[p] = "deleteServer" /\ pc' = [pc EXCEPT ![p] = "orphanServers"]
      /\ UNCHANGED <<outside, k8s, call, crashes, alloc, err>>
      /\ servers' = Without(servers, cur[p].server)
      /\ st' = [st EXCEPT ![p].servers = Without(@, cur[p].server)]
  BY <1>2 DEF DeleteVirtualServer, Goto, outside
<1>4. \A q \in Proc : st'[q].ip = st[q].ip /\ st'[q].class = st[q].class
  BY <1>1, <1>3 DEF State
<1>5. pc[p] \in InProcess /\ s0 \in Svc
  BY <1>3 DEF InProcess, AfterMonitors, Inv, CallInv
<1>6. PICK v \in Of(servers, s0) : v.id = cur[p].server
  BY <1>3, <1>5, ProcessFacts
<1>7. /\ v \in servers /\ v.svc = s0 /\ v.ip = st[p].ip
      /\ \A w \in servers : w.id = cur[p].server => w = v
      /\ v.ip \in IP
  BY <1>1, <1>5, <1>6, ProcessFacts DEF Of, Good, KeysInv, Keyed, VirtualServer
<1>8. Holder(p) /\ \A q \in Proc : Holder(q)' <=> Holder(q)
  BY <1>1, <1>3, <1>4, <1>7, NilAssumption DEF Holder, Holding, AfterMonitors
<1>9. v.class = st[p].class
  <2>1. Claim(s0, v.ip, v.class)
    BY <1>7 DEF Claim
  <2>2. Claim(s0, st[p].ip, st[p].class)
    BY <1>8 DEF Claim
  <2> QED BY <1>1, <2>1, <2>2, ClaimType DEF ClaimsInv
<1>10. \A w : w \in servers' <=> w \in servers /\ w.id # cur[p].server
  BY <1>3 DEF Without
<1>11. ASSUME NEW s, NEW a, NEW c PROVE Claim(s, a, c)' <=> Claim(s, a, c)
  <2>1. CASE \E w \in servers : w.svc = s /\ w.ip = a /\ w.class = c /\ w.id = cur[p].server
    <3>1. s = s0 /\ a = st[p].ip /\ c = st[p].class
      BY <1>7, <1>9, <2>1
    <3> QED BY <1>3, <1>4, <1>8, <3>1 DEF Claim
  <2>2. CASE ~\E w \in servers : w.svc = s /\ w.ip = a /\ w.class = c /\ w.id = cur[p].server
    BY <1>3, <1>4, <1>8, <1>10, <2>2 DEF Claim
  <2> QED BY <2>1, <2>2
<1>12. ClaimsInv'
  BY <1>1, <1>3, <1>11, ClaimsKept
<1>13. call[p].op # "update" /\ Processing(p)
  BY <1>1, <1>3, <1>5, ProcessFacts DEF CallerInv, Processing
<1>14. ASSUME NEW s \in Svc, Served(s)
       PROVE  Served(s)' \/ (s = s0 /\ phase[s] = "deleting")
  <2>1. CASE s # s0
    BY <1>7, <1>10, <1>14, <2>1 DEF Served
  <2>2. CASE call[p].op = "delete"
    BY <1>1, <1>13, <2>1, <2>2 DEF CallerInv
  <2>3. CASE s = s0 /\ call[p].op # "delete"
    <3>1. PICK q \in call[p].ports : TRUE
      BY <1>1, <1>3, <2>3 DEF CallerInv
    <3>2. Progress("deleteServer", call[p], st[p], cur[p], Of(servers, s0), Of(pools, s0),
                   Of(monitors, s0))
      BY <1>3, <1>5, ProcessFacts
    <3>3. \E w \in Of(servers, s0) : w.port = q
      BY <3>2 DEF Progress, Done, PortDone
    <3>4. \A w \in Of(servers, s0) : w.id = cur[p].server => w.port # q
      BY <3>2 DEF Progress
    <3> QED BY <1>10, <2>3, <3>3, <3>4 DEF Of, Served
  <2> QED BY <2>1, <2>2, <2>3
<1>15. \A s \in Svc : Served(s) => \/ Served(s)'
                                    \/ /\ s = s0 /\ phase[s] = "deleting"
                                       /\ Processing(p) /\ "orphanServers" \notin Starting
  BY <1>13, <1>14 DEF Starting
<1> QED BY <1>3, <1>4, <1>12, <1>15, OperationStep DEF Label, Starting

\* Finish: the address of a service that keeps ports is known from its virtual servers; that
\* of a service that keeps none is to be released.
LEMMA FinishAddress ==
  ASSUME Inv, Good, AddressInv, faults = 0, faults' = 0, NEW p \in Proc, Finish(p)
  PROVE  AddressInv'
<1> DEFINE s0 == call[p].svc
<1>1. pc \in [Proc -> Label] /\ CallerInv /\ ClaimsInv /\ PathInv
  BY DEF Inv, TypeOK, AddressInv
<1>2. /\ pc[p] = "finish"
      /\ pc' = [pc EXCEPT ![p] = IF call[p].ports = {} /\ st[p].ip # NoIP
                                 THEN "isAllocated" ELSE "unlock"]
      /\ UNCHANGED <<outside, k8s, call, crashes, servers, alloc, st, err>>
  BY DEF Finish, Goto, nsxt, outside
<1>3. st[p].ip # NoIP => err[p] = "none"
  BY <1>1, <1>2 DEF PathInv
<1>4. CASE call[p].ports = {} /\ st[p].ip # NoIP
  BY <1>2, <1>3, <1>4, PlainStep DEF Label, Holding, AfterMonitors, Starting
<1>5. CASE ~(call[p].ports = {} /\ st[p].ip # NoIP)
  <2>1. pc' = [pc EXCEPT ![p] = "unlock"]
    BY <1>2, <1>5
  <2>2. ASSUME Holder(p)
        PROVE  \E v \in servers : v.svc = s0 /\ v.ip = st[p].ip /\ v.class = st[p].class
    <3>1. st[p].ip # NoIP /\ err[p] = "none"
      BY <1>3, <2>2 DEF Holder
    <3>2. PICK q \in call[p].ports : TRUE
      BY <1>5, <3>1
    <3>3. pc[p] \in Inside
      BY <1>2 DEF Inside, Label
    <3>4. At("finish", err[p], call[p], st[p], cur[p], Of(servers, s0), Of(pools, s0),
             Of(monitors, s0))
      BY <1>2, <3>3, AtFacts
    <3>5. Exact(call[p], st[p].ip, Of(servers, s0), Of(pools, s0), Of(monitors, s0))
      BY <3>1, <3>4 DEF At, Progress
    <3>6. PICK v \in Of(servers, s0) : v.port = q
      BY <3>2, <3>5 DEF Exact, Done, PortDone
    <3>7. v \in servers /\ v.svc = s0 /\ v.ip = st[p].ip
      BY <3>5, <3>6 DEF Exact, Of
    <3>8. Claim(s0, v.ip, v.class) /\ Claim(s0, st[p].ip, st[p].class)
      BY <2>2, <3>7 DEF Claim
    <3>9. v.class = st[p].class
      BY <1>1, <3>8, ClaimType DEF ClaimsInv
    <3> QED BY <3>7, <3>9
  <2>3. ~Holder(p)' /\ \A q \in Proc \ {p} : Holder(q)' <=> Holder(q)
    BY <1>1, <1>2, <2>1 DEF Holder, Holding, AfterMonitors
  <2>4. ASSUME NEW s, NEW a, NEW c PROVE Claim(s, a, c)' <=> Claim(s, a, c)
    BY <1>2, <2>2, <2>3 DEF Claim
  <2>5. ClaimsInv'
    BY <1>1, <1>2, <2>4, ClaimsKept
  <2>6. \A s \in Svc : Served(s) => Served(s)'
    BY <1>2 DEF Served
  <2> QED BY <1>2, <2>1, <2>5, <2>6, OperationStep DEF Label, Starting
<1> QED BY <1>4, <1>5

\* The address that is to be released is allocated.
LEMMA IsAllocatedAddress ==
  ASSUME Inv, Good, AddressInv, faults = 0, faults' = 0, NEW p \in Proc, IsAllocated(p)
  PROVE  AddressInv'
<1>1. ClaimsInv /\ PathInv /\ pc[p] = "isAllocated"
  BY DEF AddressInv, IsAllocated
<1>2. Holder(p)
  BY <1>1 DEF Holder, Holding, Inv, ClassInv
<1>3. Claim(call[p].svc, st[p].ip, st[p].class)
  BY <1>2 DEF Claim
<1>4. st[p].ip \in alloc[st[p].class]
  BY <1>1, <1>3, ClaimType DEF ClaimsInv
<1>5. /\ pc' = [pc EXCEPT ![p] = "release"]
      /\ UNCHANGED <<outside, k8s, call, crashes, servers, alloc, st, err>>
  BY <1>4 DEF IsAllocated, IsAllocatedExternalIPAddress, Goto, Fault, nsxt, outside
<1>6. err[p] = "none" /\ call[p].ports = {}
  BY <1>1 DEF PathInv
<1> QED BY <1>1, <1>5, <1>6, PlainStep DEF Label, Holding, AfterMonitors, Starting

\* releaseResources: the address is given back when no virtual server is left that has it.
LEMMA ReleaseAddress ==
  ASSUME Inv, Good, AddressInv, faults = 0, faults' = 0, NEW p \in Proc, Release(p)
  PROVE  AddressInv'
<1> DEFINE s0 == call[p].svc
           i == st[p].ip
           k == st[p].class
<1>1. /\ pc \in [Proc -> Label] /\ alloc \in [IPPool -> SUBSET IP]
      /\ ClaimsInv /\ PathInv /\ pc[p] = "release"
  BY DEF Inv, TypeOK, AddressInv, Release
<1>2. /\ pc' = [pc EXCEPT ![p] = "unlock"] /\ alloc' = [alloc EXCEPT ![k] = alloc[k] \ {i}]
      /\ UNCHANGED <<outside, k8s, call, crashes, servers, st, err>>
  BY DEF Release, ReleaseFromIPPool, Goto, Fault, outside
<1>3. Holder(p)
  BY <1>1 DEF Holder, Holding, Inv, ClassInv
<1>4. Claim(s0, i, k) /\ s0 \in Svc /\ i \in IP /\ k \in IPPool
  BY <1>3, ClaimType DEF Claim
<1>5. err[p] = "none" /\ call[p].ports = {}
  BY <1>1 DEF PathInv
<1>6. \A v \in servers : v.svc # s0
  <2>1. pc[p] \in Inside
    BY <1>1 DEF Inside, Label
  <2>2. At("release", err[p], call[p], st[p], cur[p], Of(servers, s0), Of(pools, s0),
           Of(monitors, s0))
    BY <1>1, <2>1, AtFacts
  <2>3. Exact(call[p], st[p].ip, Of(servers, s0), Of(pools, s0), Of(monitors, s0))
    BY <1>5, <2>2 DEF At, Progress
  <2> QED BY <1>5, <2>3 DEF Exact, Of
<1>7. ~Holder(p)' /\ \A q \in Proc \ {p} : Holder(q)' <=> Holder(q)
  BY <1>1, <1>2 DEF Holder, Holding, AfterMonitors
<1>8. \A q \in Proc \ {p} : Holder(q) => call[q].svc # s0
  BY <1>3, OneHolder DEF Holder
<1>9. ASSUME NEW s, NEW a, NEW c PROVE Claim(s, a, c)' <=> Claim(s, a, c) /\ s # s0
  BY <1>2, <1>6, <1>7, <1>8 DEF Claim
<1>10. \A c \in IPPool : alloc'[c] = IF c = k THEN alloc[c] \ {i} ELSE alloc[c]
  BY <1>1, <1>2, <1>4
<1>11. ClaimsInv'
  <2>1. \A c \in IPPool : alloc'[c] \subseteq IPsOf[c]
    BY <1>1, <1>10 DEF ClaimsInv
  <2>2. ASSUME NEW s \in Svc, NEW a \in IP, NEW c \in IPPool, Claim(s, a, c)'
        PROVE  a \in alloc'[c]
    <3>1. Claim(s, a, c) /\ s # s0 /\ a \in alloc[c]
      BY <1>1, <1>9, <2>2 DEF ClaimsInv
    <3>2. ~(a = i /\ c = k)
      BY <1>1, <1>4, <3>1 DEF ClaimsInv
    <3> QED BY <1>10, <3>1, <3>2
  <2>3. \A s, t \in Svc, a \in IP, c \in IPPool : Claim(s, a, c)' /\ Claim(t, a, c)' => s = t
    BY <1>1, <1>9 DEF ClaimsInv
  <2>4. \A s \in Svc, a, b \in IP, c, d \in IPPool :
          Claim(s, a, c)' /\ Claim(s, b, d)' => a = b /\ c = d
    BY <1>1, <1>9 DEF ClaimsInv
  <2>5. ASSUME crashes' = 0, NEW c \in IPPool, NEW a \in alloc'[c]
        PROVE  \E s \in Svc : Claim(s, a, c)'
    <3>1. a \in alloc[c] /\ ~(a = i /\ c = k) /\ crashes = 0
      BY <1>2, <1>10, <2>5
    <3>2. PICK s \in Svc : Claim(s, a, c)
      BY <1>1, <3>1 DEF ClaimsInv
    <3>3. s # s0
      BY <1>1, <1>4, <3>1, <3>2, ClaimType DEF ClaimsInv
    <3> QED BY <1>9, <3>2, <3>3
  <2> QED BY <2>1, <2>2, <2>3, <2>4, <2>5 DEF ClaimsInv
<1>12. \A s \in Svc : Served(s) => Served(s)'
  BY <1>2 DEF Served
<1> QED BY <1>1, <1>2, <1>11, <1>12, OperationStep DEF Label, Starting

-----------------------------------------------------------------------------
(***************************************************************************)
(* The callers, users, and crashes                                         *)
(***************************************************************************)

\* The address that the caller writes to the status is that of a virtual server.
LEMMA UnlockAddress ==
  ASSUME Inv, Good, AddressInv, faults = 0, NEW p \in Proc, Unlock(p)
  PROVE  AddressInv'
<1> DEFINE s0 == call[p].svc
<1>1. CallerInv /\ ClaimsInv /\ ServedInv /\ PathInv
  BY DEF AddressInv
<1>2. /\ pc[p] = "unlock" /\ pc'[p] = "idle" /\ s0 \in Svc
      /\ UNCHANGED <<servers, alloc, crashes>>
      /\ \A q \in Proc \ {p} : /\ pc'[q] = pc[q] /\ call'[q] = call[q] /\ st'[q] = st[q]
                               /\ err'[q] = err[q]
  BY DEF Inv, TypeOK, CallInv, Unlock, nsxt
<1>3. CallerInv'
  BY <1>1, UnlockCaller
<1>4. ~Holder(p) /\ ~Holder(p)' /\ \A q \in Proc \ {p} : Holder(q)' <=> Holder(q)
  BY <1>2 DEF Holder, Holding, AfterMonitors
<1>5. ASSUME NEW s, NEW a, NEW c PROVE Claim(s, a, c)' <=> Claim(s, a, c)
  BY <1>2, <1>4 DEF Claim
<1>6. ClaimsInv'
  BY <1>1, <1>2, <1>5, ClaimsKept
<1>7. \A s : Served(s)' <=> Served(s)
  BY <1>2 DEF Served
<1>8. ASSUME call[p].op = "ensure", err[p] = "none" PROVE Served(s0)
  <2>1. PICK q \in call[p].ports : TRUE
    BY <1>1, <1>2, <1>8 DEF CallerInv
  <2>2. pc[p] \in Inside
    BY <1>2 DEF Inside, Label
  <2>3. At("unlock", err[p], call[p], st[p], cur[p], Of(servers, s0), Of(pools, s0),
           Of(monitors, s0))
    BY <1>2, <2>2, AtFacts
  <2>4. Exact(call[p], st[p].ip, Of(servers, s0), Of(pools, s0), Of(monitors, s0))
    BY <1>8, <2>3 DEF At, Progress
  <2> QED BY <2>1, <2>4 DEF Exact, Done, PortDone, Of, Served
<1>9. ASSUME NEW s \in Svc, phase'[s] = "present", status'[s] # NoIP PROVE Served(s)'
  <2>1. CASE s = s0 /\ call[p].op = "ensure" /\ err[p] = "none"
    BY <1>7, <1>8, <2>1
  <2>2. CASE ~(s = s0 /\ call[p].op = "ensure" /\ err[p] = "none")
    <3>1. phase[s] = "present" /\ status[s] # NoIP
      BY <1>9, <2>2 DEF Unlock, Inv, TypeOK
    <3> QED BY <1>1, <1>7, <3>1 DEF ServedInv
  <2> QED BY <2>1, <2>2
<1>10. ServedInv'
  BY <1>1, <1>2, <1>7, <1>9 DEF ServedInv, Starting, Processing
<1>11. PathInv'
  BY <1>1, <1>2 DEF PathInv
<1> QED BY <1>3, <1>6, <1>10, <1>11 DEF AddressInv

\* A call for a service with an address finds a virtual server.
LEMMA StartAddress ==
  ASSUME HasPorts, Inv, Good, AddressInv, faults = 0, NEW p \in Proc, NEW s \in Svc,
         CallEnsure(p, s) \/ CallUpdate(p, s) \/ CallDelete(p, s)
  PROVE  AddressInv'
<1>1. CallerInv /\ ClaimsInv /\ ServedInv /\ PathInv
  BY DEF AddressInv
<1>2. PICK o \in {"ensure", "update", "delete"} :
        /\ Start(p, NewCall(o, s)) /\ UNCHANGED <<phase, status>>
        /\ o = "ensure" => phase[s] = "present"
        /\ o = "delete" => Of(servers, s) # {}
  BY DEF CallEnsure, CallUpdate, CallDelete
<1>3. /\ pc[p] = "idle" /\ pc'[p] = "lock" /\ call'[p] = NewCall(o, s)
      /\ UNCHANGED <<servers, alloc, crashes, st, err>>
      /\ \A q \in Proc \ {p} : pc'[q] = pc[q] /\ call'[q] = call[q]
  BY <1>2 DEF Start, Inv, TypeOK, nsxt
<1>4. CallerInv'
  BY <1>1, StartCaller
<1>5. ~Holder(p) /\ ~Holder(p)' /\ \A q \in Proc \ {p} : Holder(q)' <=> Holder(q)
  BY <1>3 DEF Holder, Holding, AfterMonitors
<1>6. ASSUME NEW t, NEW a, NEW c PROVE Claim(t, a, c)' <=> Claim(t, a, c)
  BY <1>3, <1>5 DEF Claim
<1>7. ClaimsInv'
  BY <1>1, <1>3, <1>6, ClaimsKept
<1>8. \A t : Served(t)' <=> Served(t)
  BY <1>3 DEF Served
<1>9. call'[p].op = o /\ call'[p].svc = s /\ call'[p].status = status[s]
  BY <1>3 DEF NewCall
<1>10. ASSUME Processing(p)', call'[p].op = "delete" \/ call'[p].status # NoIP
       PROVE  Served(s)
  <2>1. CASE o = "delete"
    BY <1>2, <2>1 DEF Of, Served
  <2>2. CASE o = "ensure"
    BY <1>1, <1>2, <1>9, <1>10, <2>2 DEF ServedInv
  <2>3. o # "update"
    BY <1>9, <1>10 DEF Processing
  <2> QED BY <2>1, <2>2, <2>3
<1>11. ASSUME NEW q \in Proc, pc'[q] \in Starting, Processing(q)',
              call'[q].op = "delete" \/ call'[q].status # NoIP
       PROVE  Served(call[q].svc)'
  <2>1. CASE q = p
    <3>1. Served(s)
      BY <1>10, <1>11, <2>1
    <3> QED BY <1>3, <1>9, <2>1, <3>1 DEF Served
  <2>2. CASE q # p
    <3>1. pc'[q] = pc[q] /\ call'[q] = call[q]
      BY <1>3, <2>2
    <3>2. pc[q] \in Starting /\ Processing(q) /\ (call[q].op = "delete" \/ call[q].status # NoIP)
      BY <1>11, <3>1 DEF Processing
    <3>3. Served(call[q].svc)
      BY <1>1, <3>2 DEF ServedInv
    <3> QED BY <1>3, <3>1, <3>3 DEF Served
  <2> QED BY <2>1, <2>2
<1>12. ServedInv'
  <2>1. \A t \in Svc : phase'[t] = "present" /\ status'[t] # NoIP => Served(t)'
    BY <1>1, <1>2, <1>8 DEF ServedInv
  <2> QED BY <1>11, <2>1 DEF ServedInv
<1>13. PathInv'
  BY <1>1, <1>3 DEF PathInv
<1> QED BY <1>4, <1>7, <1>12, <1>13 DEF AddressInv

\* A service that is created has no address; one whose finalizer is removed has none left.
LEMMA UserAddress ==
  ASSUME Inv, Good, AddressInv, faults = 0,
         User \/ \E s \in Svc : GetLoadBalancerFindsNone(s)
  PROVE  AddressInv'
<1>1. CallerInv /\ ClaimsInv /\ ServedInv /\ PathInv
  BY DEF AddressInv
<1>2. CallerInv'
  BY <1>1, UserCaller
<1>3. UNCHANGED <<servers, alloc, crashes, pc, call, st, err>>
  BY DEF User, SetService, DeleteService, SetNodes, GetLoadBalancerFindsNone, nsxt
<1>4. \A s, a, c : Claim(s, a, c)' <=> Claim(s, a, c)
  BY <1>3 DEF Claim, Holder
<1>5. ClaimsInv'
  BY <1>1, <1>3, <1>4, ClaimsKept
<1>6. ASSUME NEW s \in Svc, phase'[s] = "present", status'[s] # NoIP
      PROVE  phase[s] = "present" /\ status[s] # NoIP
  <2>1. /\ phase \in [Svc -> {"absent", "present", "deleting"}]
        /\ status \in [Svc -> IP \cup {NoIP}]
    BY DEF Inv, TypeOK
  <2>2. CASE \E t \in Svc, c \in Spec0 : SetService(t, c)
    BY <1>1, <1>6, <2>1, <2>2 DEF SetService, CallerInv
  <2>3. CASE \E t \in Svc : DeleteService(t) \/ GetLoadBalancerFindsNone(t)
    BY <1>6, <2>1, <2>3 DEF DeleteService, GetLoadBalancerFindsNone
  <2>4. CASE \E n : SetNodes(n)
    BY <1>6, <2>4 DEF SetNodes
  <2> QED BY <2>2, <2>3, <2>4 DEF User
<1>7. ServedInv'
  BY <1>1, <1>3, <1>6 DEF ServedInv, Served, Processing
<1>8. PathInv'
  BY <1>1, <1>3 DEF PathInv
<1> QED BY <1>2, <1>5, <1>7, <1>8 DEF AddressInv

\* After a crash an address that only a goroutine knew of is lost, but not in use.
LEMMA CrashAddress ==
  ASSUME Inv, AddressInv, Crash
  PROVE  AddressInv'
<1>1. /\ UNCHANGED <<servers, alloc, spec, phase, status, faults>> /\ crashes' # 0
      /\ \A q \in Proc : pc'[q] = "idle"
  BY BoundsAssumption DEF Crash, nsxt, k8s, Inv, TypeOK
<1>2. CallerInv'
  BY <1>1 DEF AddressInv, CallerInv, Processing
<1>3. ASSUME faults = 0 PROVE ClaimsInv' /\ ServedInv' /\ PathInv'
  <2>1. \A s, a, c : Claim(s, a, c)' => Claim(s, a, c)
    BY <1>1 DEF Claim, Holder, Holding, AfterMonitors
  <2>2. ClaimsInv'
    BY <1>1, <1>3, <2>1 DEF AddressInv, ClaimsInv
  <2>3. ServedInv'
    BY <1>1, <1>3 DEF AddressInv, ServedInv, Served, Processing
  <2>4. PathInv'
    BY <1>1 DEF PathInv
  <2> QED BY <2>2, <2>3, <2>4
<1> QED BY <1>1, <1>2, <1>3 DEF AddressInv

-----------------------------------------------------------------------------
\* No step of an operation concerns the callers but the last.
LEMMA StepOutside ==
  ASSUME Inv, NEW p \in Proc, Step(p), ~Unlock(p)
  PROVE  UNCHANGED <<k8s, call>> /\ \A q \in Proc : pc'[q] = "idle" <=> pc[q] = "idle"
<1> USE DEF outside
<1>1. ASSUME pc[p] # "idle",
             \E l \in Label \ {"idle"} : Goto(p, l) \/ Fault(p, l) \/ \E c : Error(p, c, l)
      PROVE  \A q \in Proc : pc'[q] = "idle" <=> pc[q] = "idle"
  BY <1>1 DEF Goto, Fault, Error, Inv, TypeOK
<1>2. CASE \/ Lock(p) \/ FindVirtualServers(p) \/ FindPools(p) \/ FindTCPMonitors(p)
           \/ NextPort(p)
  BY <1>1, <1>2 DEF Lock, FindVirtualServers, FindPools, FindTCPMonitors, NextPort, Label
<1>3. CASE GetTCPMonitor(p)
  BY <1>1, <1>3 DEF GetTCPMonitor, KeepTCPMonitor, UpdateTCPMonitor, CreateTCPMonitor, Label
<1>4. CASE GetPool(p)
  BY <1>1, <1>4 DEF GetPool, KeepPool, UpdatePool, CreatePool, Label
<1>5. CASE KeepVirtualServer(p) \/ UpdateVirtualServer(p) \/ KeepAddress(p) \/ Allocate(p)
  BY <1>1, <1>5 DEF KeepVirtualServer, UpdateVirtualServer, KeepAddress, Allocate, Label
<1>6. CASE CreateVirtualServer(p) \/ Attach(p) \/ Rollback(p)
  BY <1>1, <1>6 DEF CreateVirtualServer, Attach, Rollback, ReleaseIfAllocated, Label
<1>7. CASE CleanUp(p)
  BY <1>1, <1>7 DEF CleanUp, Detach, DeleteVirtualServer, NoOrphanServers, DeletePool,
                    NoOrphanPools, DeleteTCPMonitor, NoOrphanTCPMonitors, Label
<1>8. CASE \/ Finish(p) \/ IsAllocated(p) \/ Release(p)
           \/ UpdateFindPools(p) \/ UpdatePoolMembers(p) \/ UpdatePoolMembersDone(p)
  BY <1>1, <1>8 DEF Finish, IsAllocated, Release, UpdateFindPools, UpdatePoolMembers,
                    UpdatePoolMembersDone, Label
<1> QED BY <1>2, <1>3, <1>4, <1>5, <1>6, <1>7, <1>8 DEF Step, GetVirtualServer

\* No step of an operation forgets a failure.
LEMMA FaultsCounted ==
  ASSUME faults \in Nat, NEW p \in Proc, Step(p), faults' = 0
  PROVE  faults = 0
<1>1. ASSUME NEW l, Fault(p, l) PROVE FALSE
  BY <1>1 DEF Fault
<1>2. ASSUME NEW l, NEW c, Goto(p, l) \/ Error(p, c, l) PROVE faults' = faults
  BY <1>2 DEF Goto, Error
<1>3. CASE \/ Lock(p) \/ FindVirtualServers(p) \/ FindPools(p) \/ FindTCPMonitors(p)
           \/ NextPort(p)
  BY <1>1, <1>2, <1>3 DEF Lock, FindVirtualServers, FindPools, FindTCPMonitors, NextPort
<1>4. CASE GetTCPMonitor(p)
  BY <1>1, <1>2, <1>4 DEF GetTCPMonitor, KeepTCPMonitor, UpdateTCPMonitor, CreateTCPMonitor
<1>5. CASE GetPool(p)
  BY <1>1, <1>2, <1>5 DEF GetPool, KeepPool, UpdatePool, CreatePool
<1>6. CASE KeepVirtualServer(p) \/ UpdateVirtualServer(p) \/ KeepAddress(p) \/ Allocate(p)
  BY <1>1, <1>2, <1>6 DEF KeepVirtualServer, UpdateVirtualServer, KeepAddress, Allocate
<1>7. CASE CreateVirtualServer(p) \/ Attach(p) \/ Rollback(p)
  BY <1>1, <1>2, <1>7 DEF CreateVirtualServer, Attach, Rollback
<1>8. CASE CleanUp(p)
  BY <1>1, <1>2, <1>8 DEF CleanUp, Detach, DeleteVirtualServer, NoOrphanServers, DeletePool,
                          NoOrphanPools, DeleteTCPMonitor, NoOrphanTCPMonitors
<1>9. CASE \/ Finish(p) \/ IsAllocated(p) \/ Release(p)
           \/ UpdateFindPools(p) \/ UpdatePoolMembers(p) \/ UpdatePoolMembersDone(p)
  BY <1>1, <1>2, <1>9 DEF Finish, IsAllocated, Release, UpdateFindPools, UpdatePoolMembers,
                          UpdatePoolMembersDone
<1>10. CASE Unlock(p)
  BY <1>10 DEF Unlock
<1> QED BY <1>3, <1>4, <1>5, <1>6, <1>7, <1>8, <1>9, <1>10 DEF Step, GetVirtualServer

\* All steps preserve AddressInv.
LEMMA NextAddress ==
  ASSUME HasPorts
  PROVE  Inv /\ Inv' /\ Good /\ AddressInv /\ [Next]_vars => AddressInv'
<1> SUFFICES ASSUME Inv, Inv', Good, AddressInv, [Next]_vars PROVE AddressInv'
  OBVIOUS
<1>1. faults \in Nat /\ faults' \in Nat /\ CallerInv
  BY BoundsAssumption DEF Inv, TypeOK, AddressInv
<1>2. ASSUME NEW p \in Proc, Step(p) PROVE AddressInv'
  <2>1. CallerInv'
    BY <1>1, <1>2, StepOutside, CallerKept, UnlockCaller DEF k8s
  <2>2. ASSUME faults' = 0 PROVE AddressInv'
    <3>1. faults = 0
      BY <1>1, <1>2, <2>2, FaultsCounted
    <3>2. ASSUME Rollback(p) PROVE FALSE
      BY <3>1, <3>2 DEF Rollback, AddressInv, PathInv
    <3> QED BY <1>2, <2>2, <3>1, <3>2, PlainSteps, FindTCPMonitorsAddress,
               UpdateVirtualServerAddress, AllocateAddress, CreateVirtualServerAddress,
               DeleteVirtualServerAddress, FinishAddress, IsAllocatedAddress, ReleaseAddress,
               UnlockAddress DEF Step, GetVirtualServer, CleanUp
  <2> QED BY <2>1, <2>2 DEF AddressInv
<1>3. ASSUME NEW p \in Worker, NEW s \in Svc,
             CallEnsure(p, s) \/ CallUpdate(p, s) \/ CallDelete(p, s)
      PROVE  AddressInv'
  <2>1. p \in Proc /\ faults' = faults
    BY <1>3, WorkerAssumption DEF CallEnsure, CallUpdate, CallDelete, Start
  <2>2. CallerInv'
    BY <1>1, <1>3, <2>1, StartCaller
  <2>3. faults = 0 => AddressInv'
    BY <1>3, <2>1, StartAddress
  <2> QED BY <2>1, <2>2, <2>3 DEF AddressInv
<1>4. ASSUME User \/ \E s \in Svc : GetLoadBalancerFindsNone(s) PROVE AddressInv'
  <2>1. faults' = faults
    BY <1>4 DEF User, SetService, DeleteService, SetNodes, GetLoadBalancerFindsNone
  <2>2. CallerInv'
    BY <1>1, <1>4, UserCaller
  <2>3. faults = 0 => AddressInv'
    BY <1>4, UserAddress
  <2> QED BY <2>1, <2>2, <2>3 DEF AddressInv
<1>5. CASE Crash
  BY <1>5, CrashAddress
<1>6. CASE UNCHANGED vars
  BY <1>6 DEF vars, nsxt, k8s, AddressInv, CallerInv, Processing, ClaimsInv, Claim, Holder,
              ServedInv, Served, PathInv
<1> QED BY <1>2, <1>3, <1>4, <1>5, <1>6 DEF Next, Controller

\* AddressInv holds at the start.
LEMMA InitAddress == Init => AddressInv
<1> SUFFICES ASSUME Init PROVE AddressInv
  OBVIOUS
<1>1. NoSpec \in Spec0
  BY Spec0Assumption DEF NoSpec
<1>2. CallerInv
  BY <1>1 DEF Init, CallerInv, Processing
<1>3. \A s, a, c : ~Claim(s, a, c)
  BY DEF Init, Claim, Holder, Holding, AfterMonitors
<1>4. ClaimsInv
  BY <1>3 DEF Init, ClaimsInv
<1>5. ServedInv /\ PathInv
  BY DEF Init, ServedInv, PathInv, Processing
<1> QED BY <1>2, <1>4, <1>5 DEF AddressInv

(***************************************************************************)
(* The inductive invariant holds in every reachable state.                 *)
(***************************************************************************)
THEOREM LoadBalancerAddressInvariant ==
  ASSUME HasPorts
  PROVE  Spec => []AddressInv
BY InitAddress, NextAddress, LoadBalancerInvariant, LoadBalancerGood, PTL DEF Spec

(***************************************************************************)
(* As long as no call to NSX-T fails the address of every virtual server   *)
(* is allocated in the IP pool of its class, however services change and   *)
(* wherever the controller crashes.                                        *)
(***************************************************************************)
THEOREM LoadBalancerAddressHeld ==
  ASSUME HasPorts
  PROVE  Spec => []AddressHeld
<1>1. Inv /\ AddressInv => AddressHeld
  <2> SUFFICES ASSUME Inv, AddressInv, faults = 0, NEW v \in servers
               PROVE  v.ip \in alloc[v.class]
    BY DEF AddressHeld
  <2>1. Claim(v.svc, v.ip, v.class)
    BY DEF Claim
  <2> QED BY <2>1, ClaimType DEF AddressInv, ClaimsInv
<1> QED BY <1>1, LoadBalancerAddressInvariant, LoadBalancerInvariant, PTL

(***************************************************************************)
(* Under the same condition two services never share an address, if no     *)
(* address belongs to two IP pools.                                        *)
(***************************************************************************)
THEOREM LoadBalancerAddressExclusive ==
  ASSUME HasPorts, DisjointPools
  PROVE  Spec => []AddressExclusive
<1>1. Inv /\ AddressInv => AddressExclusive
  <2> SUFFICES ASSUME Inv, AddressInv, faults = 0, NEW v \in servers, NEW w \in servers,
                      v.ip = w.ip
               PROVE  v.svc = w.svc
    BY DEF AddressExclusive
  <2>1. Claim(v.svc, v.ip, v.class) /\ Claim(w.svc, v.ip, w.class)
    BY DEF Claim
  <2>2. v.svc \in Svc /\ w.svc \in Svc /\ v.ip \in IP /\ v.class \in IPPool /\ w.class \in IPPool
    BY <2>1, ClaimType
  <2>3. v.ip \in IPsOf[v.class] /\ v.ip \in IPsOf[w.class]
    BY <2>1, <2>2 DEF AddressInv, ClaimsInv
  <2>4. v.class = w.class
    BY <2>2, <2>3 DEF DisjointPools
  <2> QED BY <2>1, <2>2, <2>4 DEF AddressInv, ClaimsInv
<1> QED BY <1>1, LoadBalancerAddressInvariant, LoadBalancerInvariant, PTL

(***************************************************************************)
(* If no call fails and the controller does not crash, no address is left  *)
(* allocated once no service is left.                                      *)
(***************************************************************************)
THEOREM LoadBalancerNoLeakedAddress ==
  ASSUME HasPorts
  PROVE  Spec => []NoLeakedAddress
<1>1. AddressInv => NoLeakedAddress
  <2> SUFFICES ASSUME AddressInv, faults = 0, crashes = 0, \A p \in Proc : pc[p] = "idle",
                      servers = {}, NEW c \in IPPool, NEW a \in alloc[c]
               PROVE  FALSE
    BY DEF NoLeakedAddress
  <2>1. PICK s \in Svc : Claim(s, a, c)
    BY DEF AddressInv, ClaimsInv
  <2> QED BY <2>1 DEF Claim, Holder, Holding, AfterMonitors
<1> QED BY <1>1, LoadBalancerAddressInvariant, PTL
=============================================================================
