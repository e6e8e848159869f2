------------------------------ MODULE NodeSync ------------------------------
(***************************************************************************)
(* How the members of the pools follow the nodes: the service controller   *)
(* (vendored) with its work queue, its cache of services and its node sync *)
(* loop, on top of EnsureLoadBalancer, EnsureLoadBalancerDeleted and       *)
(* UpdateLoadBalancer (lbprovider.go, state.go).                           *)
(*                                                                         *)
(* A worker lists the nodes before it waits for the key of its service;    *)
(* the node sync loop lists them once for a pass over all services.  Both  *)
(* then write pools with the list they have.                               *)
(*                                                                         *)
(* Abstractions: every service has the ports in Port, and a port has at    *)
(* most one pool and one virtual server; monitors, addresses and the       *)
(* attachment are those of LoadBalancer and left out here.  A call fails   *)
(* without an effect, or takes effect and its answer is lost.              *)
(***************************************************************************)
EXTENDS SequencesExt

CONSTANTS
  Svc,            \* services
  Port,           \* the ports of a service
  Node,           \* nodes, by name
  Address,        \* addresses of nodes
  NoAddress,      \* a node without an internal address
  AddressOf,      \* for each node its first address of type InternalIP
  NoPool,         \* a port without pool
  Worker, Sync,   \* the goroutines: the workers, and the node sync loop
  NoProc,         \* "unlocked"
  MaxFaults, MaxCrashes, MaxNodes, MaxChanges  \* bounds: failed calls, crashes, changes
                                               \* of nodes, changes of services

ASSUME AddressAssumption ==
  NoAddress \notin Address /\ AddressOf \in [Node -> Address \cup {NoAddress}]
ASSUME NodeAssumption == IsFiniteSet(Node) /\ NoPool \notin Seq(Address)
ASSUME SyncAssumption == Sync \notin Worker /\ NoProc \notin Worker \cup {Sync}
ASSUME NodeSyncBounds ==
  MaxFaults \in Nat /\ MaxCrashes \in Nat /\ MaxNodes \in Nat /\ MaxChanges \in Nat

Proc == Worker \cup {Sync}

VARIABLES
  \* Kubernetes
  nodes,              \* the nodes that are ready
  phase,              \* a service is "absent", "present" or "deleting"
  \* NSX-T
  pools,              \* for each port of a service the members of its pool
  servers,            \* for each service the ports with a virtual server
  \* the service controller
  queue,              \* services that need to be synced
  cache,              \* the service cache
  knownHosts,         \* the nodes of the last pass that found a change
  servicesToUpdate,   \* the services the last pass failed for
  sync,               \* the pass: whether there is one, its nodes, what is left, what failed
  \* the provider
  holder, pc, call, err,
  \* bookkeeping
  counts,             \* how much of each bound is used up
  late                \* services a worker wrote last, with a list the loop did not have

nsxt == <<pools, servers>>
controller == <<queue, cache, knownHosts, servicesToUpdate, sync>>
vars == <<nodes, phase, nsxt, controller, holder, pc, call, err, counts, late>>

NoPass == [on |-> FALSE, hosts |-> {}, todo |-> {}, retry |-> {}]
NoCall == [op |-> "none"]
Call == {NoCall} \cup [op : {"ensure", "delete", "update"}, svc : Svc, hosts : SUBSET Node,
                       todo : SUBSET Port]
Bound == [faults |-> MaxFaults, crashes |-> MaxCrashes, nodes |-> MaxNodes,
          changes |-> MaxChanges]

(***************************************************************************)
(* Every variable has a value of its type; in particular a pool has only   *)
(* addresses as members, whatever addresses the nodes have.                *)
(***************************************************************************)
TypeOK ==
  /\ nodes \subseteq Node /\ knownHosts \subseteq Node
  /\ phase \in [Svc -> {"absent", "present", "deleting"}]
  /\ \A s \in Svc, q \in Port : pools[s][q] = NoPool \/ ToSet(pools[s][q]) \subseteq Address
  /\ servers \in [Svc -> SUBSET Port]
  /\ queue \subseteq Svc /\ cache \subseteq Svc /\ servicesToUpdate \subseteq Svc
  /\ late \subseteq Svc
  /\ sync \in [on : BOOLEAN, hosts : SUBSET Node, todo : SUBSET Svc, retry : SUBSET Svc]
  /\ holder \in [Svc -> Proc \cup {NoProc}]
  /\ pc \in [Proc -> {"idle", "lock", "work", "unlock", "exists"}]
  /\ call \in [Proc -> Call] /\ err \in [Proc -> BOOLEAN]
  /\ \A b \in DOMAIN Bound : counts[b] \in 0 .. Bound[b]

Init ==
  /\ nodes = {}
  /\ phase = [s \in Svc |-> "absent"]
  /\ pools = [s \in Svc |-> [q \in Port |-> NoPool]]
  /\ servers = [s \in Svc |-> {}]
  /\ queue = {} /\ cache = {} /\ knownHosts = {} /\ servicesToUpdate = {}
  /\ sync = NoPass
  /\ holder = [s \in Svc |-> NoProc]
  /\ pc = [p \in Proc |-> "idle"]
  /\ call = [p \in Proc |-> NoCall]
  /\ err = [p \in Proc |-> FALSE]
  /\ counts = [b \in DOMAIN Bound |-> 0]
  /\ late = {}

-----------------------------------------------------------------------------
(***************************************************************************)
(* The members of a pool                                                   *)
(***************************************************************************)

\* Mutant of collectNodeInternalAddresses: nodes without an internal address count.
CollectAnyAddress(hosts) == {AddressOf[n] : n \in hosts}

\* The first internal address of each node that has one; nodes may share one.
collectNodeInternalAddresses(hosts) == {AddressOf[n] : n \in hosts} \ {NoAddress}

\* Those of the members that are among the addresses, in their order.
StillNodes(members, addresses) ==
  LET kept[n \in 0 .. Len(members)] ==
        IF n = 0 THEN <<>>
        ELSE IF members[n] \in addresses THEN Append(kept[n - 1], members[n])
        ELSE kept[n - 1]
  IN  kept[Len(members)]

\* Mutant of updatedPoolMembers: known addresses are appended as well.
AppendAllMembers(old, hosts) ==
  LET addresses == collectNodeInternalAddresses(hosts)
      kept == StillNodes(old, addresses)
  IN  IF Cardinality(addresses) > Len(kept)
      THEN {kept \o new : new \in SetToSeqs(addresses)}
      ELSE {kept}

(***************************************************************************)
(* The old members that are still nodes, in their order, then the new      *)
(* ones, in the order in which the map is iterated: any.                   *)
(***************************************************************************)
updatedPoolMembers(old, hosts) ==
  LET addresses == collectNodeInternalAddresses(hosts)
      kept == StillNodes(old, addresses)
  IN  IF Cardinality(addresses) > Len(kept)
      THEN {kept \o new : new \in SetToSeqs(addresses \ ToSet(old))}
      ELSE {kept}

-----------------------------------------------------------------------------
(***************************************************************************)
(* Steps of the provider                                                   *)
(***************************************************************************)
KL == INSTANCE KeyMutex WITH Key <- Svc

Count(b) == counts[b] < Bound[b] /\ counts' = [counts EXCEPT ![b] = @ + 1]

Start(p, c) ==
  /\ pc[p] = "idle"
  /\ pc' = [pc EXCEPT ![p] = "lock"]
  /\ call' = [call EXCEPT ![p] = c]

\* The call of p fails, with or without an effect.
Fault(p) ==
  /\ Count("faults")
  /\ err' = [err EXCEPT ![p] = TRUE]
  /\ pc' = [pc EXCEPT ![p] = "unlock"]
  /\ UNCHANGED call

\* The call goes on with the ports in todo.
Continue(p, todo) ==
  /\ call' = [call EXCEPT ![p].todo = todo]
  /\ UNCHANGED <<pc, err, counts>>

\* What a step that holds the key leaves alone.
outside == <<nodes, phase, controller, holder, late>>

\* The list of nodes the node sync loop works with.
Target == IF sync.on THEN sync.hosts ELSE knownHosts

\* keyLock.Lock, then the pools and virtual servers of the service are found.
Lock(p) ==
  LET c == call[p] IN
  /\ pc[p] = "lock"
  /\ KL!Acquire(p, c.svc)
  /\ late' = IF c.op # "ensure" THEN late
             ELSE IF c.hosts = Target THEN late \ {c.svc} ELSE late \cup {c.svc}
  /\ \/ pc' = [pc EXCEPT ![p] = "work"] /\ UNCHANGED <<call, err, counts>>
     \/ Fault(p)
  /\ UNCHANGED <<nodes, phase, nsxt, controller>>

\* The members the pool gets; a new pool has no old members.
NewMembers(s, q, hosts) ==
  updatedPoolMembers(IF pools[s][q] = NoPool THEN <<>> ELSE pools[s][q], hosts)

\* The pool of port q gets the members m: UpdatePool or CreatePool.
SetMembers(s, q, m) == pools' = [pools EXCEPT ![s][q] = m]

\* Process: getPool and getVirtualServer for one port after the other.
Reconcile(p) ==
  LET c == call[p]  s == c.svc IN
  /\ pc[p] = "work" /\ c.op = "ensure"
  /\ \E q \in c.todo : \E m \in NewMembers(s, q, c.hosts) :
       \/ /\ SetMembers(s, q, m)
          /\ servers' = [servers EXCEPT ![s] = @ \cup {q}]
          /\ Continue(p, c.todo \ {q}) \/ (q \notin servers[s] /\ Fault(p))
       \/ /\ SetMembers(s, q, m)
          /\ pools[s][q] # m \/ q \notin servers[s]
          /\ Fault(p) /\ UNCHANGED servers
       \/ pools[s][q] # m /\ Fault(p) /\ UNCHANGED nsxt
  /\ UNCHANGED outside

\* UpdatePoolMembers: updatePool for the pools of the ports; nothing is created.
UpdatePoolMembers(p) ==
  LET c == call[p]  s == c.svc IN
  /\ pc[p] = "work" /\ c.op = "update"
  /\ \E q \in c.todo :
       \/ pools[s][q] = NoPool /\ Continue(p, c.todo \ {q}) /\ UNCHANGED pools
       \/ /\ pools[s][q] # NoPool
          /\ \E m \in NewMembers(s, q, c.hosts) :
               \/ SetMembers(s, q, m) /\ Continue(p, c.todo \ {q})
               \/ m # pools[s][q] /\ Fault(p) /\ (SetMembers(s, q, m) \/ UNCHANGED pools)
  /\ UNCHANGED <<servers, outside>>

\* Process without ports: the virtual servers are deleted, then the pools.
CleanUp(p) ==
  LET c == call[p]  s == c.svc IN
  /\ pc[p] = "work" /\ c.op = "delete"
  /\ \/ \E q \in servers[s] :
          \/ /\ servers' = [servers EXCEPT ![s] = @ \ {q}]
             /\ Continue(p, c.todo) \/ Fault(p)
             /\ UNCHANGED pools
          \/ Fault(p) /\ UNCHANGED nsxt
     \/ /\ servers[s] = {}
        /\ \E q \in c.todo :
             \/ SetMembers(s, q, NoPool) /\ (Continue(p, c.todo \ {q}) \/ Fault(p))
             \/ Fault(p) /\ UNCHANGED pools
        /\ UNCHANGED servers
  /\ UNCHANGED outside

\* All ports are done.
Done(p) ==
  /\ pc[p] = "work" /\ call[p].todo = {}
  /\ pc' = [pc EXCEPT ![p] = "unlock"]
  /\ UNCHANGED <<nsxt, call, err, counts, outside>>

\* What p returns with.
Return(p) ==
  /\ pc[p] = "unlock"
  /\ KL!Release(p, call[p].svc)
  /\ err' = [err EXCEPT ![p] = FALSE]

-----------------------------------------------------------------------------
(***************************************************************************)
(* The workers                                                             *)
(***************************************************************************)
Processed(s) == \E w \in Worker : call[w] # NoCall /\ call[w].svc = s

\* processServiceCreateOrUpdate caches the service, ensureLoadBalancer lists the nodes.
TakeEnsure(w, s) ==
  /\ s \in queue /\ ~Processed(s) /\ phase[s] = "present"
  /\ Start(w, [op |-> "ensure", svc |-> s, hosts |-> nodes, todo |-> Port])
  /\ queue' = queue \ {s} /\ cache' = cache \cup {s}
  /\ UNCHANGED <<nodes, phase, nsxt, knownHosts, servicesToUpdate, sync, holder, err, counts,
                 late>>

\* syncLoadBalancerIfNeeded, for a service that needs cleanup and has virtual servers
TakeDelete(w, s) ==
  /\ s \in queue /\ ~Processed(s) /\ phase[s] = "deleting"
  /\ servers[s] # {}
  /\ Start(w, [op |-> "delete", svc |-> s, hosts |-> {},
               todo |-> {q \in Port : pools[s][q] # NoPool}])
  /\ queue' = queue \ {s} /\ cache' = cache \cup {s}
  /\ UNCHANGED <<nodes, phase, nsxt, knownHosts, servicesToUpdate, sync, holder, err, counts,
                 late>>

\* GetLoadBalancer finds no virtual server: the finalizer is removed at once.
TakeNothing(w, s) ==
  /\ pc[w] = "idle"
  /\ s \in queue /\ ~Processed(s) /\ phase[s] = "deleting"
  /\ servers[s] = {}
  /\ phase' = [phase EXCEPT ![s] = "absent"]
  /\ queue' = queue \ {s} /\ cache' = cache \ {s}
  /\ UNCHANGED <<nodes, nsxt, knownHosts, servicesToUpdate, sync, holder, pc, call, err, counts,
                 late>>

\* The worker is done: an error puts the service back into the queue.
WorkerReturns(w) ==
  LET s == call[w].svc  deleted == call[w].op = "delete" /\ ~err[w] IN
  /\ Return(w)
  /\ pc' = [pc EXCEPT ![w] = "idle"]
  /\ call' = [call EXCEPT ![w] = NoCall]
  /\ queue' = IF err[w] THEN queue \cup {s} ELSE queue
  /\ cache' = IF deleted THEN cache \ {s} ELSE cache
  /\ phase' = IF deleted THEN [phase EXCEPT ![s] = "absent"] ELSE phase
  /\ UNCHANGED <<nodes, nsxt, knownHosts, servicesToUpdate, sync, counts, late>>

-----------------------------------------------------------------------------
(***************************************************************************)
(* The node sync loop                                                      *)
(***************************************************************************)

\* Mutant of nodeSyncLoop: services that failed are not tried again.
SyncOnlyOnChange ==
  /\ ~sync.on
  /\ nodes # knownHosts
  /\ sync' = [on |-> TRUE, hosts |-> nodes, todo |-> cache, retry |-> {}]
  /\ late' = {}
  /\ UNCHANGED <<nodes, phase, nsxt, queue, cache, knownHosts, servicesToUpdate, holder, pc,
                 call, err, counts>>

(***************************************************************************)
(* The nodes are listed.  If their names have changed all services that    *)
(* are cached are to be updated, otherwise those that failed last time; a  *)
(* pass with nothing to do is left out.                                    *)
(***************************************************************************)
nodeSyncLoop ==
  /\ ~sync.on
  /\ nodes # knownHosts \/ servicesToUpdate # {}
  /\ sync' = [on |-> TRUE, hosts |-> nodes, retry |-> {},
              todo |-> IF nodes # knownHosts THEN cache ELSE servicesToUpdate]
  /\ late' = IF nodes # knownHosts THEN {} ELSE late
  /\ UNCHANGED <<nodes, phase, nsxt, queue, cache, knownHosts, servicesToUpdate, holder, pc,
                 call, err, counts>>

\* updateLoadBalancerHosts: UpdateLoadBalancer for the next service
UpdateNext ==
  /\ sync.on
  /\ \E s \in sync.todo :
       /\ Start(Sync, [op |-> "update", svc |-> s, hosts |-> sync.hosts, todo |-> Port])
       /\ sync' = [sync EXCEPT !.todo = @ \ {s}]
  /\ UNCHANGED <<nodes, phase, nsxt, queue, cache, knownHosts, servicesToUpdate, holder, err,
                 counts, late>>

\* UpdateLoadBalancer returns.
UpdateReturns ==
  /\ Return(Sync)
  /\ \/ /\ err[Sync]
        /\ pc' = [pc EXCEPT ![Sync] = "exists"]
        /\ UNCHANGED <<call, late>>
     \/ /\ ~err[Sync]
        /\ pc' = [pc EXCEPT ![Sync] = "idle"]
        /\ call' = [call EXCEPT ![Sync] = NoCall]
        /\ late' = late \ {call[Sync].svc}
  /\ UNCHANGED <<nodes, phase, nsxt, controller, counts>>

\* lockedUpdateLoadBalancerHosts: an error counts if the load balancer exists,
\* or if GetLoadBalancer fails.
CheckExists ==
  LET s == call[Sync].svc
      retry == [sync EXCEPT !.retry = @ \cup {s}]
  IN
  /\ pc[Sync] = "exists"
  /\ \/ sync' = (IF servers[s] # {} THEN retry ELSE sync) /\ UNCHANGED counts
     \/ sync' = retry /\ Count("faults")
  /\ pc' = [pc EXCEPT ![Sync] = "idle"]
  /\ call' = [call EXCEPT ![Sync] = NoCall]
  /\ UNCHANGED <<nodes, phase, nsxt, queue, cache, knownHosts, servicesToUpdate, holder, err,
                 late>>

\* Mutant of SyncDone: what failed is forgotten.
SyncForgets ==
  /\ sync.on /\ sync.todo = {} /\ pc[Sync] = "idle"
  /\ servicesToUpdate' = {}
  /\ knownHosts' = sync.hosts
  /\ sync' = NoPass
  /\ UNCHANGED <<nodes, phase, nsxt, queue, cache, holder, pc, call, err, counts, late>>

\* The pass ends.
SyncDone ==
  /\ sync.on /\ sync.todo = {} /\ pc[Sync] = "idle"
  /\ servicesToUpdate' = sync.retry
  /\ knownHosts' = sync.hosts
  /\ sync' = NoPass
  /\ UNCHANGED <<nodes, phase, nsxt, queue, cache, holder, pc, call, err, counts, late>>

-----------------------------------------------------------------------------
(***************************************************************************)
(* The world                                                               *)
(***************************************************************************)

\* A service is created, or changed such that it needs an update.
SetService(s) ==
  /\ Count("changes")
  /\ phase[s] # "deleting"
  /\ phase' = [phase EXCEPT ![s] = "present"]
  /\ queue' = queue \cup {s}
  /\ UNCHANGED <<nodes, nsxt, cache, knownHosts, servicesToUpdate, sync, holder, pc, call, err,
                 late>>

\* A service is deleted: it needs cleanup.
DeleteService(s) ==
  /\ phase[s] = "present"
  /\ phase' = [phase EXCEPT ![s] = "deleting"]
  /\ queue' = queue \cup {s}
  /\ UNCHANGED <<nodes, nsxt, cache, knownHosts, servicesToUpdate, sync, holder, pc, call, err,
                 counts, late>>

\* A node becomes ready, or ceases to be.
ChangeNode(n) ==
  /\ Count("nodes")
  /\ nodes' = IF n \in nodes THEN nodes \ {n} ELSE nodes \cup {n}
  /\ UNCHANGED <<phase, nsxt, controller, holder, pc, call, err, late>>

\* The controller restarts: the informer adds all services.
Crash ==
  /\ Count("crashes")
  /\ queue' = {s \in Svc : phase[s] # "absent"}
  /\ cache' = {} /\ knownHosts' = {} /\ servicesToUpdate' = {} /\ sync' = NoPass
  /\ holder' = [s \in Svc |-> NoProc]
  /\ pc' = [p \in Proc |-> "idle"]
  /\ call' = [p \in Proc |-> NoCall]
  /\ err' = [p \in Proc |-> FALSE]
  /\ late' = {}
  /\ UNCHANGED <<nodes, phase, nsxt>>

Work(p) == Lock(p) \/ Reconcile(p) \/ UpdatePoolMembers(p) \/ CleanUp(p) \/ Done(p)

WorkerStep(w) ==
  \/ Work(w) \/ WorkerReturns(w)
  \/ \E s \in Svc : TakeEnsure(w, s) \/ TakeDelete(w, s) \/ TakeNothing(w, s)

SyncStep ==
  Work(Sync) \/ nodeSyncLoop \/ UpdateNext \/ UpdateReturns \/ CheckExists \/ SyncDone

Next ==
  \/ \E w \in Worker : WorkerStep(w)
  \/ SyncStep
  \/ \E s \in Svc : SetService(s) \/ DeleteService(s)
  \/ \E n \in Node : ChangeNode(n)
  \/ Crash

Spec == Init /\ [][Next]_vars

(***************************************************************************)
(* The workers take what is in the queue, the node sync loop runs every    *)
(* 100 seconds, calls to NSX-T return, and a waiter gets the key.          *)
(***************************************************************************)
FairSpec == Spec /\ WF_vars(SyncStep) /\ \A w \in Worker : WF_vars(WorkerStep(w))

-----------------------------------------------------------------------------
\* The pool of port q of s has each address of the nodes once, and nothing else.
Exact(s, q, hosts) ==
  LET m == pools[s][q] IN
  /\ m # NoPool
  /\ ToSet(m) = collectNodeInternalAddresses(hosts)
  /\ Len(m) = Cardinality(collectNodeInternalAddresses(hosts))

(***************************************************************************)
(* When EnsureLoadBalancer or UpdateLoadBalancer returns without an error  *)
(* every pool of the service has exactly the addresses of the nodes of the *)
(* call as members, each once, whatever members it had before, and although *)
(* nodes share addresses or have none: updatedPoolMembers looks for new    *)
(* addresses only if there are fewer members left than addresses.          *)
(***************************************************************************)
MembersExact ==
  \A p \in Proc :
    pc[p] = "unlock" /\ ~err[p] =>
      LET c == call[p] IN
      \A q \in Port :
        \/ c.op = "ensure" /\ Exact(c.svc, q, c.hosts) /\ q \in servers[c.svc]
        \/ c.op = "update" /\ (pools[c.svc][q] = NoPool \/ Exact(c.svc, q, c.hosts))
        \/ c.op = "delete" /\ pools[c.svc][q] = NoPool /\ q \notin servers[c.svc]

(***************************************************************************)
(* Nothing is forgotten: the pools of a service that is neither queued nor *)
(* processed, and that the last pass of the node sync loop did not fail    *)
(* for, have the addresses of the nodes of that pass as members.  This     *)
(* holds although services are cached, changed and deleted while a pass is *)
(* under way, and although an error is dropped for a service that has no   *)
(* load balancer when the loop asks.  The exception is the one of          *)
(* PoolsFollowNodes, of which this is the part that is about safety.       *)
(***************************************************************************)
PoolsSettled ==
  \A s \in Svc :
    phase[s] = "present" /\ s \notin queue /\ ~Processed(s) /\ ~sync.on =>
      s \in late \/ s \in servicesToUpdate \/ \A q \in Port : Exact(s, q, knownHosts)

(***************************************************************************)
(* The pools of a service that exists have, again and again, the addresses *)
(* of the current nodes as members: updates that failed are repeated, and  *)
(* changes during a pass are found by the next one.  The exception is a    *)
(* service whose last writer was a worker with another list of nodes than  *)
(* the node sync loop had then: either it waited for the key while the     *)
(* loop updated its service, or the nodes changed and changed back between *)
(* two passes.  Then the pools stay as they are until the next change.     *)
(***************************************************************************)
PoolsFollowNodes ==
  \A s \in Svc :
    []<>(\/ phase[s] # "present"
         \/ s \in late
         \/ \A q \in Port : Exact(s, q, nodes))
=============================================================================
