---------------------------- MODULE LoadBalancer ----------------------------
(***************************************************************************)
(* The load balancer provider: pkg/loadbalancer/lbprovider.go, state.go    *)
(* and access.go.  EnsureLoadBalancer brings the virtual servers, pools    *)
(* and TCP monitors of a service in NSX-T in line with the service's       *)
(* ports; EnsureLoadBalancerDeleted is the same with no ports;             *)
(* UpdateLoadBalancer rewrites the members of the pools.  All three hold   *)
(* the service's key lock.                                                 *)
(*                                                                         *)
(* One step is one call to the NSX-T API (or the local code between two    *)
(* calls).  A call may fail without an effect, or take effect and its      *)
(* answer get lost; both are an error to the code.  The controller may     *)
(* crash between any two steps.                                            *)
(*                                                                         *)
(* Abstractions: a class is its IP pool; a service port is its port tag    *)
(* "protocol/port"; the ports of one service share one node port; the      *)
(* members of a pool are the set of its nodes; attaching a virtual server  *)
(* to the load balancer service and detaching it are atomic (LbService     *)
(* shows that they are).  The order of a list returned by NSX-T is not     *)
(* specified, so "the first match" is any match.                           *)
(***************************************************************************)
EXTENDS Naturals, FiniteSets

CONSTANTS
  Svc,          \* services, identified by "namespace/name"
  NoSvc,        \* no service
  Port,         \* port tags "protocol/port"
  TCP,          \* those of them with protocol TCP
  NodePort,     \* node ports
  Node,         \* nodes, identified by their internal address
  IPPool,       \* IP pools
  NoPool,       \* the IP pool of a class that is not configured
  IP,           \* IP addresses
  NoIP,         \* the empty address
  IPsOf,        \* for each IP pool its addresses
  Proc,         \* goroutines that call the provider
  Worker,       \* those of the service controller
  NoProc,       \* "unlocked"
  Spec0,        \* the service specifications users may choose
  RouterGiven,  \* whether logicalRouterId is configured; unmanaged mode works without it
  MaxFaults,    \* bound: API calls that fail or whose answer is lost
  MaxCrashes,   \* bound: crashes of the controller
  MaxChanges    \* bound: changes of services and nodes by users

ServiceSpec ==
  [ports : SUBSET Port, nodePort : NodePort, class : IPPool \cup {NoPool}]

ASSUME PortAssumption == TCP \subseteq Port /\ Port # {} /\ IsFiniteSet(Port)
ASSUME NilAssumption ==
  NoSvc \notin Svc /\ NoPool \notin IPPool /\ NoIP \notin IP /\ NoProc \notin Proc
ASSUME RouterAssumption == RouterGiven \in BOOLEAN
ASSUME WorkerAssumption == Worker \subseteq Proc
ASSUME IPsOfAssumption == IPsOf \in [IPPool -> SUBSET IP]
ASSUME Spec0Assumption == Spec0 \subseteq ServiceSpec /\ Spec0 # {}
ASSUME BoundsAssumption == MaxFaults \in Nat /\ MaxCrashes \in Nat /\ MaxChanges \in Nat

VARIABLES
  \* NSX-T
  servers, pools, monitors,  \* the virtual servers, pools and TCP monitors
  attached,  \* VirtualServerIds of the load balancer service
  alloc,     \* for each IP pool the allocated addresses
  nextId,    \* the next identifier
  \* Kubernetes
  phase,     \* a service is "absent", "present" or "deleting" (finalizer)
  spec,      \* its specification
  status,    \* its Status.LoadBalancer.Ingress[0].IP
  nodes,     \* the nodes
  \* the provider
  holder,    \* keyLock: for each service the goroutine that holds its key
  pc, call,  \* where a goroutine is, and the arguments of its call
  st,        \* its `state` struct
  cur,       \* the local variables of the loop over the ports
  err,       \* the error to return: "none", or its cause
  \* bookkeeping
  faults, crashes, changes

nsxt == <<servers, pools, monitors, attached, alloc, nextId>>
k8s == <<phase, spec, status, nodes, changes>>
vars == <<nsxt, k8s, holder, pc, call, st, cur, err, faults, crashes>>

Id == Nat      \* 0 is nil
NoId == 0

VirtualServer == [id : Id, svc : Svc, port : Port, nodePort : NodePort, pool : Id,
                  ip : IP, class : IPPool]
Pool == [id : Id, svc : Svc, port : Port, members : SUBSET Node, monitor : Id]
TCPMonitor == [id : Id, svc : Svc, port : Port, nodePort : NodePort]

Op == {"ensure", "delete", "update", "collect"}

Call == [op : Op, svc : Svc \cup {NoSvc}, ports : SUBSET Port, nodePort : NodePort,
         class : IPPool \cup {NoPool}, nodes : SUBSET Node, status : IP \cup {NoIP}]

State == [servers : SUBSET VirtualServer, pools : SUBSET Pool, monitors : SUBSET TCPMonitor,
          ip : IP \cup {NoIP}, class : IPPool \cup {NoPool}]

Cur == [todo : SUBSET Port, port : Port, monitor : Id, pool : Id, server : Id,
        allocated : BOOLEAN]

Label == {"idle", "lock", "findServers", "findPools", "findMonitors", "ports", "monitor",
          "pool", "server", "createServer", "attach", "rollback", "orphanServers",
          "deleteServer", "orphanPools", "orphanMonitors", "finish", "isAllocated",
          "release", "updateFind", "updatePools", "unlock"}

NoSpec == CHOOSE c \in Spec0 : TRUE
NoCall == [op |-> "ensure", svc |-> NoSvc, ports |-> {},
           nodePort |-> NoSpec.nodePort, class |-> NoPool, nodes |-> {}, status |-> NoIP]
NoState == [servers |-> {}, pools |-> {}, monitors |-> {}, ip |-> NoIP, class |-> NoPool]
NoCur == [todo |-> {}, port |-> CHOOSE q \in Port : TRUE, monitor |-> NoId, pool |-> NoId,
          server |-> NoId, allocated |-> FALSE]

(***************************************************************************)
(* Every variable has a value of its type.                                 *)
(***************************************************************************)
TypeOK ==
  /\ servers \in SUBSET VirtualServer
  /\ pools \in SUBSET Pool
  /\ monitors \in SUBSET TCPMonitor
  /\ attached \in SUBSET Id
  /\ alloc \in [IPPool -> SUBSET IP]
  /\ nextId \in Id \ {NoId}
  /\ phase \in [Svc -> {"absent", "present", "deleting"}]
  /\ spec \in [Svc -> ServiceSpec]
  /\ status \in [Svc -> IP \cup {NoIP}]
  /\ nodes \in SUBSET Node
  /\ holder \in [Svc -> Proc \cup {NoProc}]
  /\ pc \in [Proc -> Label]
  /\ call \in [Proc -> Call]
  /\ st \in [Proc -> State]
  /\ cur \in [Proc -> Cur]
  /\ err \in [Proc -> {"none", "fault", "class", "exhausted"}]
  /\ faults \in 0 .. MaxFaults /\ crashes \in 0 .. MaxCrashes /\ changes \in 0 .. MaxChanges

Init ==
  /\ servers = {} /\ pools = {} /\ monitors = {} /\ attached = {}
  /\ alloc = [l \in IPPool |-> {}]
  /\ nextId = 1
  /\ phase = [s \in Svc |-> "absent"]
  /\ spec = [s \in Svc |-> NoSpec]
  /\ status = [s \in Svc |-> NoIP]
  /\ nodes = {}
  /\ holder = [s \in Svc |-> NoProc]
  /\ pc = [p \in Proc |-> "idle"]
  /\ call = [p \in Proc |-> NoCall]
  /\ st = [p \in Proc |-> NoState]
  /\ cur = [p \in Proc |-> NoCur]
  /\ err = [p \in Proc |-> "none"]
  /\ faults = 0 /\ crashes = 0 /\ changes = 0

-----------------------------------------------------------------------------
(***************************************************************************)
(* Steps of a goroutine                                                    *)
(***************************************************************************)

\* What a step inside EnsureLoadBalancer or UpdateLoadBalancer leaves alone.
outside == <<k8s, holder, call, crashes>>

Goto(p, label) ==
  /\ pc' = [pc EXCEPT ![p] = label]
  /\ UNCHANGED <<err, faults>>

\* An API call fails, or its answer is lost: the code continues at label.
Fault(p, label) ==
  /\ faults < MaxFaults
  /\ faults' = faults + 1
  /\ err' = [err EXCEPT ![p] = "fault"]
  /\ pc' = [pc EXCEPT ![p] = label]

\* The code returns an error of its own.
Error(p, cause, label) ==
  /\ err' = [err EXCEPT ![p] = cause]
  /\ pc' = [pc EXCEPT ![p] = label]
  /\ UNCHANGED <<faults>>

Of(S, s) == {x \in S : x.svc = s}                           \* those tagged with service s
Matching(S, q) == {x \in S : x.port = q}                    \* those that match port q
Replace(S, x) == {IF y.id = x.id THEN x ELSE y : y \in S}   \* update by identifier
Without(S, i) == {y \in S : y.id # i}                       \* delete by identifier

KL == INSTANCE KeyMutex WITH Key <- Svc

\* classFromService: the annotation names a class that is not configured.
InvalidClass(p) == call[p].class = NoPool

\* Mutant of Lock: the key is not locked.
LockNothing(p) ==
  /\ pc[p] = "lock"
  /\ \/ call[p].op = "update" /\ Goto(p, "updateFind")
     \/ call[p].op # "update" /\ ~InvalidClass(p) /\ Goto(p, "findServers")
     \/ call[p].op # "update" /\ InvalidClass(p) /\ Error(p, "class", "unlock")
  /\ UNCHANGED <<nsxt, k8s, call, holder, st, cur, crashes>>

\* p.keyLock.Lock(key), and classFromService in EnsureLoadBalancer
Lock(p) ==
  /\ pc[p] = "lock"
  /\ KL!Acquire(p, call[p].svc)
  /\ \/ call[p].op = "update" /\ Goto(p, "updateFind")
     \/ call[p].op # "update" /\ ~InvalidClass(p) /\ Goto(p, "findServers")
     \/ call[p].op # "update" /\ InvalidClass(p) /\ Error(p, "class", "unlock")
  /\ UNCHANGED <<nsxt, k8s, call, st, cur, crashes>>

FindVirtualServers(p) ==
  /\ pc[p] = "findServers"
  /\ \/ /\ st' = [st EXCEPT ![p].servers = Of(servers, call[p].svc)]
        /\ Goto(p, "findPools")
     \/ Fault(p, "finish") /\ UNCHANGED st
  /\ UNCHANGED <<nsxt, cur, outside>>

FindPools(p) ==
  /\ pc[p] = "findPools"
  /\ \/ /\ st' = [st EXCEPT ![p].pools = Of(pools, call[p].svc)]
        /\ Goto(p, "findMonitors")
     \/ Fault(p, "finish") /\ UNCHANGED st
  /\ UNCHANGED <<nsxt, cur, outside>>

\* Mutant of AddressAndClass: the class is always that of the annotation.
AddressAndAnnotatedClass(p) ==
  IF st[p].servers = {}
  THEN {[ip |-> call[p].status, class |-> call[p].class]}
  ELSE {[ip |-> v.ip, class |-> call[p].class] : v \in st[p].servers}

\* Mutant of AddressAndClass: the address is always that of the status.
AddressOfStatus(p) ==
  IF st[p].servers = {}
  THEN {[ip |-> call[p].status, class |-> call[p].class]}
  ELSE {[ip |-> call[p].status, class |-> v.class] : v \in st[p].servers}

(***************************************************************************)
(* FindTCPMonitors, and then the address and the class: those of the first *)
(* virtual server, or, if there is none, the address in the service's      *)
(* status and the class of its annotation.                                 *)
(***************************************************************************)
AddressAndClass(p) ==
  IF st[p].servers = {}
  THEN {[ip |-> call[p].status, class |-> call[p].class]}
  ELSE {[ip |-> v.ip, class |-> v.class] : v \in st[p].servers}

\* Mutant of FindTCPMonitors: the status is read before the monitors are found.
StatusReadFirst(p) ==
  /\ pc[p] = "findMonitors"
  /\ \/ /\ \E a \in AddressAndClass(p) :
             st' = [st EXCEPT ![p].monitors = Of(monitors, call[p].svc),
                              ![p].ip = a.ip, ![p].class = a.class]
        /\ cur' = [cur EXCEPT ![p].todo = call[p].ports]
        /\ Goto(p, "ports")
     \/ /\ Fault(p, "finish")
        /\ st' = [st EXCEPT ![p].ip = call[p].status]
        /\ UNCHANGED cur
  /\ UNCHANGED <<nsxt, outside>>

FindTCPMonitors(p) ==
  /\ pc[p] = "findMonitors"
  /\ \/ /\ \E a \in AddressAndClass(p) :
             st' = [st EXCEPT ![p].monitors = Of(monitors, call[p].svc),
                              ![p].ip = a.ip, ![p].class = a.class]
        /\ cur' = [cur EXCEPT ![p].todo = call[p].ports]
        /\ Goto(p, "ports")
     \/ Fault(p, "finish") /\ UNCHANGED <<st, cur>>
  /\ UNCHANGED <<nsxt, outside>>

-----------------------------------------------------------------------------
(***************************************************************************)
(* Process: the loop over the service's ports                              *)
(***************************************************************************)

\* Mutant of NextPort: pools are cleaned up before virtual servers.
NextPortPoolsFirst(p) ==
  /\ pc[p] = "ports"
  /\ \/ \E q \in cur[p].todo :
          /\ cur' = [cur EXCEPT ![p].todo = @ \ {q}, ![p].port = q, ![p].monitor = NoId]
          /\ Goto(p, IF q \in TCP THEN "monitor" ELSE "pool")
     \/ cur[p].todo = {} /\ Goto(p, "orphanPools") /\ UNCHANGED cur
  /\ UNCHANGED <<nsxt, st, outside>>

\* The next port, or the clean-up; a health check is for TCP only.
NextPort(p) ==
  /\ pc[p] = "ports"
  /\ \/ \E q \in cur[p].todo :
          /\ cur' = [cur EXCEPT ![p].todo = @ \ {q}, ![p].port = q, ![p].monitor = NoId]
          /\ Goto(p, IF q \in TCP THEN "monitor" ELSE "pool")
     \/ cur[p].todo = {} /\ Goto(p, "orphanServers") /\ UNCHANGED cur
  /\ UNCHANGED <<nsxt, st, outside>>

\* getTCPMonitor finds a monitor that is up to date.
KeepTCPMonitor(p) ==
  /\ pc[p] = "monitor"
  /\ \E m \in Matching(st[p].monitors, cur[p].port) :
       /\ m.nodePort = call[p].nodePort
       /\ cur' = [cur EXCEPT ![p].monitor = m.id]
  /\ Goto(p, "pool")
  /\ UNCHANGED <<nsxt, st, outside>>

\* getTCPMonitor finds a monitor for another node port: updateTCPMonitor.
UpdateTCPMonitor(p) ==
  /\ pc[p] = "monitor"
  /\ \E m \in Matching(st[p].monitors, cur[p].port) :
       LET n == [m EXCEPT !.nodePort = call[p].nodePort] IN
       /\ m.nodePort # call[p].nodePort
       /\ \/ /\ monitors' = Replace(monitors, n)
             /\ \/ /\ st' = [st EXCEPT ![p].monitors = Replace(@, n)]
                   /\ cur' = [cur EXCEPT ![p].monitor = n.id]
                   /\ Goto(p, "pool")
                \/ Fault(p, "finish") /\ UNCHANGED <<st, cur>>
          \/ Fault(p, "finish") /\ UNCHANGED <<monitors, st, cur>>
  /\ UNCHANGED <<servers, pools, attached, alloc, nextId, outside>>

\* The monitor that access.CreateTCPMonitor asks for, with its tags
NewTCPMonitor(p) ==
  [id |-> nextId, svc |-> call[p].svc, port |-> cur[p].port, nodePort |-> call[p].nodePort]

\* getTCPMonitor finds none: createTCPMonitor.
CreateTCPMonitor(p) ==
  /\ pc[p] = "monitor"
  /\ Matching(st[p].monitors, cur[p].port) = {}
  /\ LET m == NewTCPMonitor(p) IN
     \/ /\ monitors' = monitors \cup {m}
        /\ nextId' = nextId + 1
        /\ \/ /\ st' = [st EXCEPT ![p].monitors = @ \cup {m}]
              /\ cur' = [cur EXCEPT ![p].monitor = m.id]
              /\ Goto(p, "pool")
           \/ Fault(p, "finish") /\ UNCHANGED <<st, cur>>
     \/ Fault(p, "finish") /\ UNCHANGED <<monitors, nextId, st, cur>>
  /\ UNCHANGED <<servers, pools, attached, alloc, outside>>

\* getPool finds a pool that is up to date.
KeepPool(p) ==
  /\ pc[p] = "pool"
  /\ \E l \in Matching(st[p].pools, cur[p].port) :
       /\ l.members = call[p].nodes /\ l.monitor = cur[p].monitor
       /\ cur' = [cur EXCEPT ![p].pool = l.id]
  /\ Goto(p, "server")
  /\ UNCHANGED <<nsxt, st, outside>>

\* getPool finds a pool with other members or another monitor: updatePool.
UpdatePool(p) ==
  /\ pc[p] = "pool"
  /\ \E l \in Matching(st[p].pools, cur[p].port) :
       LET n == [l EXCEPT !.members = call[p].nodes, !.monitor = cur[p].monitor] IN
       /\ n # l
       /\ \/ /\ pools' = Replace(pools, n)
             /\ \/ /\ st' = [st EXCEPT ![p].pools = Replace(@, n)]
                   /\ cur' = [cur EXCEPT ![p].pool = n.id]
                   /\ Goto(p, "server")
                \/ Fault(p, "finish") /\ UNCHANGED <<st, cur>>
          \/ Fault(p, "finish") /\ UNCHANGED <<pools, st, cur>>
  /\ UNCHANGED <<servers, monitors, attached, alloc, nextId, outside>>

\* The pool that access.CreatePool asks for
NewPool(p) ==
  [id |-> nextId, svc |-> call[p].svc, port |-> cur[p].port, members |-> call[p].nodes,
   monitor |-> cur[p].monitor]

\* Mutant of CreatePool: the error is not looked at, the pool is nil.
CreatePoolIgnoresError(p) ==
  /\ pc[p] = "pool"
  /\ Matching(st[p].pools, cur[p].port) = {}
  /\ cur' = [cur EXCEPT ![p].pool = NoPool]
  /\ Goto(p, "server")
  /\ UNCHANGED <<nsxt, st, outside>>

\* getPool finds none: createPool.
CreatePool(p) ==
  /\ pc[p] = "pool"
  /\ Matching(st[p].pools, cur[p].port) = {}
  /\ LET l == NewPool(p) IN
     \/ /\ pools' = pools \cup {l}
        /\ nextId' = nextId + 1
        /\ \/ /\ st' = [st EXCEPT ![p].pools = @ \cup {l}]
              /\ cur' = [cur EXCEPT ![p].pool = l.id]
              /\ Goto(p, "server")
           \/ Fault(p, "finish") /\ UNCHANGED <<st, cur>>
     \/ Fault(p, "finish") /\ UNCHANGED <<pools, nextId, st, cur>>
  /\ UNCHANGED <<servers, monitors, attached, alloc, outside>>

\* Mutant of KeepVirtualServer: the node port is not compared.
KeepAnyVirtualServer(p) ==
  /\ pc[p] = "server"
  /\ Matching(st[p].servers, cur[p].port) # {}
  /\ Goto(p, "ports")
  /\ UNCHANGED <<nsxt, st, cur, outside>>

\* getVirtualServer finds a virtual server that is up to date.
KeepVirtualServer(p) ==
  /\ pc[p] = "server"
  /\ \E v \in Matching(st[p].servers, cur[p].port) :
       v.nodePort = call[p].nodePort /\ v.pool = cur[p].pool
  /\ Goto(p, "ports")
  /\ UNCHANGED <<nsxt, st, cur, outside>>

\* getVirtualServer finds one with another node port or pool: updateVirtualServer.
UpdateVirtualServer(p) ==
  /\ pc[p] = "server"
  /\ \E v \in Matching(st[p].servers, cur[p].port) :
       LET n == [v EXCEPT !.nodePort = call[p].nodePort, !.pool = cur[p].pool] IN
       /\ n # v
       /\ \/ /\ servers' = Replace(servers, n)
             /\ \/ /\ st' = [st EXCEPT ![p].servers = Replace(@, n)]
                   /\ Goto(p, "ports")
                \/ Fault(p, "finish") /\ UNCHANGED st
          \/ Fault(p, "finish") /\ UNCHANGED <<servers, st>>
  /\ UNCHANGED <<pools, monitors, attached, alloc, nextId, cur, outside>>

(***************************************************************************)
(* getVirtualServer finds none: createVirtualServer.  allocateResources    *)
(* takes an address from the IP pool unless one is known already.          *)
(***************************************************************************)
KeepAddress(p) ==
  /\ pc[p] = "server"
  /\ Matching(st[p].servers, cur[p].port) = {}
  /\ st[p].ip # NoIP
  /\ cur' = [cur EXCEPT ![p].allocated = FALSE]
  /\ Goto(p, "createServer")
  /\ UNCHANGED <<nsxt, st, outside>>

\* The addresses AllocateExternalIPAddress may return
FreeAddresses(c) == IPsOf[c] \ alloc[c]

Allocate(p) ==
  /\ pc[p] = "server"
  /\ Matching(st[p].servers, cur[p].port) = {}
  /\ st[p].ip = NoIP
  /\ LET c == st[p].class IN
     \/ \E a \in FreeAddresses(c) :
          /\ alloc' = [alloc EXCEPT ![c] = @ \cup {a}]
          /\ \/ /\ st' = [st EXCEPT ![p].ip = a]
                /\ cur' = [cur EXCEPT ![p].allocated = TRUE]
                /\ Goto(p, "createServer")
             \/ Fault(p, "finish") /\ UNCHANGED <<st, cur>>
     \/ FreeAddresses(c) = {} /\ Error(p, "exhausted", "finish") /\ UNCHANGED <<alloc, st, cur>>
     \/ Fault(p, "finish") /\ UNCHANGED <<alloc, st, cur>>
  /\ UNCHANGED <<servers, pools, monitors, attached, nextId, outside>>

\* An error of createVirtualServer releases an address it has allocated.
ReleaseIfAllocated(p) == IF cur[p].allocated THEN "isAllocated" ELSE "finish"

\* The virtual server that access.CreateVirtualServer asks for; the class is in its tags
NewVirtualServer(p) ==
  [id |-> nextId, svc |-> call[p].svc, port |-> cur[p].port, nodePort |-> call[p].nodePort,
   pool |-> cur[p].pool, ip |-> st[p].ip, class |-> st[p].class]

CreateVirtualServer(p) ==
  /\ pc[p] = "createServer"
  /\ LET v == NewVirtualServer(p) IN
     \/ /\ servers' = servers \cup {v}
        /\ nextId' = nextId + 1
        /\ \/ /\ st' = [st EXCEPT ![p].servers = @ \cup {v}]
              /\ cur' = [cur EXCEPT ![p].server = v.id]
              /\ Goto(p, "attach")
           \/ Fault(p, ReleaseIfAllocated(p)) /\ UNCHANGED <<st, cur>>
     \/ Fault(p, ReleaseIfAllocated(p)) /\ UNCHANGED <<servers, nextId, st, cur>>
  /\ UNCHANGED <<pools, monitors, attached, alloc, outside>>

\* addVirtualServerToLoadBalancerService; that it finds no load balancer service is one of
\* its failures.
Attach(p) ==
  /\ pc[p] = "attach"
  /\ \/ /\ attached' = attached \cup {cur[p].server}
        /\ Goto(p, "ports") \/ Fault(p, "rollback")
     \/ Fault(p, "rollback") /\ UNCHANGED attached
  /\ UNCHANGED <<servers, pools, monitors, alloc, nextId, st, cur, outside>>

\* The new virtual server is deleted again; an error of the deletion is ignored.
Rollback(p) ==
  /\ pc[p] = "rollback"
  /\ \/ /\ servers' = Without(servers, cur[p].server)
        /\ Goto(p, ReleaseIfAllocated(p)) \/ Fault(p, ReleaseIfAllocated(p))
     \/ Fault(p, ReleaseIfAllocated(p)) /\ UNCHANGED servers
  /\ UNCHANGED <<pools, monitors, attached, alloc, nextId, st, cur, outside>>

-----------------------------------------------------------------------------
(***************************************************************************)
(* Process: the clean-up.  The loops range over s.servers, s.pools and     *)
(* s.tcpMonitors; an element that has been deleted is taken out of st,     *)
(* which is how far the loop has come.                                     *)
(***************************************************************************)

Orphaned(p, v) == v.port \notin call[p].ports

\* Mutant of Detach: the virtual server is deleted while it is attached.
DetachNothing(p) ==
  /\ pc[p] = "orphanServers"
  /\ \E v \in {w \in st[p].servers : Orphaned(p, w)} :
       cur' = [cur EXCEPT ![p].server = v.id]
  /\ Goto(p, "deleteServer")
  /\ UNCHANGED <<nsxt, st, outside>>

(***************************************************************************)
(* deleteVirtualServer: removeVirtualServerFromLoadBalancerService.  It    *)
(* looks for the load balancer service by the router or by the cluster's   *)
(* tags, never by the configured id: in unmanaged mode without a router it *)
(* finds none, as the configured one does not have these tags, detaches    *)
(* nothing and returns no error.                                           *)
(***************************************************************************)
Detach(p) ==
  /\ pc[p] = "orphanServers"
  /\ \E v \in {w \in st[p].servers : Orphaned(p, w)} :
       \/ /\ attached' = IF RouterGiven THEN attached \ {v.id} ELSE attached
          /\ \/ cur' = [cur EXCEPT ![p].server = v.id] /\ Goto(p, "deleteServer")
             \/ Fault(p, "finish") /\ UNCHANGED cur
       \/ Fault(p, "finish") /\ UNCHANGED <<attached, cur>>
  /\ UNCHANGED <<servers, pools, monitors, alloc, nextId, st, outside>>

\* deleteVirtualServer: DeleteVirtualServer; "not found" is no error.
DeleteVirtualServer(p) ==
  /\ pc[p] = "deleteServer"
  /\ \/ /\ servers' = Without(servers, cur[p].server)
        /\ \/ /\ st' = [st EXCEPT ![p].servers = Without(@, cur[p].server)]
              /\ Goto(p, "orphanServers")
           \/ Fault(p, "finish") /\ UNCHANGED st
     \/ Fault(p, "finish") /\ UNCHANGED <<servers, st>>
  /\ UNCHANGED <<pools, monitors, attached, alloc, nextId, cur, outside>>

NoOrphanServers(p) ==
  /\ pc[p] = "orphanServers"
  /\ \A v \in st[p].servers : ~Orphaned(p, v)
  /\ Goto(p, "orphanPools")
  /\ UNCHANGED <<nsxt, st, cur, outside>>

\* A pool is kept if a port matches and a virtual server that is kept uses it.
ValidPools(p) ==
  {l \in st[p].pools :
     /\ l.port \in call[p].ports
     /\ \E v \in st[p].servers : ~Orphaned(p, v) /\ v.pool = l.id}

DeletePool(p) ==
  /\ pc[p] = "orphanPools"
  /\ \E l \in st[p].pools \ ValidPools(p) :
       \/ /\ pools' = Without(pools, l.id)
          /\ \/ /\ st' = [st EXCEPT ![p].pools = Without(@, l.id)]
                /\ Goto(p, "orphanPools")
             \/ Fault(p, "finish") /\ UNCHANGED st
       \/ Fault(p, "finish") /\ UNCHANGED <<pools, st>>
  /\ UNCHANGED <<servers, monitors, attached, alloc, nextId, cur, outside>>

\* Mutant of NoOrphanPools: pools without a virtual server may stay.
SomeOrphanPools(p) ==
  /\ pc[p] = "orphanPools"
  /\ Goto(p, "orphanMonitors")
  /\ UNCHANGED <<nsxt, st, cur, outside>>

NoOrphanPools(p) ==
  /\ pc[p] = "orphanPools"
  /\ st[p].pools \subseteq ValidPools(p)
  /\ Goto(p, "orphanMonitors")
  /\ UNCHANGED <<nsxt, st, cur, outside>>

\* A monitor is kept if a port matches and a pool that is kept uses it.
ValidTCPMonitors(p) ==
  {m \in st[p].monitors :
     m.port \in call[p].ports /\ \E l \in ValidPools(p) : l.monitor = m.id}

DeleteTCPMonitor(p) ==
  /\ pc[p] = "orphanMonitors"
  /\ \E m \in st[p].monitors \ ValidTCPMonitors(p) :
       \/ /\ monitors' = Without(monitors, m.id)
          /\ \/ /\ st' = [st EXCEPT ![p].monitors = Without(@, m.id)]
                /\ Goto(p, "orphanMonitors")
             \/ Fault(p, "finish") /\ UNCHANGED st
       \/ Fault(p, "finish") /\ UNCHANGED <<monitors, st>>
  /\ UNCHANGED <<servers, pools, attached, alloc, nextId, cur, outside>>

NoOrphanTCPMonitors(p) ==
  /\ pc[p] = "orphanMonitors"
  /\ st[p].monitors \subseteq ValidTCPMonitors(p)
  /\ Goto(p, "finish")
  /\ UNCHANGED <<nsxt, st, cur, outside>>

-----------------------------------------------------------------------------
(***************************************************************************)
(* Finish, and releaseResources, which also the error paths of             *)
(* createVirtualServer call.  Finish runs even if Process has failed.      *)
(***************************************************************************)

\* Mutant of Finish: the address is released whatever the ports.
FinishAlwaysReleases(p) ==
  /\ pc[p] = "finish"
  /\ Goto(p, IF st[p].ip # NoIP THEN "isAllocated" ELSE "unlock")
  /\ UNCHANGED <<nsxt, st, cur, outside>>

Finish(p) ==
  /\ pc[p] = "finish"
  /\ Goto(p, IF call[p].ports = {} /\ st[p].ip # NoIP THEN "isAllocated" ELSE "unlock")
  /\ UNCHANGED <<nsxt, st, cur, outside>>

IsAllocatedExternalIPAddress(c, a) == a \in alloc[c]

IsAllocated(p) ==
  /\ pc[p] = "isAllocated"
  /\ \/ Goto(p, IF IsAllocatedExternalIPAddress(st[p].class, st[p].ip) THEN "release" ELSE "unlock")
     \/ Fault(p, "unlock")
  /\ UNCHANGED <<nsxt, st, cur, outside>>

\* That the address is no longer allocated does not count as an error.
ReleaseFromIPPool(c, a) == alloc[c] \ {a}

Release(p) ==
  /\ pc[p] = "release"
  /\ \/ /\ alloc' = [alloc EXCEPT ![st[p].class] = ReleaseFromIPPool(st[p].class, st[p].ip)]
        /\ Goto(p, "unlock") \/ Fault(p, "unlock")
     \/ Fault(p, "unlock") /\ UNCHANGED alloc
  /\ UNCHANGED <<servers, pools, monitors, attached, nextId, st, cur, outside>>

-----------------------------------------------------------------------------
(***************************************************************************)
(* UpdatePoolMembers                                                       *)
(***************************************************************************)
UpdateFindPools(p) ==
  /\ pc[p] = "updateFind"
  /\ \/ /\ st' = [st EXCEPT ![p].pools = Of(pools, call[p].svc)]
        /\ Goto(p, "updatePools")
     \/ Fault(p, "unlock") /\ UNCHANGED st
  /\ UNCHANGED <<nsxt, cur, outside>>

\* Pools of one of the ports, whose members are not the nodes.
Outdated(p) ==
  {l \in st[p].pools : l.port \in call[p].ports /\ l.members # call[p].nodes}

UpdatePoolMembers(p) ==
  /\ pc[p] = "updatePools"
  /\ \E l \in Outdated(p) :
       LET n == [l EXCEPT !.members = call[p].nodes] IN
       \/ /\ pools' = Replace(pools, n)
          /\ \/ /\ st' = [st EXCEPT ![p].pools = Replace(@, n)]
                /\ Goto(p, "updatePools")
             \/ Fault(p, "unlock") /\ UNCHANGED st
       \/ Fault(p, "unlock") /\ UNCHANGED <<pools, st>>
  /\ UNCHANGED <<servers, monitors, attached, alloc, nextId, cur, outside>>

UpdatePoolMembersDone(p) ==
  /\ pc[p] = "updatePools"
  /\ Outdated(p) = {}
  /\ Goto(p, "unlock")
  /\ UNCHANGED <<nsxt, st, cur, outside>>

-----------------------------------------------------------------------------
(***************************************************************************)
(* Return, and the callers: the Kubernetes service controller (vendored)   *)
(***************************************************************************)

(***************************************************************************)
(* The deferred Unlock.  After a successful EnsureLoadBalancer the caller  *)
(* writes the address to the service's status, after a successful          *)
(* EnsureLoadBalancerDeleted it removes the finalizer.  After an error it  *)
(* tries again later.                                                      *)
(***************************************************************************)
Unlock(p) ==
  LET s == call[p].svc IN
  /\ pc[p] = "unlock"
  /\ KL!Release(p, s)
  /\ status' = [status EXCEPT ![s] =
       IF phase[s] = "absent" \/ err[p] # "none" THEN @
       ELSE IF call[p].op = "ensure" THEN st[p].ip
       ELSE IF call[p].op = "delete" THEN NoIP ELSE @]
  /\ phase' = [phase EXCEPT ![s] =
       IF call[p].op = "delete" /\ err[p] = "none" THEN "absent" ELSE @]
  /\ pc' = [pc EXCEPT ![p] = "idle"]
  /\ call' = [call EXCEPT ![p] = NoCall]
  /\ st' = [st EXCEPT ![p] = NoState]
  /\ cur' = [cur EXCEPT ![p] = NoCur]
  /\ err' = [err EXCEPT ![p] = "none"]
  /\ UNCHANGED <<nsxt, spec, nodes, changes, faults, crashes>>

\* The arguments of a call; EnsureLoadBalancerDeleted passes no ports, no nodes.
NewCall(o, s) ==
  [op |-> o, svc |-> s,
   ports |-> IF o \in {"ensure", "update"} THEN spec[s].ports ELSE {},
   nodePort |-> spec[s].nodePort, class |-> spec[s].class,
   nodes |-> IF o \in {"ensure", "update"} THEN nodes ELSE {},
   status |-> status[s]]

\* The workers never process one service twice at a time.
Processed(s) ==
  \E q \in Proc : pc[q] # "idle" /\ call[q].svc = s /\ call[q].op \in {"ensure", "delete"}

Start(p, c) ==
  /\ pc[p] = "idle"
  /\ pc' = [pc EXCEPT ![p] = "lock"]
  /\ call' = [call EXCEPT ![p] = c]
  /\ UNCHANGED <<nsxt, spec, nodes, changes, holder, st, cur, err, faults, crashes>>

\* A worker calls EnsureLoadBalancer for a new or changed service.
CallEnsure(p, s) ==
  /\ phase[s] = "present" /\ ~Processed(s)
  /\ Start(p, NewCall("ensure", s))
  /\ UNCHANGED <<phase, status>>

\* The node sync loop, one goroutine, calls UpdateLoadBalancer for the services it
\* has cached: also for one that is being deleted.
CallUpdate(p, s) ==
  /\ phase[s] # "absent"
  /\ \A q \in Proc : pc[q] = "idle" \/ call[q].op # "update"
  /\ Start(p, NewCall("update", s))
  /\ UNCHANGED <<phase, status>>

(***************************************************************************)
(* A worker cleans a service up: it calls GetLoadBalancer, which looks for *)
(* virtual servers only, and EnsureLoadBalancerDeleted if there are any.   *)
(* If there are none the finalizer is removed at once.                     *)
(***************************************************************************)
CallDelete(p, s) ==
  /\ phase[s] = "deleting" /\ ~Processed(s)
  /\ Of(servers, s) # {}
  /\ Start(p, NewCall("delete", s))
  /\ UNCHANGED <<phase, status>>

GetLoadBalancerFindsNone(s) ==
  /\ phase[s] = "deleting" /\ ~Processed(s)
  /\ Of(servers, s) = {}
  /\ phase' = [phase EXCEPT ![s] = "absent"]
  /\ status' = [status EXCEPT ![s] = NoIP]
  /\ UNCHANGED <<nsxt, spec, nodes, changes, holder, pc, call, st, cur, err, faults,
                 crashes>>

\* A user creates or changes a service.
SetService(s, c) ==
  /\ changes < MaxChanges
  /\ changes' = changes + 1
  /\ phase[s] # "deleting"
  /\ phase[s] = "absent" \/ spec[s] # c
  /\ phase' = [phase EXCEPT ![s] = "present"]
  /\ spec' = [spec EXCEPT ![s] = c]
  /\ UNCHANGED <<nsxt, status, nodes, holder, pc, call, st, cur, err, faults, crashes>>

\* A user deletes a service.
DeleteService(s) ==
  /\ phase[s] = "present"
  /\ phase' = [phase EXCEPT ![s] = "deleting"]
  /\ UNCHANGED <<nsxt, spec, status, nodes, changes, holder, pc, call, st, cur, err, faults,
                 crashes>>

\* A node joins or leaves.
SetNodes(n) ==
  /\ changes < MaxChanges
  /\ changes' = changes + 1
  /\ n # nodes
  /\ nodes' = n
  /\ UNCHANGED <<nsxt, phase, spec, status, holder, pc, call, st, cur, err, faults, crashes>>

\* The controller dies and is started again: only NSX-T and Kubernetes remain.
Crash ==
  /\ crashes < MaxCrashes
  /\ crashes' = crashes + 1
  /\ holder' = [s \in Svc |-> NoProc]
  /\ pc' = [p \in Proc |-> "idle"]
  /\ call' = [p \in Proc |-> NoCall]
  /\ st' = [p \in Proc |-> NoState]
  /\ cur' = [p \in Proc |-> NoCur]
  /\ err' = [p \in Proc |-> "none"]
  /\ UNCHANGED <<nsxt, k8s, faults>>

-----------------------------------------------------------------------------
GetTCPMonitor(p) == KeepTCPMonitor(p) \/ UpdateTCPMonitor(p) \/ CreateTCPMonitor(p)
GetPool(p) == KeepPool(p) \/ UpdatePool(p) \/ CreatePool(p)
GetVirtualServer(p) ==
  \/ KeepVirtualServer(p) \/ UpdateVirtualServer(p)
  \/ KeepAddress(p) \/ Allocate(p) \/ CreateVirtualServer(p) \/ Attach(p) \/ Rollback(p)
CleanUp(p) ==
  \/ Detach(p) \/ DeleteVirtualServer(p) \/ NoOrphanServers(p)
  \/ DeletePool(p) \/ NoOrphanPools(p)
  \/ DeleteTCPMonitor(p) \/ NoOrphanTCPMonitors(p)

\* The steps of the provider's operations.
Step(p) ==
  \/ Lock(p)
  \/ FindVirtualServers(p) \/ FindPools(p) \/ FindTCPMonitors(p) \/ NextPort(p)
  \/ GetTCPMonitor(p) \/ GetPool(p) \/ GetVirtualServer(p) \/ CleanUp(p)
  \/ Finish(p) \/ IsAllocated(p) \/ Release(p)
  \/ UpdateFindPools(p) \/ UpdatePoolMembers(p) \/ UpdatePoolMembersDone(p)
  \/ Unlock(p)

Controller ==
  \E s \in Svc :
    \/ \E p \in Worker : CallEnsure(p, s) \/ CallUpdate(p, s) \/ CallDelete(p, s)
    \/ GetLoadBalancerFindsNone(s)

User ==
  \/ \E s \in Svc : (\E c \in Spec0 : SetService(s, c)) \/ DeleteService(s)
  \/ \E n \in SUBSET Node : SetNodes(n)

Next == (\E p \in Proc : Step(p)) \/ Controller \/ User \/ Crash

Spec == Init /\ [][Next]_vars

-----------------------------------------------------------------------------
(***************************************************************************)
(* NSX-T never has a virtual server without its pool, or a pool without    *)
(* its monitor, whatever call fails and wherever the controller crashes:   *)
(* objects are created monitor first and deleted virtual server first.     *)
(***************************************************************************)
RefIntegrity ==
  /\ \A v \in servers : \E l \in pools : l.id = v.pool /\ l.svc = v.svc /\ l.port = v.port
  /\ \A l \in pools : l.monitor # NoId =>
        \E m \in monitors : m.id = l.monitor /\ m.svc = l.svc /\ m.port = l.port

\* Places after FindVirtualServers, FindPools and FindTCPMonitors.
AfterMonitors ==
  {"ports", "monitor", "pool", "server", "createServer", "attach", "orphanServers",
   "deleteServer", "orphanPools", "orphanMonitors", "finish"}
AfterPools == AfterMonitors \cup {"findMonitors"}
AfterServers == AfterPools \cup {"findPools"}

(***************************************************************************)
(* The lists that Process reads once at the start, and keeps up to date    *)
(* itself, never become stale: as long as no call has failed they are what *)
(* NSX-T has for the service.  The same holds for the pools that           *)
(* UpdateLoadBalancer has read.                                            *)
(***************************************************************************)
SnapshotCoherent ==
  \A p \in Proc : err[p] = "none" =>
    LET s == call[p].svc IN
    /\ pc[p] \in AfterServers => st[p].servers = Of(servers, s)
    /\ pc[p] \in AfterPools \cup {"updatePools"} => st[p].pools = Of(pools, s)
    /\ pc[p] \in AfterMonitors => st[p].monitors = Of(monitors, s)

(***************************************************************************)
(* When EnsureLoadBalancer returns without an error NSX-T has exactly what *)
(* the call asked for, whatever earlier calls and crashes have left: one   *)
(* virtual server per port, all with the address that is returned, each    *)
(* with its own pool with the nodes as members, a monitor for each TCP     *)
(* port, and nothing else.  With no ports (EnsureLoadBalancerDeleted)      *)
(* nothing is left.  When UpdateLoadBalancer does, the members of the      *)
(* service's pools are the nodes of the call.                              *)
(***************************************************************************)
OkMeansExact ==
  \A p \in Proc :
    pc[p] = "unlock" /\ err[p] = "none" =>
      LET c == call[p]  s == c.svc IN
      IF c.op = "update"
      THEN \A l \in Of(pools, s) : l.port \in c.ports => l.members = c.nodes
      ELSE
      /\ \A q \in c.ports : \E v \in Of(servers, s), l \in Of(pools, s) :
            /\ v.port = q /\ v.nodePort = c.nodePort /\ v.pool = l.id /\ v.ip = st[p].ip
            /\ l.port = q /\ l.members = c.nodes
            /\ IF q \in TCP
               THEN \E m \in Of(monitors, s) :
                      m.id = l.monitor /\ m.port = q /\ m.nodePort = c.nodePort
               ELSE l.monitor = NoId
      /\ Cardinality(Of(servers, s)) = Cardinality(c.ports)
      /\ Cardinality(Of(pools, s)) = Cardinality(c.ports)
      /\ Cardinality(Of(monitors, s)) = Cardinality(c.ports \cap TCP)

(***************************************************************************)
(* A service keeps its address as long as it has a virtual server: the     *)
(* virtual servers of its ports have one address, and no step gives a      *)
(* service another one, whatever fails and wherever the controller         *)
(* crashes, although the status is written only after all ports are done   *)
(* and the address may have been released by an error path meanwhile.      *)
(***************************************************************************)
AddressStable ==
  [][\A v \in servers, w \in servers' : v.svc = w.svc => v.ip = w.ip]_vars

(***************************************************************************)
(* An address in use is allocated: a virtual server's address is not given *)
(* back to its IP pool, however the services change and wherever the       *)
(* controller crashes.  This needs that no call to NSX-T fails: Finish     *)
(* releases the address even if Process failed before it had deleted the   *)
(* virtual servers, and the error paths of createVirtualServer release it  *)
(* without knowing whether the virtual server is gone.                     *)
(***************************************************************************)
AddressHeld == faults = 0 => \A v \in servers : v.ip \in alloc[v.class]

(***************************************************************************)
(* Two services never share an address, under the same condition.          *)
(***************************************************************************)
AddressExclusive == faults = 0 => \A v, w \in servers : v.ip = w.ip => v.svc = w.svc

(***************************************************************************)
(* README.md: "it is able to handle recovery of lost or dangling           *)
(* elements".  When EnsureLoadBalancer returns without an error every      *)
(* virtual server of the service is attached to the load balancer service: *)
(* otherwise it serves no traffic, and nobody repairs it.                  *)
(***************************************************************************)
OkMeansAttached ==
  \A p \in Proc :
    pc[p] = "unlock" /\ err[p] = "none" /\ call[p].op = "ensure" =>
      \A v \in Of(servers, call[p].svc) : v.id \in attached

(***************************************************************************)
(* README.md: "garbage collection of unused elements previously generated  *)
(* by the controller".  Once no service is left, and no object in NSX-T    *)
(* from which a clean-up could start, no address is allocated any more,    *)
(* whatever classes the services had in between.  This needs that no call  *)
(* fails and no crash happens between the allocation of an address and the *)
(* creation of the virtual server that remembers it.                       *)
(***************************************************************************)
NoLeakedAddress ==
  (/\ faults = 0 /\ crashes = 0
   /\ \A p \in Proc : pc[p] = "idle"
   /\ \A s \in Svc : phase[s] = "absent"
   /\ servers = {} /\ pools = {} /\ monitors = {})
  => \A l \in IPPool : alloc[l] = {}

\* What the load balancer service refers to although it does not exist
Dangling == {i \in attached : \A v \in servers : v.id # i}

(***************************************************************************)
(* If a router is configured a virtual server is detached before it is     *)
(* deleted, and not attached again in between, whatever fails and wherever *)
(* the controller crashes.  The only step that leaves the load balancer    *)
(* service with a reference to a virtual server that does not exist is the *)
(* deletion of a new virtual server that seemed not to be attached.        *)
(***************************************************************************)
DetachedFirst ==
  [][RouterGiven => \A i \in Dangling' \ Dangling :
       \E p \in Proc : pc[p] = "rollback" /\ cur[p].server = i]_vars

(***************************************************************************)
(* The class is set wherever the code reads s.class.ipPoolID: in           *)
(* allocateResources and in releaseResources.  The latter is called by     *)
(* Finish also after Process has returned early, before it has set         *)
(* s.class; it then relies on s.ipAddress being empty.                     *)
(***************************************************************************)
ClassIsSet ==
  \A p \in Proc :
    pc[p] \in {"server", "createServer", "isAllocated", "release"} => st[p].class # NoPool

-----------------------------------------------------------------------------
(***************************************************************************)
(* The inductive strengthening of TypeOK and ClassIsSet.                   *)
(***************************************************************************)

\* A goroutine that is not idle works on a service.
CallInv == \A p \in Proc : pc[p] # "idle" => call[p].svc \in Svc

\* The key of a service is held exactly while a goroutine works on it.
LockInv ==
  /\ \A p \in Proc : pc[p] \notin {"idle", "lock"} => holder[call[p].svc] = p
  /\ \A s \in Svc : holder[s] # NoProc =>
        pc[holder[s]] \notin {"idle", "lock"} /\ call[holder[s]].svc = s

\* Until the class is set there is no address.
ClassInv ==
  \A p \in Proc :
    /\ pc[p] \in {"idle", "lock", "findServers", "findPools", "findMonitors"} => st[p].ip = NoIP
    /\ pc[p] \in {"findServers", "findPools", "findMonitors"} => call[p].class # NoPool
    /\ pc[p] \in (AfterMonitors \cup {"rollback"}) \ {"finish"} => st[p].class # NoPool
    /\ pc[p] = "finish" => st[p].ip = NoIP \/ st[p].class # NoPool
    /\ pc[p] \in {"createServer", "attach", "rollback", "isAllocated", "release"} =>
         st[p].ip # NoIP /\ st[p].class # NoPool

Inv == TypeOK /\ CallInv /\ LockInv /\ ClassInv
=============================================================================
