------------------------- MODULE LoadBalancerProofs -------------------------
(***************************************************************************)
(* Proofs about LoadBalancer, for any number of services, ports, nodes,    *)
(* addresses, goroutines, failures, crashes and changes.                   *)
(*                                                                         *)
(* TypeOK is not inductive: a virtual server is created with the address   *)
(* and the class in the goroutine's state, which are nil at first.  That   *)
(* they are set by then is ClassInv, the invariant that also shows that    *)
(* releaseResources never reads a class that is nil.  ClassInv and TypeOK  *)
(* need that a goroutine works on a service (CallInv); LockInv, that it    *)
(* works alone on it, is proved along the way.                             *)
(***************************************************************************)
EXTENDS LoadBalancer, TLAPS

-----------------------------------------------------------------------------
(***************************************************************************)
(* Helpers on sets of objects                                              *)
(***************************************************************************)

\* Selecting by service tag keeps the type.
LEMMA OfType ==
  ASSUME NEW T, NEW S \in SUBSET T, NEW s
  PROVE  Of(S, s) \in SUBSET T
BY DEF Of

\* Updating one object keeps the type.
LEMMA ReplaceType ==
  ASSUME NEW T, NEW S \in SUBSET T, NEW x \in T
  PROVE  Replace(S, x) \in SUBSET T
BY DEF Replace

\* Deleting one object keeps the type.
LEMMA WithoutType ==
  ASSUME NEW T, NEW S \in SUBSET T, NEW i
  PROVE  Without(S, i) \in SUBSET T
BY DEF Without

\* A match for a port is one of the objects.
LEMMA MatchingType ==
  ASSUME NEW T, NEW S \in SUBSET T, NEW q, NEW x \in Matching(S, q)
  PROVE  x \in T
BY DEF Matching

-----------------------------------------------------------------------------
(***************************************************************************)
(* Helpers on the records of a goroutine                                   *)
(***************************************************************************)

\* The fields of a goroutine's records have their types.
LEMMA FieldTypes ==
  ASSUME TypeOK, NEW p \in Proc
  PROVE  /\ st[p].servers \in SUBSET VirtualServer /\ st[p].pools \in SUBSET Pool
         /\ st[p].monitors \in SUBSET TCPMonitor
         /\ st[p].ip \in IP \cup {NoIP} /\ st[p].class \in IPPool \cup {NoPool}
         /\ cur[p].todo \in SUBSET Port /\ cur[p].port \in Port
         /\ cur[p].monitor \in Id /\ cur[p].pool \in Id /\ cur[p].server \in Id
         /\ call[p].svc \in Svc \cup {NoSvc} /\ call[p].ports \in SUBSET Port
         /\ call[p].nodePort \in NodePort /\ call[p].class \in IPPool \cup {NoPool}
         /\ call[p].nodes \in SUBSET Node /\ call[p].status \in IP \cup {NoIP}
<1>1. st[p] \in State /\ cur[p] \in Cur /\ call[p] \in Call
  BY DEF TypeOK
<1> QED BY <1>1 DEF State, Cur, Call

\* Assigning to the lists of the state keeps its type.
LEMMA StateUpdate ==
  ASSUME NEW f \in [Proc -> State], NEW p \in Proc
  PROVE  /\ \A X \in SUBSET VirtualServer : [f EXCEPT ![p].servers = X] \in [Proc -> State]
         /\ \A X \in SUBSET Pool : [f EXCEPT ![p].pools = X] \in [Proc -> State]
         /\ \A X \in SUBSET TCPMonitor : [f EXCEPT ![p].monitors = X] \in [Proc -> State]
         /\ \A a \in IP : [f EXCEPT ![p].ip = a] \in [Proc -> State]
         /\ \A X \in SUBSET TCPMonitor, a \in IP \cup {NoIP}, c \in IPPool \cup {NoPool} :
              [f EXCEPT ![p].monitors = X, ![p].ip = a, ![p].class = c] \in [Proc -> State]
<1>1. \A X \in SUBSET VirtualServer : [f EXCEPT ![p].servers = X] \in [Proc -> State]
  BY DEF State
<1>2. \A X \in SUBSET Pool : [f EXCEPT ![p].pools = X] \in [Proc -> State]
  BY DEF State
<1>3. \A X \in SUBSET TCPMonitor : [f EXCEPT ![p].monitors = X] \in [Proc -> State]
  BY DEF State
<1>4. \A a \in IP : [f EXCEPT ![p].ip = a] \in [Proc -> State]
  BY DEF State
<1>5. \A X \in SUBSET TCPMonitor, a \in IP \cup {NoIP}, c \in IPPool \cup {NoPool} :
        [f EXCEPT ![p].monitors = X, ![p].ip = a, ![p].class = c] \in [Proc -> State]
  <2> SUFFICES ASSUME NEW X \in SUBSET TCPMonitor, NEW a \in IP \cup {NoIP},
                      NEW c \in IPPool \cup {NoPool}
               PROVE  [f EXCEPT ![p].monitors = X, ![p].ip = a, ![p].class = c]
                        \in [Proc -> State]
    OBVIOUS
  <2> DEFINE g == [f EXCEPT ![p].monitors = X]
             h == [g EXCEPT ![p].ip = a]
  <2>1. g \in [Proc -> State]
    BY DEF State
  <2> HIDE DEF g
  <2>2. h \in [Proc -> State]
    BY <2>1 DEF State
  <2> HIDE DEF h
  <2>3. [h EXCEPT ![p].class = c] \in [Proc -> State]
    BY <2>2 DEF State
  <2>4. [f EXCEPT ![p].monitors = X, ![p].ip = a, ![p].class = c] = [h EXCEPT ![p].class = c]
    BY DEF g, h
  <2> QED BY <2>3, <2>4
<1> QED BY <1>1, <1>2, <1>3, <1>4, <1>5

\* Assigning to the local variables of the loop keeps their type.
LEMMA CurUpdate ==
  ASSUME NEW f \in [Proc -> Cur], NEW p \in Proc
  PROVE  /\ \A X \in SUBSET Port : [f EXCEPT ![p].todo = X] \in [Proc -> Cur]
         /\ \A X \in SUBSET Port, q \in Port :
              [f EXCEPT ![p].todo = X, ![p].port = q, ![p].monitor = NoId] \in [Proc -> Cur]
         /\ \A i \in Id : [f EXCEPT ![p].monitor = i] \in [Proc -> Cur]
         /\ \A i \in Id : [f EXCEPT ![p].pool = i] \in [Proc -> Cur]
         /\ \A i \in Id : [f EXCEPT ![p].server = i] \in [Proc -> Cur]
         /\ \A b \in BOOLEAN : [f EXCEPT ![p].allocated = b] \in [Proc -> Cur]
BY DEF Cur, Id, NoId

\* The empty records have their types.
LEMMA EmptyTypes ==
  NoSpec \in ServiceSpec /\ NoCall \in Call /\ NoState \in State /\ NoCur \in Cur
<1>1. NoSpec \in Spec0
  BY Spec0Assumption DEF NoSpec
<1>2. NoSpec \in ServiceSpec
  BY <1>1, Spec0Assumption
<1>3. NoCall \in Call
  BY <1>2 DEF NoCall, Call, ServiceSpec, Op
<1>4. NoState \in State
  BY DEF NoState, State
<1>5. NoCur \in Cur
  <2>1. (CHOOSE q \in Port : TRUE) \in Port
    BY PortAssumption
  <2> QED BY <2>1 DEF NoCur, Cur, Id, NoId
<1> QED BY <1>2, <1>3, <1>4, <1>5

-----------------------------------------------------------------------------
(***************************************************************************)
(* Type correctness: TypeOK in four parts                                  *)
(***************************************************************************)
NsxtOK ==
  /\ servers \in SUBSET VirtualServer /\ pools \in SUBSET Pool /\ monitors \in SUBSET TCPMonitor
  /\ attached \in SUBSET Id
  /\ alloc \in [IPPool -> SUBSET IP]
  /\ nextId \in Id \ {NoId}

ControlOK ==
  /\ pc \in [Proc -> Label]
  /\ err \in [Proc -> {"none", "fault", "class", "exhausted"}]
  /\ faults \in 0 .. MaxFaults

LocalOK == st \in [Proc -> State] /\ cur \in [Proc -> Cur]

OutsideOK ==
  /\ phase \in [Svc -> {"absent", "present", "deleting"}]
  /\ spec \in [Svc -> ServiceSpec]
  /\ status \in [Svc -> IP \cup {NoIP}]
  /\ nodes \in SUBSET Node
  /\ holder \in [Svc -> Proc \cup {NoProc}]
  /\ call \in [Proc -> Call]
  /\ crashes \in 0 .. MaxCrashes /\ changes \in 0 .. MaxChanges

\* The four parts make up TypeOK, in each state.
LEMMA TypeParts == TypeOK <=> NsxtOK /\ ControlOK /\ LocalOK /\ OutsideOK
BY DEF TypeOK, NsxtOK, ControlOK, LocalOK, OutsideOK

\* A step inside an operation leaves the state outside of it alone.
LEMMA OutsideUnchanged == OutsideOK /\ UNCHANGED outside => OutsideOK'
BY DEF OutsideOK, outside, k8s

\* Going on, failing and returning an error keep the control state well-typed.
LEMMA ControlType ==
  ASSUME ControlOK, NEW p \in Proc, NEW l \in Label,
         Goto(p, l) \/ Fault(p, l) \/ Error(p, "exhausted", l) \/ Error(p, "class", l)
  PROVE  ControlOK'
BY BoundsAssumption DEF ControlOK, Goto, Fault, Error

\* An assignment to the state and one to the local variables keep LocalOK.
LEMMA LocalAssigned ==
  ASSUME LocalOK, NEW p \in Proc,
         \/ st' = st
         \/ \E X \in SUBSET VirtualServer : st' = [st EXCEPT ![p].servers = X]
         \/ \E X \in SUBSET Pool : st' = [st EXCEPT ![p].pools = X]
         \/ \E X \in SUBSET TCPMonitor : st' = [st EXCEPT ![p].monitors = X]
         \/ \E a \in IP : st' = [st EXCEPT ![p].ip = a],
         \/ cur' = cur
         \/ \E i \in Id : cur' = [cur EXCEPT ![p].monitor = i]
         \/ \E i \in Id : cur' = [cur EXCEPT ![p].pool = i]
         \/ \E i \in Id : cur' = [cur EXCEPT ![p].server = i]
         \/ \E b \in BOOLEAN : cur' = [cur EXCEPT ![p].allocated = b]
  PROVE  LocalOK'
<1>1. st \in [Proc -> State] /\ cur \in [Proc -> Cur]
  BY DEF LocalOK
<1>2. ASSUME NEW X \in SUBSET VirtualServer PROVE [st EXCEPT ![p].servers = X] \in [Proc -> State]
  BY <1>1, StateUpdate
<1>3. ASSUME NEW X \in SUBSET Pool PROVE [st EXCEPT ![p].pools = X] \in [Proc -> State]
  BY <1>1, StateUpdate
<1>4. ASSUME NEW X \in SUBSET TCPMonitor PROVE [st EXCEPT ![p].monitors = X] \in [Proc -> State]
  BY <1>1, StateUpdate
<1>5. ASSUME NEW a \in IP PROVE [st EXCEPT ![p].ip = a] \in [Proc -> State]
  BY <1>1, StateUpdate
<1>6. st' \in [Proc -> State]
  BY <1>1, <1>2, <1>3, <1>4, <1>5
<1>7. ASSUME NEW i \in Id
      PROVE  /\ [cur EXCEPT ![p].monitor = i] \in [Proc -> Cur]
             /\ [cur EXCEPT ![p].pool = i] \in [Proc -> Cur]
             /\ [cur EXCEPT ![p].server = i] \in [Proc -> Cur]
  BY <1>1, CurUpdate
<1>8. ASSUME NEW b \in BOOLEAN PROVE [cur EXCEPT ![p].allocated = b] \in [Proc -> Cur]
  BY <1>1, CurUpdate
<1>9. cur' \in [Proc -> Cur]
  BY <1>1, <1>7, <1>8
<1> QED BY <1>6, <1>9 DEF LocalOK

-----------------------------------------------------------------------------
(***************************************************************************)
(* The steps between Lock and Unlock                                       *)
(***************************************************************************)
Inside == Label \ {"idle", "lock"}

\* Goroutine p goes on at label l.
MovesTo(p, l) == Goto(p, l) \/ Fault(p, l) \/ Error(p, "exhausted", l)

\* Every such step keeps all but the types of what it assigns, and ClassInv.
LEMMA InsideStep ==
  ASSUME Inv, NEW p \in Proc, pc[p] \in Inside, UNCHANGED outside,
         NEW l \in Inside, MovesTo(p, l)
  PROVE  ControlOK' /\ OutsideOK' /\ CallInv' /\ LockInv' /\ call[p].svc \in Svc
<1>1. NsxtOK /\ ControlOK /\ LocalOK /\ OutsideOK /\ CallInv /\ LockInv
  BY TypeParts DEF Inv
<1>2. ControlOK'
  BY <1>1, ControlType DEF MovesTo, Inside
<1>3. OutsideOK'
  BY <1>1, OutsideUnchanged
<1>4. pc' = [pc EXCEPT ![p] = l] /\ call' = call /\ holder' = holder
  BY DEF MovesTo, Goto, Fault, Error, outside
<1>5. CallInv' /\ LockInv'
  BY <1>1, <1>4, NilAssumption DEF CallInv, LockInv, Inside, ControlOK, OutsideOK
<1>6. call[p].svc \in Svc
  BY <1>1 DEF CallInv, Inside
<1> QED BY <1>2, <1>3, <1>5, <1>6

\* ClassInv, for one goroutine at label l with state x and a call for class c.
ClassAt(l, x, c) ==
  /\ l \in {"idle", "lock", "findServers", "findPools", "findMonitors"} => x.ip = NoIP
  /\ l \in {"findServers", "findPools", "findMonitors"} => c # NoPool
  /\ l \in (AfterMonitors \cup {"rollback"}) \ {"finish"} => x.class # NoPool
  /\ l = "finish" => x.ip = NoIP \/ x.class # NoPool
  /\ l \in {"createServer", "attach", "rollback", "isAllocated", "release"} =>
       x.ip # NoIP /\ x.class # NoPool

\* ClassInv, goroutine by goroutine: what the steps of EnsureLoadBalancer preserve.
LEMMA ClassInvAt == ClassInv <=> \A p \in Proc : ClassAt(pc[p], st[p], call[p].class)
BY DEF ClassInv, ClassAt

\* A step inside an operation keeps the invariant if what it assigns has its
\* type and ClassInv still holds for the goroutine.
LEMMA InsideKeepsInv ==
  ASSUME Inv, NEW p \in Proc, pc[p] \in Inside, UNCHANGED outside,
         NEW l \in Inside, MovesTo(p, l),
         NsxtOK', LocalOK',
         \A q \in Proc \ {p} : st'[q] = st[q],
         ClassAt(l, st'[p], call[p].class)
  PROVE  Inv'
<1>1. ControlOK' /\ OutsideOK' /\ CallInv' /\ LockInv'
  BY InsideStep
<1>2. pc' = [pc EXCEPT ![p] = l] /\ call' = call /\ pc \in [Proc -> Label] /\ ClassInv
  BY DEF MovesTo, Goto, Fault, Error, outside, Inv, TypeOK
<1>3. ASSUME NEW q \in Proc PROVE ClassAt(pc'[q], st'[q], call'[q].class)
  <2>1. ClassAt(pc[q], st[q], call[q].class)
    BY <1>2, ClassInvAt
  <2>2. CASE q = p
    BY <1>2, <2>2
  <2>3. CASE q # p
    BY <1>2, <2>1, <2>3
  <2> QED BY <2>2, <2>3
<1>4. ClassInv'
  BY <1>3 DEF ClassInv, ClassAt
<1>5. TypeOK'
  BY <1>1 DEF TypeOK, NsxtOK, ControlOK, LocalOK, OutsideOK
<1> QED BY <1>1, <1>4, <1>5 DEF Inv

\* What every proof about a step of goroutine p starts from.
LEMMA Facts ==
  ASSUME Inv, NEW p \in Proc
  PROVE  NsxtOK /\ LocalOK /\ ClassAt(pc[p], st[p], call[p].class)
BY TypeParts, ClassInvAt DEF Inv

\* The three Find calls at the start of Process, and that of UpdatePoolMembers.
LEMMA FindServersStep ==
  ASSUME Inv, NEW p \in Proc, FindVirtualServers(p)
  PROVE  Inv'
<1>1. NsxtOK /\ LocalOK /\ ClassAt(pc[p], st[p], call[p].class)
  BY Facts
<1>2. NsxtOK' /\ UNCHANGED outside /\ pc[p] \in Inside
  BY <1>1 DEF FindVirtualServers, NsxtOK, nsxt, Inside, Label
<1>3. Of(servers, call[p].svc) \in SUBSET VirtualServer
  BY <1>1, OfType DEF NsxtOK
<1>4. LocalOK'
  BY <1>1, <1>3, LocalAssigned DEF FindVirtualServers
<1>5. CASE Goto(p, "findPools") /\ st' = [st EXCEPT ![p].servers = Of(servers, call[p].svc)]
  <2>1. ClassAt("findPools", st'[p], call[p].class) /\ \A q \in Proc \ {p} : st'[q] = st[q]
    BY <1>1, <1>5 DEF ClassAt, AfterMonitors, LocalOK, State, FindVirtualServers
  <2> QED BY <1>2, <1>4, <1>5, <2>1, InsideKeepsInv DEF MovesTo, Inside, Label
<1>6. CASE Fault(p, "finish") /\ st' = st
  <2>1. ClassAt("finish", st'[p], call[p].class)
    BY <1>1, <1>6 DEF ClassAt, AfterMonitors, FindVirtualServers
  <2> QED BY <1>2, <1>4, <1>6, <2>1, InsideKeepsInv DEF MovesTo, Inside, Label
<1> QED BY <1>5, <1>6 DEF FindVirtualServers

\* access.FindPools in Process: the invariant survives, whether the call fails or not.
LEMMA FindPoolsStep ==
  ASSUME Inv, NEW p \in Proc, FindPools(p)
  PROVE  Inv'
<1>1. NsxtOK /\ LocalOK /\ ClassAt(pc[p], st[p], call[p].class)
  BY Facts
<1>2. NsxtOK' /\ UNCHANGED outside /\ pc[p] \in Inside
  BY <1>1 DEF FindPools, NsxtOK, nsxt, Inside, Label
<1>3. Of(pools, call[p].svc) \in SUBSET Pool
  BY <1>1, OfType DEF NsxtOK
<1>4. LocalOK'
  BY <1>1, <1>3, LocalAssigned DEF FindPools
<1>5. CASE Goto(p, "findMonitors") /\ st' = [st EXCEPT ![p].pools = Of(pools, call[p].svc)]
  <2>1. ClassAt("findMonitors", st'[p], call[p].class) /\ \A q \in Proc \ {p} : st'[q] = st[q]
    BY <1>1, <1>5 DEF ClassAt, AfterMonitors, LocalOK, State, FindPools
  <2> QED BY <1>2, <1>4, <1>5, <2>1, InsideKeepsInv DEF MovesTo, Inside, Label
<1>6. CASE Fault(p, "finish") /\ st' = st
  <2>1. ClassAt("finish", st'[p], call[p].class)
    BY <1>1, <1>6 DEF ClassAt, AfterMonitors, FindPools
  <2> QED BY <1>2, <1>4, <1>6, <2>1, InsideKeepsInv DEF MovesTo, Inside, Label
<1> QED BY <1>5, <1>6 DEF FindPools

\* access.FindTCPMonitors, after which Process sets the address and the class together.
LEMMA FindMonitorsStep ==
  ASSUME Inv, NEW p \in Proc, FindTCPMonitors(p)
  PROVE  Inv'
<1>1. NsxtOK /\ LocalOK /\ ClassAt(pc[p], st[p], call[p].class)
  BY Facts
<1>2. NsxtOK' /\ UNCHANGED outside /\ pc[p] \in Inside
  BY <1>1 DEF FindTCPMonitors, NsxtOK, nsxt, Inside, Label
<1>3. Of(monitors, call[p].svc) \in SUBSET TCPMonitor
  BY <1>1, OfType DEF NsxtOK
<1>4. st \in [Proc -> State] /\ cur \in [Proc -> Cur] /\ call[p].ports \in SUBSET Port
  BY <1>1, FieldTypes DEF LocalOK, Inv
<1>5. CASE /\ Goto(p, "ports")
           /\ cur' = [cur EXCEPT ![p].todo = call[p].ports]
           /\ \E a \in AddressAndClass(p) :
                st' = [st EXCEPT ![p].monitors = Of(monitors, call[p].svc),
                                 ![p].ip = a.ip, ![p].class = a.class]
  <2>1. PICK a \in AddressAndClass(p) :
          st' = [st EXCEPT ![p].monitors = Of(monitors, call[p].svc),
                           ![p].ip = a.ip, ![p].class = a.class]
    BY <1>5
  <2>2. a.ip \in IP \cup {NoIP} /\ a.class \in IPPool \cup {NoPool} /\ a.class # NoPool
    <3>1. call[p].status \in IP \cup {NoIP} /\ call[p].class \in IPPool \cup {NoPool}
          /\ st[p].servers \in SUBSET VirtualServer
      BY FieldTypes DEF Inv
    <3>2. call[p].class # NoPool
      BY <1>1 DEF ClassAt, FindTCPMonitors
    <3>3. CASE st[p].servers = {}
      BY <3>1, <3>2, <3>3 DEF AddressAndClass
    <3>4. CASE st[p].servers # {}
      BY <3>1, <3>4, NilAssumption DEF AddressAndClass, VirtualServer
    <3> QED BY <3>3, <3>4
  <2>3. cur' \in [Proc -> Cur]
    <3>1. ASSUME NEW X \in SUBSET Port PROVE [cur EXCEPT ![p].todo = X] \in [Proc -> Cur]
      BY <1>4, CurUpdate
    <3> QED BY <1>4, <1>5, <3>1
  <2>4. st' \in [Proc -> State]
    <3>1. ASSUME NEW X \in SUBSET TCPMonitor, NEW b \in IP \cup {NoIP},
                 NEW c \in IPPool \cup {NoPool}
          PROVE  [st EXCEPT ![p].monitors = X, ![p].ip = b, ![p].class = c] \in [Proc -> State]
      BY <1>4, StateUpdate
    <3> QED BY <1>3, <2>1, <2>2, <3>1
  <2>5. LocalOK'
    BY <2>3, <2>4 DEF LocalOK
  <2>6. ClassAt("ports", st'[p], call[p].class) /\ \A q \in Proc \ {p} : st'[q] = st[q]
    BY <1>4, <2>1, <2>2 DEF ClassAt, AfterMonitors, State
  <2> QED BY <1>2, <1>5, <2>5, <2>6, InsideKeepsInv DEF MovesTo, Inside, Label
<1>6. CASE Fault(p, "finish") /\ UNCHANGED <<st, cur>>
  <2>1. LocalOK'
    BY <1>1, <1>6 DEF LocalOK
  <2>2. ClassAt("finish", st'[p], call[p].class)
    BY <1>1, <1>6 DEF ClassAt, AfterMonitors, FindTCPMonitors
  <2> QED BY <1>2, <1>6, <2>1, <2>2, InsideKeepsInv DEF MovesTo, Inside, Label
<1> QED BY <1>5, <1>6 DEF FindTCPMonitors

\* The places of Process where the class is set, and no address needs to be.
Working == AfterMonitors \ {"createServer", "attach"}

\* A step from and to such a place, that assigns to one of the lists and to
\* one local variable, keeps the invariant.
LEMMA WorkingStep ==
  ASSUME Inv, NEW p \in Proc, pc[p] \in AfterMonitors \ {"finish"}, UNCHANGED outside,
         NEW l \in Working, MovesTo(p, l), NsxtOK',
         \/ st' = st
         \/ \E X \in SUBSET VirtualServer : st' = [st EXCEPT ![p].servers = X]
         \/ \E X \in SUBSET Pool : st' = [st EXCEPT ![p].pools = X]
         \/ \E X \in SUBSET TCPMonitor : st' = [st EXCEPT ![p].monitors = X],
         \/ cur' = cur
         \/ \E i \in Id : cur' = [cur EXCEPT ![p].monitor = i]
         \/ \E i \in Id : cur' = [cur EXCEPT ![p].pool = i]
         \/ \E i \in Id : cur' = [cur EXCEPT ![p].server = i]
  PROVE  Inv'
<1>1. LocalOK /\ ClassAt(pc[p], st[p], call[p].class)
  BY Facts
<1>2. LocalOK'
  BY <1>1, LocalAssigned
<1>3. st'[p].class = st[p].class /\ \A q \in Proc \ {p} : st'[q] = st[q]
  BY <1>1 DEF LocalOK, State
<1>4. pc[p] \in Inside /\ l \in Inside
  BY DEF AfterMonitors, Working, Inside, Label
<1>5. st[p].class # NoPool
  BY <1>1 DEF ClassAt, AfterMonitors
<1>6. ClassAt(l, st'[p], call[p].class)
  BY <1>3, <1>5 DEF ClassAt, Working, AfterMonitors
<1> QED BY <1>2, <1>3, <1>4, <1>6, InsideKeepsInv

\* NextPort: the only step that assigns three local variables.
LEMMA NextPortStep ==
  ASSUME Inv, NEW p \in Proc, NextPort(p)
  PROVE  Inv'
<1>1. NsxtOK /\ LocalOK /\ ClassAt(pc[p], st[p], call[p].class)
  BY Facts
<1>2. /\ NsxtOK' /\ UNCHANGED outside /\ st' = st
      /\ pc[p] \in AfterMonitors \ {"finish"} /\ pc[p] \in Inside
  BY <1>1 DEF NextPort, NsxtOK, nsxt, AfterMonitors, Inside, Label
<1>3. CASE \E q \in cur[p].todo :
             /\ cur' = [cur EXCEPT ![p].todo = @ \ {q}, ![p].port = q, ![p].monitor = NoId]
             /\ Goto(p, IF q \in TCP THEN "monitor" ELSE "pool")
  <2>1. PICK q \in cur[p].todo :
             /\ cur' = [cur EXCEPT ![p].todo = @ \ {q}, ![p].port = q, ![p].monitor = NoId]
             /\ Goto(p, IF q \in TCP THEN "monitor" ELSE "pool")
    BY <1>3
  <2>2. cur[p].todo \in SUBSET Port
    BY FieldTypes DEF Inv
  <2>3. ASSUME NEW X \in SUBSET Port
        PROVE  [cur EXCEPT ![p].todo = X, ![p].port = q, ![p].monitor = NoId] \in [Proc -> Cur]
    BY <1>1, <2>2, CurUpdate DEF LocalOK
  <2>4. cur' = [cur EXCEPT ![p].todo = cur[p].todo \ {q}, ![p].port = q, ![p].monitor = NoId]
    BY <1>1, <2>1 DEF LocalOK
  <2>5. LocalOK'
    BY <1>1, <1>2, <2>2, <2>3, <2>4 DEF LocalOK
  <2>6. PICK l \in {"monitor", "pool"} : Goto(p, l)
    BY <2>1
  <2>7. ClassAt(l, st'[p], call[p].class)
    BY <1>1, <1>2 DEF ClassAt, AfterMonitors, NextPort
  <2> QED BY <1>2, <2>5, <2>6, <2>7, InsideKeepsInv DEF MovesTo, Inside, Label
<1>4. CASE Goto(p, "orphanServers") /\ UNCHANGED cur
  BY <1>2, <1>4, WorkingStep DEF MovesTo, Working, AfterMonitors
<1> QED BY <1>3, <1>4 DEF NextPort

\* getTCPMonitor
LEMMA GetTCPMonitorStep ==
  ASSUME Inv, NEW p \in Proc, GetTCPMonitor(p)
  PROVE  Inv'
<1>1. NsxtOK /\ LocalOK
  BY Facts
<1>2. /\ UNCHANGED outside /\ pc[p] = "monitor"
      /\ pc[p] \in AfterMonitors \ {"finish"}
  BY DEF GetTCPMonitor, KeepTCPMonitor, UpdateTCPMonitor, CreateTCPMonitor, AfterMonitors
<1>3. "pool" \in Working /\ "finish" \in Working
  BY DEF Working, AfterMonitors
<1>4. /\ st[p].monitors \in SUBSET TCPMonitor /\ cur[p].port \in Port
      /\ call[p].nodePort \in NodePort
  BY FieldTypes DEF Inv
<1>5. call[p].svc \in Svc
  BY <1>2 DEF Inv, CallInv
<1>6. CASE KeepTCPMonitor(p)
  <2>1. PICK m \in Matching(st[p].monitors, cur[p].port) :
          cur' = [cur EXCEPT ![p].monitor = m.id]
    BY <1>6 DEF KeepTCPMonitor
  <2>2. m.id \in Id
    BY <1>4, <2>1, MatchingType DEF TCPMonitor
  <2>3. NsxtOK' /\ st' = st /\ MovesTo(p, "pool")
    BY <1>1, <1>6 DEF KeepTCPMonitor, NsxtOK, nsxt, MovesTo
  <2> QED BY <1>2, <1>3, <2>1, <2>2, <2>3, WorkingStep
<1>7. CASE UpdateTCPMonitor(p)
  <2> DEFINE n(m) == [m EXCEPT !.nodePort = call[p].nodePort]
  <2>1. PICK m \in Matching(st[p].monitors, cur[p].port) :
          \/ /\ monitors' = Replace(monitors, n(m))
             /\ \/ /\ st' = [st EXCEPT ![p].monitors = Replace(@, n(m))]
                   /\ cur' = [cur EXCEPT ![p].monitor = n(m).id]
                   /\ Goto(p, "pool")
                \/ Fault(p, "finish") /\ UNCHANGED <<st, cur>>
          \/ Fault(p, "finish") /\ UNCHANGED <<monitors, st, cur>>
    BY <1>7 DEF UpdateTCPMonitor
  <2>2. m \in TCPMonitor
    BY <1>4, MatchingType
  <2>3. n(m) \in TCPMonitor /\ n(m).id \in Id
    BY <1>4, <2>2 DEF TCPMonitor
  <2> HIDE DEF n
  <2>4. /\ Replace(monitors, n(m)) \in SUBSET TCPMonitor
        /\ Replace(st[p].monitors, n(m)) \in SUBSET TCPMonitor
    BY <1>1, <1>4, <2>3, ReplaceType DEF NsxtOK
  <2>5. NsxtOK'
    BY <1>1, <1>7, <2>1, <2>4 DEF UpdateTCPMonitor, NsxtOK
  <2>6. CASE /\ st' = [st EXCEPT ![p].monitors = Replace(@, n(m))]
             /\ cur' = [cur EXCEPT ![p].monitor = n(m).id]
             /\ Goto(p, "pool")
    <3>1. st' = [st EXCEPT ![p].monitors = Replace(st[p].monitors, n(m))]
      BY <1>1, <2>6 DEF LocalOK, State
    <3> QED BY <1>2, <1>3, <2>3, <2>4, <2>5, <2>6, <3>1, WorkingStep DEF MovesTo
  <2>7. CASE Fault(p, "finish") /\ UNCHANGED <<st, cur>>
    BY <1>2, <1>3, <2>5, <2>7, WorkingStep DEF MovesTo
  <2> QED BY <2>1, <2>6, <2>7
<1>8. CASE CreateTCPMonitor(p)
  <2> DEFINE m == NewTCPMonitor(p)
  <2>1. m \in TCPMonitor /\ m.id \in Id /\ nextId + 1 \in Id \ {NoId}
    BY <1>1, <1>4, <1>5 DEF NewTCPMonitor, TCPMonitor, NsxtOK, Id, NoId
  <2>2. \/ /\ monitors' = monitors \cup {m}
           /\ nextId' = nextId + 1
           /\ \/ /\ st' = [st EXCEPT ![p].monitors = @ \cup {m}]
                 /\ cur' = [cur EXCEPT ![p].monitor = m.id]
                 /\ Goto(p, "pool")
              \/ Fault(p, "finish") /\ UNCHANGED <<st, cur>>
        \/ Fault(p, "finish") /\ UNCHANGED <<monitors, nextId, st, cur>>
    BY <1>8 DEF CreateTCPMonitor
  <2> HIDE DEF m
  <2>3. NsxtOK'
    BY <1>1, <1>8, <2>1, <2>2 DEF CreateTCPMonitor, NsxtOK
  <2>4. st[p].monitors \cup {m} \in SUBSET TCPMonitor
    BY <1>4, <2>1
  <2>5. CASE /\ st' = [st EXCEPT ![p].monitors = @ \cup {m}]
             /\ cur' = [cur EXCEPT ![p].monitor = m.id]
             /\ Goto(p, "pool")
    <3>1. st' = [st EXCEPT ![p].monitors = st[p].monitors \cup {m}]
      BY <1>1, <2>5 DEF LocalOK, State
    <3> QED BY <1>2, <1>3, <2>1, <2>3, <2>4, <2>5, <3>1, WorkingStep DEF MovesTo
  <2>6. CASE Fault(p, "finish") /\ UNCHANGED <<st, cur>>
    BY <1>2, <1>3, <2>3, <2>6, WorkingStep DEF MovesTo
  <2> QED BY <2>2, <2>5, <2>6
<1> QED BY <1>6, <1>7, <1>8 DEF GetTCPMonitor

\* getPool
LEMMA GetPoolStep ==
  ASSUME Inv, NEW p \in Proc, GetPool(p)
  PROVE  Inv'
<1>1. NsxtOK /\ LocalOK
  BY Facts
<1>2. /\ UNCHANGED outside /\ pc[p] = "pool"
      /\ pc[p] \in AfterMonitors \ {"finish"}
  BY DEF GetPool, KeepPool, UpdatePool, CreatePool, AfterMonitors
<1>3. "server" \in Working /\ "finish" \in Working
  BY DEF Working, AfterMonitors
<1>4. /\ st[p].pools \in SUBSET Pool /\ cur[p].port \in Port /\ cur[p].monitor \in Id
      /\ call[p].nodes \in SUBSET Node
  BY FieldTypes DEF Inv
<1>5. call[p].svc \in Svc
  BY <1>2 DEF Inv, CallInv
<1>6. CASE KeepPool(p)
  <2>1. PICK l \in Matching(st[p].pools, cur[p].port) : cur' = [cur EXCEPT ![p].pool = l.id]
    BY <1>6 DEF KeepPool
  <2>2. l.id \in Id
    BY <1>4, <2>1, MatchingType DEF Pool
  <2>3. NsxtOK' /\ st' = st /\ MovesTo(p, "server")
    BY <1>1, <1>6 DEF KeepPool, NsxtOK, nsxt, MovesTo
  <2> QED BY <1>2, <1>3, <2>1, <2>2, <2>3, WorkingStep
<1>7. CASE UpdatePool(p)
  <2> DEFINE n(l) == [l EXCEPT !.members = call[p].nodes, !.monitor = cur[p].monitor]
  <2>1. PICK l \in Matching(st[p].pools, cur[p].port) :
          \/ /\ pools' = Replace(pools, n(l))
             /\ \/ /\ st' = [st EXCEPT ![p].pools = Replace(@, n(l))]
                   /\ cur' = [cur EXCEPT ![p].pool = n(l).id]
                   /\ Goto(p, "server")
                \/ Fault(p, "finish") /\ UNCHANGED <<st, cur>>
          \/ Fault(p, "finish") /\ UNCHANGED <<pools, st, cur>>
    BY <1>7 DEF UpdatePool
  <2>2. l \in Pool
    BY <1>4, MatchingType
  <2>3. n(l) \in Pool /\ n(l).id \in Id
    BY <1>4, <2>2 DEF Pool
  <2> HIDE DEF n
  <2>4. Replace(pools, n(l)) \in SUBSET Pool /\ Replace(st[p].pools, n(l)) \in SUBSET Pool
    BY <1>1, <1>4, <2>3, ReplaceType DEF NsxtOK
  <2>5. NsxtOK'
    BY <1>1, <1>7, <2>1, <2>4 DEF UpdatePool, NsxtOK
  <2>6. CASE /\ st' = [st EXCEPT ![p].pools = Replace(@, n(l))]
             /\ cur' = [cur EXCEPT ![p].pool = n(l).id]
             /\ Goto(p, "server")
    <3>1. st' = [st EXCEPT ![p].pools = Replace(st[p].pools, n(l))]
      BY <1>1, <2>6 DEF LocalOK, State
    <3> QED BY <1>2, <1>3, <2>3, <2>4, <2>5, <2>6, <3>1, WorkingStep DEF MovesTo
  <2>7. CASE Fault(p, "finish") /\ UNCHANGED <<st, cur>>
    BY <1>2, <1>3, <2>5, <2>7, WorkingStep DEF MovesTo
  <2> QED BY <2>1, <2>6, <2>7
<1>8. CASE CreatePool(p)
  <2> DEFINE l == NewPool(p)
  <2>1. l \in Pool /\ l.id \in Id /\ nextId + 1 \in Id \ {NoId}
    BY <1>1, <1>4, <1>5 DEF NewPool, Pool, NsxtOK, Id, NoId
  <2>2. \/ /\ pools' = pools \cup {l}
           /\ nextId' = nextId + 1
           /\ \/ /\ st' = [st EXCEPT ![p].pools = @ \cup {l}]
                 /\ cur' = [cur EXCEPT ![p].pool = l.id]
                 /\ Goto(p, "server")
              \/ Fault(p, "finish") /\ UNCHANGED <<st, cur>>
        \/ Fault(p, "finish") /\ UNCHANGED <<pools, nextId, st, cur>>
    BY <1>8 DEF CreatePool
  <2> HIDE DEF l
  <2>3. NsxtOK'
    BY <1>1, <1>8, <2>1, <2>2 DEF CreatePool, NsxtOK
  <2>4. st[p].pools \cup {l} \in SUBSET Pool
    BY <1>4, <2>1
  <2>5. CASE /\ st' = [st EXCEPT ![p].pools = @ \cup {l}]
             /\ cur' = [cur EXCEPT ![p].pool = l.id]
             /\ Goto(p, "server")
    <3>1. st' = [st EXCEPT ![p].pools = st[p].pools \cup {l}]
      BY <1>1, <2>5 DEF LocalOK, State
    <3> QED BY <1>2, <1>3, <2>1, <2>3, <2>4, <2>5, <3>1, WorkingStep DEF MovesTo
  <2>6. CASE Fault(p, "finish") /\ UNCHANGED <<st, cur>>
    BY <1>2, <1>3, <2>3, <2>6, WorkingStep DEF MovesTo
  <2> QED BY <2>2, <2>5, <2>6
<1> QED BY <1>6, <1>7, <1>8 DEF GetPool

\* getVirtualServer, if there is one
LEMMA ExistingServerStep ==
  ASSUME Inv, NEW p \in Proc, KeepVirtualServer(p) \/ UpdateVirtualServer(p)
  PROVE  Inv'
<1>1. NsxtOK /\ LocalOK
  BY Facts
<1>2. UNCHANGED outside /\ pc[p] \in AfterMonitors \ {"finish"} /\ cur' = cur
  BY DEF KeepVirtualServer, UpdateVirtualServer, AfterMonitors
<1>3. "ports" \in Working /\ "finish" \in Working
  BY DEF Working, AfterMonitors
<1>4. /\ st[p].servers \in SUBSET VirtualServer /\ cur[p].pool \in Id
      /\ call[p].nodePort \in NodePort
  BY FieldTypes DEF Inv
<1>5. CASE KeepVirtualServer(p)
  <2>1. NsxtOK' /\ st' = st /\ MovesTo(p, "ports")
    BY <1>1, <1>5 DEF KeepVirtualServer, NsxtOK, nsxt, MovesTo
  <2> QED BY <1>2, <1>3, <2>1, WorkingStep
<1>6. CASE UpdateVirtualServer(p)
  <2> DEFINE n(v) == [v EXCEPT !.nodePort = call[p].nodePort, !.pool = cur[p].pool]
  <2>1. PICK v \in Matching(st[p].servers, cur[p].port) :
          \/ /\ servers' = Replace(servers, n(v))
             /\ \/ /\ st' = [st EXCEPT ![p].servers = Replace(@, n(v))]
                   /\ Goto(p, "ports")
                \/ Fault(p, "finish") /\ UNCHANGED st
          \/ Fault(p, "finish") /\ UNCHANGED <<servers, st>>
    BY <1>6 DEF UpdateVirtualServer
  <2>2. v \in VirtualServer
    BY <1>4, MatchingType
  <2>3. n(v) \in VirtualServer
    BY <1>4, <2>2 DEF VirtualServer
  <2> HIDE DEF n
  <2>4. /\ Replace(servers, n(v)) \in SUBSET VirtualServer
        /\ Replace(st[p].servers, n(v)) \in SUBSET VirtualServer
    BY <1>1, <1>4, <2>3, ReplaceType DEF NsxtOK
  <2>5. NsxtOK'
    BY <1>1, <1>6, <2>1, <2>4 DEF UpdateVirtualServer, NsxtOK
  <2>6. CASE st' = [st EXCEPT ![p].servers = Replace(@, n(v))] /\ Goto(p, "ports")
    <3>1. st' = [st EXCEPT ![p].servers = Replace(st[p].servers, n(v))]
      BY <1>1, <2>6 DEF LocalOK, State
    <3> QED BY <1>2, <1>3, <2>4, <2>5, <2>6, <3>1, WorkingStep DEF MovesTo
  <2>7. CASE Fault(p, "finish") /\ UNCHANGED st
    BY <1>2, <1>3, <2>5, <2>7, WorkingStep DEF MovesTo
  <2> QED BY <2>1, <2>6, <2>7
<1> QED BY <1>5, <1>6

\* createVirtualServer: the address
LEMMA AddressStep ==
  ASSUME Inv, NEW p \in Proc, KeepAddress(p) \/ Allocate(p)
  PROVE  Inv'
<1>1. NsxtOK /\ LocalOK /\ ClassAt(pc[p], st[p], call[p].class)
  BY Facts
<1>2. /\ UNCHANGED outside /\ pc[p] = "server" /\ pc[p] \in Inside
      /\ pc[p] \in AfterMonitors \ {"finish"}
  BY DEF KeepAddress, Allocate, AfterMonitors, Inside, Label
<1>3. st[p].class \in IPPool /\ st \in [Proc -> State]
  BY <1>1, <1>2, FieldTypes DEF Inv, ClassAt, AfterMonitors, LocalOK
<1>4. CASE KeepAddress(p)
  <2>1. NsxtOK' /\ st' = st /\ MovesTo(p, "createServer") /\ st[p].ip # NoIP
    BY <1>1, <1>4 DEF KeepAddress, NsxtOK, nsxt, MovesTo
  <2>2. \E b \in BOOLEAN : cur' = [cur EXCEPT ![p].allocated = b]
    BY <1>4 DEF KeepAddress
  <2>3. LocalOK'
    BY <1>1, <2>1, <2>2, LocalAssigned
  <2>4. ClassAt("createServer", st'[p], call[p].class)
    BY <1>3, <2>1, NilAssumption DEF ClassAt
  <2> QED BY <1>2, <2>1, <2>3, <2>4, InsideKeepsInv DEF Inside, Label
<1>5. CASE Allocate(p)
  <2>1. NsxtOK'
    <3>1. IPsOf[st[p].class] \in SUBSET IP
      BY <1>3, IPsOfAssumption
    <3> QED BY <1>1, <1>3, <1>5, <3>1 DEF Allocate, FreeAddresses, NsxtOK
  <2>2. CASE \E a \in FreeAddresses(st[p].class) :
               /\ st' = [st EXCEPT ![p].ip = a]
               /\ cur' = [cur EXCEPT ![p].allocated = TRUE]
               /\ Goto(p, "createServer")
    <3>1. PICK a \in FreeAddresses(st[p].class) :
               /\ st' = [st EXCEPT ![p].ip = a]
               /\ cur' = [cur EXCEPT ![p].allocated = TRUE]
               /\ Goto(p, "createServer")
      BY <2>2
    <3>2. a \in IP
      BY <1>3, IPsOfAssumption DEF FreeAddresses
    <3>3. LocalOK'
      BY <1>1, <3>1, <3>2, LocalAssigned
    <3>4. /\ ClassAt("createServer", st'[p], call[p].class)
          /\ \A q \in Proc \ {p} : st'[q] = st[q]
      BY <1>3, <3>1, <3>2, NilAssumption DEF ClassAt, State
    <3> QED BY <1>2, <2>1, <3>1, <3>3, <3>4, InsideKeepsInv DEF MovesTo, Inside, Label
  <2>3. CASE MovesTo(p, "finish") /\ UNCHANGED <<st, cur>>
    BY <1>2, <2>1, <2>3, WorkingStep DEF Working, AfterMonitors
  <2> QED BY <1>5, <2>2, <2>3 DEF Allocate, MovesTo
<1> QED BY <1>4, <1>5

\* Where an address is known any step but one back to the Find calls is fine.
LEMMA AddressKnownStep ==
  ASSUME Inv, NEW p \in Proc,
         pc[p] \in {"createServer", "attach", "rollback", "isAllocated", "release"},
         UNCHANGED outside,
         NEW l \in Inside \ {"findServers", "findPools", "findMonitors"}, MovesTo(p, l), NsxtOK',
         st' = st \/ \E X \in SUBSET VirtualServer : st' = [st EXCEPT ![p].servers = X],
         cur' = cur \/ \E i \in Id : cur' = [cur EXCEPT ![p].server = i]
  PROVE  Inv'
<1>1. LocalOK /\ ClassAt(pc[p], st[p], call[p].class)
  BY Facts
<1>2. LocalOK'
  BY <1>1, LocalAssigned
<1>3. /\ st'[p].class = st[p].class /\ st'[p].ip = st[p].ip
      /\ \A q \in Proc \ {p} : st'[q] = st[q]
  BY <1>1 DEF LocalOK, State
<1>4. st[p].class # NoPool /\ st[p].ip # NoIP
  BY <1>1 DEF ClassAt
<1>5. ClassAt(l, st'[p], call[p].class)
  BY <1>3, <1>4 DEF ClassAt, Inside
<1>6. pc[p] \in Inside
  BY DEF Inside, Label
<1> QED BY <1>2, <1>3, <1>5, <1>6, InsideKeepsInv

\* createVirtualServer: the creation, the attachment and the error path
LEMMA NewServerStep ==
  ASSUME Inv, NEW p \in Proc, CreateVirtualServer(p) \/ Attach(p) \/ Rollback(p)
  PROVE  Inv'
<1>1. NsxtOK /\ LocalOK /\ ClassAt(pc[p], st[p], call[p].class)
  BY Facts
<1>2. UNCHANGED outside /\ pc[p] \in {"createServer", "attach", "rollback"}
  BY DEF CreateVirtualServer, Attach, Rollback
<1>3. /\ ReleaseIfAllocated(p) \in Inside \ {"findServers", "findPools", "findMonitors"}
      /\ {"ports", "attach", "rollback"} \subseteq
            Inside \ {"findServers", "findPools", "findMonitors"}
  BY DEF ReleaseIfAllocated, Inside, Label
<1>4. /\ st[p].servers \in SUBSET VirtualServer /\ cur[p].pool \in Id /\ cur[p].server \in Id
      /\ cur[p].port \in Port /\ call[p].nodePort \in NodePort
  BY FieldTypes DEF Inv
<1>5. CASE CreateVirtualServer(p)
  <2> DEFINE v == NewVirtualServer(p)
  <2>1. v \in VirtualServer /\ v.id \in Id /\ nextId + 1 \in Id \ {NoId}
    <3>1. call[p].svc \in Svc
      BY <1>2 DEF Inv, CallInv
    <3>2. st[p].ip \in IP /\ st[p].class \in IPPool
      BY <1>1, <1>2, FieldTypes DEF Inv, ClassAt
    <3> QED BY <1>1, <1>4, <3>1, <3>2 DEF NewVirtualServer, VirtualServer, NsxtOK, Id, NoId
  <2>2. \/ /\ servers' = servers \cup {v}
           /\ nextId' = nextId + 1
           /\ \/ /\ st' = [st EXCEPT ![p].servers = @ \cup {v}]
                 /\ cur' = [cur EXCEPT ![p].server = v.id]
                 /\ Goto(p, "attach")
              \/ Fault(p, ReleaseIfAllocated(p)) /\ UNCHANGED <<st, cur>>
        \/ Fault(p, ReleaseIfAllocated(p)) /\ UNCHANGED <<servers, nextId, st, cur>>
    BY <1>5 DEF CreateVirtualServer
  <2> HIDE DEF v
  <2>3. NsxtOK'
    BY <1>1, <1>5, <2>1, <2>2 DEF CreateVirtualServer, NsxtOK
  <2>4. st[p].servers \cup {v} \in SUBSET VirtualServer
    BY <1>4, <2>1
  <2>5. CASE /\ st' = [st EXCEPT ![p].servers = @ \cup {v}]
             /\ cur' = [cur EXCEPT ![p].server = v.id]
             /\ Goto(p, "attach")
    <3>1. st' = [st EXCEPT ![p].servers = st[p].servers \cup {v}]
      BY <1>1, <2>5 DEF LocalOK, State
    <3> QED BY <1>2, <1>3, <2>1, <2>3, <2>4, <2>5, <3>1, AddressKnownStep DEF MovesTo
  <2>6. CASE Fault(p, ReleaseIfAllocated(p)) /\ UNCHANGED <<st, cur>>
    BY <1>2, <1>3, <2>3, <2>6, AddressKnownStep DEF MovesTo
  <2> QED BY <2>2, <2>5, <2>6
<1>6. CASE Attach(p)
  <2>1. NsxtOK' /\ UNCHANGED <<st, cur>>
    BY <1>1, <1>4, <1>6 DEF Attach, NsxtOK
  <2>2. MovesTo(p, "ports") \/ MovesTo(p, "rollback")
    BY <1>6 DEF Attach, MovesTo
  <2> QED BY <1>2, <1>3, <2>1, <2>2, AddressKnownStep
<1>7. CASE Rollback(p)
  <2>1. Without(servers, cur[p].server) \in SUBSET VirtualServer
    BY <1>1, WithoutType DEF NsxtOK
  <2>2. NsxtOK' /\ UNCHANGED <<st, cur>>
    BY <1>1, <1>7, <2>1 DEF Rollback, NsxtOK
  <2>3. MovesTo(p, ReleaseIfAllocated(p))
    BY <1>7 DEF Rollback, MovesTo
  <2> QED BY <1>2, <1>3, <2>2, <2>3, AddressKnownStep
<1> QED BY <1>5, <1>6, <1>7

\* The clean-up
LEMMA CleanUpStep ==
  ASSUME Inv, NEW p \in Proc, CleanUp(p)
  PROVE  Inv'
<1>1. NsxtOK /\ LocalOK
  BY Facts
<1>2. UNCHANGED outside /\ pc[p] \in AfterMonitors \ {"finish"}
  BY DEF CleanUp, Detach, DeleteVirtualServer, NoOrphanServers, DeletePool, NoOrphanPools,
         DeleteTCPMonitor, NoOrphanTCPMonitors, AfterMonitors
<1>3. {"deleteServer", "orphanServers", "orphanPools", "orphanMonitors", "finish"} \subseteq Working
  BY DEF Working, AfterMonitors
<1>4. /\ st[p].servers \in SUBSET VirtualServer /\ st[p].pools \in SUBSET Pool
      /\ st[p].monitors \in SUBSET TCPMonitor
  BY FieldTypes DEF Inv
<1>5. CASE Detach(p)
  <2>1. PICK v \in {w \in st[p].servers : Orphaned(p, w)} :
          \/ /\ attached' = IF RouterGiven THEN attached \ {v.id} ELSE attached
             /\ \/ cur' = [cur EXCEPT ![p].server = v.id] /\ Goto(p, "deleteServer")
                \/ Fault(p, "finish") /\ UNCHANGED cur
          \/ Fault(p, "finish") /\ UNCHANGED <<attached, cur>>
    BY <1>5 DEF Detach
  <2>2. v.id \in Id
    BY <1>4 DEF VirtualServer
  <2>3. NsxtOK' /\ st' = st
    BY <1>1, <1>5, <2>1 DEF Detach, NsxtOK
  <2>4. CASE cur' = [cur EXCEPT ![p].server = v.id] /\ Goto(p, "deleteServer")
    BY <1>2, <1>3, <2>2, <2>3, <2>4, WorkingStep DEF MovesTo
  <2>5. CASE Fault(p, "finish") /\ UNCHANGED cur
    BY <1>2, <1>3, <2>3, <2>5, WorkingStep DEF MovesTo
  <2> QED BY <2>1, <2>4, <2>5
<1>6. CASE DeleteVirtualServer(p)
  <2>1. /\ Without(servers, cur[p].server) \in SUBSET VirtualServer
        /\ Without(st[p].servers, cur[p].server) \in SUBSET VirtualServer
    BY <1>1, <1>4, WithoutType DEF NsxtOK
  <2>2. NsxtOK' /\ cur' = cur
    BY <1>1, <1>6, <2>1 DEF DeleteVirtualServer, NsxtOK
  <2>3. CASE /\ st' = [st EXCEPT ![p].servers = Without(@, cur[p].server)]
             /\ Goto(p, "orphanServers")
    <3>1. st' = [st EXCEPT ![p].servers = Without(st[p].servers, cur[p].server)]
      BY <1>1, <2>3 DEF LocalOK, State
    <3> QED BY <1>2, <1>3, <2>1, <2>2, <2>3, <3>1, WorkingStep DEF MovesTo
  <2>4. CASE Fault(p, "finish") /\ UNCHANGED st
    BY <1>2, <1>3, <2>2, <2>4, WorkingStep DEF MovesTo
  <2> QED BY <1>6, <2>3, <2>4 DEF DeleteVirtualServer
<1>7. CASE DeletePool(p)
  <2>1. PICK l \in st[p].pools \ ValidPools(p) :
          \/ /\ pools' = Without(pools, l.id)
             /\ \/ /\ st' = [st EXCEPT ![p].pools = Without(@, l.id)]
                   /\ Goto(p, "orphanPools")
                \/ Fault(p, "finish") /\ UNCHANGED st
          \/ Fault(p, "finish") /\ UNCHANGED <<pools, st>>
    BY <1>7 DEF DeletePool
  <2>2. Without(pools, l.id) \in SUBSET Pool /\ Without(st[p].pools, l.id) \in SUBSET Pool
    BY <1>1, <1>4, WithoutType DEF NsxtOK
  <2>3. NsxtOK' /\ cur' = cur
    BY <1>1, <1>7, <2>1, <2>2 DEF DeletePool, NsxtOK
  <2>4. CASE st' = [st EXCEPT ![p].pools = Without(@, l.id)] /\ Goto(p, "orphanPools")
    <3>1. st' = [st EXCEPT ![p].pools = Without(st[p].pools, l.id)]
      BY <1>1, <2>4 DEF LocalOK, State
    <3> QED BY <1>2, <1>3, <2>2, <2>3, <2>4, <3>1, WorkingStep DEF MovesTo
  <2>5. CASE Fault(p, "finish") /\ UNCHANGED st
    BY <1>2, <1>3, <2>3, <2>5, WorkingStep DEF MovesTo
  <2> QED BY <2>1, <2>4, <2>5
<1>8. CASE DeleteTCPMonitor(p)
  <2>1. PICK m \in st[p].monitors \ ValidTCPMonitors(p) :
          \/ /\ monitors' = Without(monitors, m.id)
             /\ \/ /\ st' = [st EXCEPT ![p].monitors = Without(@, m.id)]
                   /\ Goto(p, "orphanMonitors")
                \/ Fault(p, "finish") /\ UNCHANGED st
          \/ Fault(p, "finish") /\ UNCHANGED <<monitors, st>>
    BY <1>8 DEF DeleteTCPMonitor
  <2>2. /\ Without(monitors, m.id) \in SUBSET TCPMonitor
        /\ Without(st[p].monitors, m.id) \in SUBSET TCPMonitor
    BY <1>1, <1>4, WithoutType DEF NsxtOK
  <2>3. NsxtOK' /\ cur' = cur
    BY <1>1, <1>8, <2>1, <2>2 DEF DeleteTCPMonitor, NsxtOK
  <2>4. CASE st' = [st EXCEPT ![p].monitors = Without(@, m.id)] /\ Goto(p, "orphanMonitors")
    <3>1. st' = [st EXCEPT ![p].monitors = Without(st[p].monitors, m.id)]
      BY <1>1, <2>4 DEF LocalOK, State
    <3> QED BY <1>2, <1>3, <2>2, <2>3, <2>4, <3>1, WorkingStep DEF MovesTo
  <2>5. CASE Fault(p, "finish") /\ UNCHANGED st
    BY <1>2, <1>3, <2>3, <2>5, WorkingStep DEF MovesTo
  <2> QED BY <2>1, <2>4, <2>5
<1>9. CASE NoOrphanServers(p) \/ NoOrphanPools(p) \/ NoOrphanTCPMonitors(p)
  <2>1. NsxtOK' /\ UNCHANGED <<st, cur>>
    BY <1>1, <1>9 DEF NoOrphanServers, NoOrphanPools, NoOrphanTCPMonitors, NsxtOK, nsxt
  <2>2. \E l \in {"orphanPools", "orphanMonitors", "finish"} : MovesTo(p, l)
    BY <1>9 DEF NoOrphanServers, NoOrphanPools, NoOrphanTCPMonitors, MovesTo
  <2> QED BY <1>2, <1>3, <2>1, <2>2, WorkingStep
<1> QED BY <1>5, <1>6, <1>7, <1>8, <1>9 DEF CleanUp

\* Finish and releaseResources
LEMMA FinishStep ==
  ASSUME Inv, NEW p \in Proc, Finish(p) \/ IsAllocated(p) \/ Release(p)
  PROVE  Inv'
<1>1. NsxtOK /\ LocalOK /\ ClassAt(pc[p], st[p], call[p].class)
  BY Facts
<1>2. UNCHANGED outside /\ pc[p] \in Inside /\ UNCHANGED <<st, cur>>
  BY DEF Finish, IsAllocated, Release, Inside, Label
<1>3. LocalOK'
  BY <1>1, <1>2 DEF LocalOK
<1>4. CASE Finish(p)
  <2>1. NsxtOK'
    BY <1>1, <1>4 DEF Finish, NsxtOK, nsxt
  <2>2. PICK l \in {"isAllocated", "unlock"} : Goto(p, l) /\ (l = "isAllocated" => st[p].ip # NoIP)
    BY <1>4 DEF Finish
  <2>3. ClassAt(l, st'[p], call[p].class)
    BY <1>1, <1>2, <1>4, <2>2 DEF ClassAt, Finish, AfterMonitors
  <2> QED BY <1>2, <1>3, <2>1, <2>2, <2>3, InsideKeepsInv DEF MovesTo, Inside, Label
<1>5. CASE IsAllocated(p)
  <2>1. NsxtOK' /\ pc[p] = "isAllocated"
    BY <1>1, <1>5 DEF IsAllocated, NsxtOK, nsxt
  <2>2. PICK l \in {"release", "unlock"} : MovesTo(p, l)
    BY <1>5 DEF IsAllocated, MovesTo
  <2>3. l \in Inside \ {"findServers", "findPools", "findMonitors"}
    BY DEF Inside, Label
  <2> QED BY <1>2, <2>1, <2>2, <2>3, AddressKnownStep
<1>6. CASE Release(p)
  <2>1. NsxtOK' /\ pc[p] = "release"
    BY <1>1, <1>6 DEF Release, ReleaseFromIPPool, NsxtOK
  <2>2. MovesTo(p, "unlock")
    BY <1>6 DEF Release, MovesTo
  <2>3. "unlock" \in Inside \ {"findServers", "findPools", "findMonitors"}
    BY DEF Inside, Label
  <2> QED BY <1>2, <2>1, <2>2, <2>3, AddressKnownStep
<1> QED BY <1>4, <1>5, <1>6

\* UpdatePoolMembers
LEMMA UpdateStep ==
  ASSUME Inv, NEW p \in Proc,
         UpdateFindPools(p) \/ UpdatePoolMembers(p) \/ UpdatePoolMembersDone(p)
  PROVE  Inv'
<1>1. NsxtOK /\ LocalOK
  BY Facts
<1>2. UNCHANGED outside /\ pc[p] \in Inside /\ cur' = cur
  BY DEF UpdateFindPools, UpdatePoolMembers, UpdatePoolMembersDone, Inside, Label
<1>3. st[p].pools \in SUBSET Pool /\ call[p].nodes \in SUBSET Node
  BY FieldTypes DEF Inv
<1>4. ASSUME NsxtOK', NEW l \in {"updatePools", "unlock"}, MovesTo(p, l),
             st' = st \/ \E X \in SUBSET Pool : st' = [st EXCEPT ![p].pools = X]
      PROVE  Inv'
  <2>1. LocalOK'
    BY <1>1, <1>2, <1>4, LocalAssigned
  <2>2. \A q \in Proc \ {p} : st'[q] = st[q]
    BY <1>1, <1>4 DEF LocalOK, State
  <2>3. ClassAt(l, st'[p], call[p].class)
    BY DEF ClassAt, AfterMonitors
  <2> QED BY <1>2, <1>4, <2>1, <2>2, <2>3, InsideKeepsInv DEF Inside, Label
<1>5. CASE UpdateFindPools(p)
  <2>1. NsxtOK'
    BY <1>1, <1>5 DEF UpdateFindPools, NsxtOK, nsxt
  <2>2. Of(pools, call[p].svc) \in SUBSET Pool
    BY <1>1, OfType DEF NsxtOK
  <2> QED BY <1>4, <1>5, <2>1, <2>2 DEF UpdateFindPools, MovesTo
<1>6. CASE UpdatePoolMembers(p)
  <2> DEFINE n(l) == [l EXCEPT !.members = call[p].nodes]
  <2>1. PICK l \in Outdated(p) :
          \/ /\ pools' = Replace(pools, n(l))
             /\ \/ /\ st' = [st EXCEPT ![p].pools = Replace(@, n(l))]
                   /\ Goto(p, "updatePools")
                \/ Fault(p, "unlock") /\ UNCHANGED st
          \/ Fault(p, "unlock") /\ UNCHANGED <<pools, st>>
    BY <1>6 DEF UpdatePoolMembers
  <2>2. n(l) \in Pool
    BY <1>3 DEF Outdated, Pool
  <2> HIDE DEF n
  <2>3. Replace(pools, n(l)) \in SUBSET Pool /\ Replace(st[p].pools, n(l)) \in SUBSET Pool
    BY <1>1, <1>3, <2>2, ReplaceType DEF NsxtOK
  <2>4. NsxtOK'
    BY <1>1, <1>6, <2>1, <2>3 DEF UpdatePoolMembers, NsxtOK
  <2>5. CASE st' = [st EXCEPT ![p].pools = Replace(@, n(l))] /\ Goto(p, "updatePools")
    <3>1. st' = [st EXCEPT ![p].pools = Replace(st[p].pools, n(l))]
      BY <1>1, <2>5 DEF LocalOK, State
    <3> QED BY <1>4, <2>3, <2>4, <2>5, <3>1 DEF MovesTo
  <2>6. CASE Fault(p, "unlock") /\ UNCHANGED st
    BY <1>4, <2>4, <2>6 DEF MovesTo
  <2> QED BY <2>1, <2>5, <2>6
<1>7. CASE UpdatePoolMembersDone(p)
  <2>1. NsxtOK' /\ st' = st /\ MovesTo(p, "unlock")
    BY <1>1, <1>7 DEF UpdatePoolMembersDone, NsxtOK, nsxt, MovesTo
  <2> QED BY <1>4, <2>1
<1> QED BY <1>5, <1>6, <1>7

-----------------------------------------------------------------------------
(***************************************************************************)
(* The key lock, the callers, users and crashes                            *)
(***************************************************************************)

\* Lock, and the check of the class
LEMMA LockStep ==
  ASSUME Inv, NEW p \in Proc, Lock(p)
  PROVE  Inv'
<1>1. TypeOK /\ CallInv /\ LockInv /\ ClassInv
  BY DEF Inv
<1>2. call[p].svc \in Svc /\ pc[p] = "lock"
  BY <1>1 DEF CallInv, Lock
<1>3. /\ holder[call[p].svc] = NoProc /\ holder' = [holder EXCEPT ![call[p].svc] = p]
      /\ call' = call /\ st' = st
  BY DEF Lock, KL!Acquire
<1>4. PICK l \in {"updateFind", "findServers", "unlock"} :
        pc' = [pc EXCEPT ![p] = l] /\ (l = "findServers" => call[p].class # NoPool)
  BY DEF Lock, InvalidClass, Goto, Error
<1>5. TypeOK'
  <2>1. NsxtOK' /\ LocalOK'
    BY <1>1, TypeParts DEF Lock, NsxtOK, LocalOK, nsxt
  <2>2. ControlOK'
    BY <1>1, <1>4 DEF TypeOK, ControlOK, Lock, Goto, Error, Label
  <2>3. OutsideOK'
    BY <1>1, <1>2, <1>3 DEF TypeOK, OutsideOK, Lock, k8s
  <2> QED BY <2>1, <2>2, <2>3 DEF TypeOK, NsxtOK, ControlOK, LocalOK, OutsideOK
<1>6. CallInv'
  BY <1>1, <1>2, <1>3, <1>4 DEF CallInv, TypeOK
<1>7. LockInv'
  BY <1>1, <1>2, <1>3, <1>4, NilAssumption DEF LockInv, CallInv, TypeOK
<1>8. ClassInv'
  BY <1>1, <1>2, <1>3, <1>4 DEF ClassInv, TypeOK, AfterMonitors
<1> QED BY <1>5, <1>6, <1>7, <1>8 DEF Inv

\* Unlock, and what the caller does with the result
LEMMA UnlockStep ==
  ASSUME Inv, NEW p \in Proc, Unlock(p)
  PROVE  Inv'
<1>1. TypeOK /\ CallInv /\ LockInv /\ ClassInv
  BY DEF Inv
<1>2. call[p].svc \in Svc /\ pc[p] = "unlock"
  BY <1>1 DEF CallInv, Unlock
<1>3. /\ holder[call[p].svc] = p /\ holder' = [holder EXCEPT ![call[p].svc] = NoProc]
      /\ pc' = [pc EXCEPT ![p] = "idle"] /\ call' = [call EXCEPT ![p] = NoCall]
      /\ st' = [st EXCEPT ![p] = NoState]
  BY DEF Unlock, KL!Release
<1>4. TypeOK'
  <2>1. NsxtOK' /\ LocalOK'
    BY <1>1, EmptyTypes DEF TypeOK, Unlock, NsxtOK, LocalOK, nsxt
  <2>2. ControlOK'
    BY <1>1 DEF TypeOK, ControlOK, Unlock, Label
  <2>3. status' \in [Svc -> IP \cup {NoIP}]
    <3>1. st[p].ip \in IP \cup {NoIP}
      BY <1>1, FieldTypes
    <3> QED BY <1>1, <3>1 DEF TypeOK, Unlock
  <2>4. phase' \in [Svc -> {"absent", "present", "deleting"}]
    BY <1>1 DEF TypeOK, Unlock
  <2>5. OutsideOK'
    BY <1>1, <1>3, <2>3, <2>4, EmptyTypes DEF TypeOK, OutsideOK, Unlock
  <2> QED BY <2>1, <2>2, <2>5 DEF TypeOK, NsxtOK, ControlOK, LocalOK, OutsideOK
<1>5. CallInv'
  BY <1>1, <1>2, <1>3 DEF CallInv, TypeOK
<1>6. LockInv'
  BY <1>1, <1>2, <1>3, NilAssumption DEF LockInv, CallInv, TypeOK
<1>7. ClassInv'
  BY <1>1, <1>2, <1>3 DEF ClassInv, TypeOK, AfterMonitors, NoState
<1> QED BY <1>4, <1>5, <1>6, <1>7 DEF Inv

\* A goroutine starts an operation.
LEMMA StartStep ==
  ASSUME Inv, NEW p \in Proc, NEW c \in Call, c.svc \in Svc, Start(p, c),
         UNCHANGED <<phase, status>>
  PROVE  Inv'
<1>1. TypeOK /\ CallInv /\ LockInv /\ ClassInv
  BY DEF Inv
<1>2. /\ pc[p] = "idle" /\ pc' = [pc EXCEPT ![p] = "lock"]
      /\ call' = [call EXCEPT ![p] = c] /\ holder' = holder /\ st' = st
  BY DEF Start
<1>3. TypeOK'
  BY <1>1, <1>2 DEF TypeOK, Start, nsxt, Label
<1>4. CallInv'
  BY <1>1, <1>2 DEF CallInv, TypeOK
<1>5. LockInv'
  BY <1>1, <1>2, NilAssumption DEF LockInv, CallInv, TypeOK
<1>6. ClassInv'
  BY <1>1, <1>2 DEF ClassInv, TypeOK, AfterMonitors
<1> QED BY <1>3, <1>4, <1>5, <1>6 DEF Inv

\* The calls of the service controller
LEMMA ControllerStep ==
  ASSUME Inv, Controller
  PROVE  Inv'
<1>1. TypeOK /\ CallInv /\ LockInv /\ ClassInv
  BY DEF Inv
<1>2. ASSUME NEW s \in Svc, NEW o \in Op PROVE NewCall(o, s) \in Call /\ NewCall(o, s).svc \in Svc
  <2>1. spec[s] \in ServiceSpec /\ nodes \in SUBSET Node /\ status[s] \in IP \cup {NoIP}
    BY <1>1 DEF TypeOK
  <2> QED BY <2>1 DEF NewCall, Call, ServiceSpec
<1>3. PICK s \in Svc :
        \/ \E p \in Worker : CallEnsure(p, s) \/ CallUpdate(p, s) \/ CallDelete(p, s)
        \/ GetLoadBalancerFindsNone(s)
  BY DEF Controller
<1>4. CASE \E p \in Worker : CallEnsure(p, s) \/ CallUpdate(p, s) \/ CallDelete(p, s)
  <2>1. PICK p \in Worker : CallEnsure(p, s) \/ CallUpdate(p, s) \/ CallDelete(p, s)
    BY <1>4
  <2>2. PICK o \in Op : Start(p, NewCall(o, s)) /\ UNCHANGED <<phase, status>>
    BY <2>1 DEF CallEnsure, CallUpdate, CallDelete, Op
  <2>3. p \in Proc
    BY WorkerAssumption
  <2> QED BY <1>2, <2>2, <2>3, StartStep
<1>5. CASE GetLoadBalancerFindsNone(s)
  <2>1. TypeOK'
    BY <1>1, <1>5 DEF TypeOK, GetLoadBalancerFindsNone, nsxt
  <2> QED BY <1>1, <1>5, <2>1 DEF Inv, CallInv, LockInv, ClassInv, GetLoadBalancerFindsNone
<1> QED BY <1>3, <1>4, <1>5

\* Changes of services and nodes
LEMMA UserStep ==
  ASSUME Inv, User
  PROVE  Inv'
<1>1. TypeOK /\ CallInv /\ LockInv /\ ClassInv
  BY DEF Inv
<1>2. TypeOK'
  <2>1. NsxtOK' /\ ControlOK' /\ LocalOK'
    BY <1>1, TypeParts
       DEF User, SetService, DeleteService, SetNodes, NsxtOK, ControlOK, LocalOK, nsxt
  <2>2. OutsideOK'
    <3>1. CASE \E s \in Svc, c \in Spec0 : SetService(s, c)
      BY <1>1, <3>1, Spec0Assumption, BoundsAssumption DEF TypeOK, OutsideOK, SetService
    <3>2. CASE \E s \in Svc : DeleteService(s)
      BY <1>1, <3>2 DEF TypeOK, OutsideOK, DeleteService
    <3>3. CASE \E n \in SUBSET Node : SetNodes(n)
      BY <1>1, <3>3, BoundsAssumption DEF TypeOK, OutsideOK, SetNodes
    <3> QED BY <3>1, <3>2, <3>3 DEF User
  <2> QED BY <2>1, <2>2 DEF TypeOK, NsxtOK, ControlOK, LocalOK, OutsideOK
<1>3. UNCHANGED <<holder, pc, call, st>>
  BY DEF User, SetService, DeleteService, SetNodes
<1> QED BY <1>1, <1>2, <1>3 DEF Inv, CallInv, LockInv, ClassInv

\* A crash
LEMMA CrashStep ==
  ASSUME Inv, Crash
  PROVE  Inv'
<1>1. TypeOK'
  <2>1. NsxtOK' /\ LocalOK'
    BY EmptyTypes, TypeParts DEF Inv, Crash, NsxtOK, LocalOK, nsxt
  <2>2. ControlOK' /\ OutsideOK'
    BY EmptyTypes, TypeParts, BoundsAssumption
       DEF Inv, Crash, ControlOK, OutsideOK, k8s, Label
  <2> QED BY <2>1, <2>2 DEF TypeOK, NsxtOK, ControlOK, LocalOK, OutsideOK
<1>2. CallInv' /\ LockInv' /\ ClassInv'
  BY DEF Crash, CallInv, LockInv, ClassInv, AfterMonitors, NoState
<1> QED BY <1>1, <1>2 DEF Inv

-----------------------------------------------------------------------------
(***************************************************************************)
(* The theorems                                                            *)
(***************************************************************************)

LEMMA InitInv == Init => Inv
<1> SUFFICES ASSUME Init PROVE Inv
  OBVIOUS
<1>1. TypeOK
  BY EmptyTypes, BoundsAssumption DEF Init, TypeOK, Id, NoId, Label
<1>2. CallInv /\ LockInv /\ ClassInv
  BY DEF Init, CallInv, LockInv, ClassInv, AfterMonitors, NoState
<1> QED BY <1>1, <1>2 DEF Inv

\* The invariant is inductive: every step of the provider and of its callers preserves it.
LEMMA NextInv == Inv /\ [Next]_vars => Inv'
<1> SUFFICES ASSUME Inv, [Next]_vars PROVE Inv'
  OBVIOUS
<1>1. ASSUME NEW p \in Proc, Step(p) PROVE Inv'
  BY <1>1, LockStep, FindServersStep, FindPoolsStep, FindMonitorsStep, NextPortStep,
     GetTCPMonitorStep, GetPoolStep, ExistingServerStep, AddressStep, NewServerStep,
     CleanUpStep, FinishStep, UpdateStep, UnlockStep
     DEF Step, GetVirtualServer
<1>2. CASE Controller
  BY <1>2, ControllerStep
<1>3. CASE User
  BY <1>3, UserStep
<1>4. CASE Crash
  BY <1>4, CrashStep
<1>5. CASE UNCHANGED vars
  <2>1. TypeOK'
    BY <1>5 DEF Inv, TypeOK, vars, nsxt, k8s
  <2>2. CallInv' /\ LockInv' /\ ClassInv'
    BY <1>5 DEF Inv, CallInv, LockInv, ClassInv, vars
  <2> QED BY <2>1, <2>2 DEF Inv
<1> QED BY <1>1, <1>2, <1>3, <1>4, <1>5 DEF Next

(***************************************************************************)
(* The inductive invariant holds in every behaviour.                       *)
(***************************************************************************)
THEOREM LoadBalancerInvariant == Spec => []Inv
BY InitInv, NextInv, PTL DEF Spec

(***************************************************************************)
(* Every variable always has a value of its type; above all no virtual     *)
(* server is created without an address, a class or a pool.                *)
(***************************************************************************)
THEOREM LoadBalancerTypeOK == Spec => []TypeOK
<1>1. Inv => TypeOK
  BY DEF Inv
<1> QED BY <1>1, LoadBalancerInvariant, PTL

(***************************************************************************)
(* releaseResources and allocateResources never find a class that is nil,  *)
(* also when Process has returned early and Finish runs all the same.      *)
(***************************************************************************)
THEOREM LoadBalancerClassIsSet == Spec => []ClassIsSet
<1>1. Inv => ClassIsSet
  BY DEF Inv, ClassInv, ClassIsSet, AfterMonitors
<1> QED BY <1>1, LoadBalancerInvariant, PTL

(***************************************************************************)
(* EnsureLoadBalancer, EnsureLoadBalancerDeleted and UpdateLoadBalancer    *)
(* work on a service one at a time.                                        *)
(***************************************************************************)
THEOREM LoadBalancerOneAtATime ==
  Spec => [](\A p, q \in Proc :
               pc[p] \in Inside /\ pc[q] \in Inside /\ call[p].svc = call[q].svc => p = q)
<1>1. Inv => \A p, q \in Proc :
               pc[p] \in Inside /\ pc[q] \in Inside /\ call[p].svc = call[q].svc => p = q
  BY DEF Inv, LockInv, Inside
<1> QED BY <1>1, LoadBalancerInvariant, PTL
=============================================================================
