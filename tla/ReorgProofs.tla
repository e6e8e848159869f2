---------------------------- MODULE ReorgProofs -----------------------------
(***************************************************************************)
(* Proofs about Reorg: the collector of reorg.go does not disturb what     *)
(* LoadBalancerProofs and ReconcileProofs show of the provider's           *)
(* operations.  EnsureLoadBalancerDeleted is called for services that      *)
(* users create, change and delete meanwhile, with arguments of its own,   *)
(* and while workers wait for the key of the same service; Inv and Good    *)
(* hold all the same.  ReorgInv adds that what a pass has noted are        *)
(* services, so that the collector calls for nothing else.                 *)
(***************************************************************************)
EXTENDS Reorg, ReconcileProofs

ReorgInv == ReorgTypeOK /\ Inv /\ Good

-----------------------------------------------------------------------------
(***************************************************************************)
(* Steps                                                                   *)
(***************************************************************************)

\* The objects listed are tagged with services.
LEMMA TaggedType ==
  ASSUME TypeOK
  PROVE  /\ Tagged(servers) \subseteq Svc
         /\ Tagged(pools) \subseteq Svc
         /\ Tagged(monitors) \subseteq Svc
BY DEF TypeOK, Tagged, VirtualServer, Pool, TCPMonitor

\* A step of the provider or of its callers, as in LoadBalancer.
LEMMA ProviderStep ==
  ASSUME Inv, Good, [Next]_vars
  PROVE  Inv' /\ Good'
BY NextInv, NextGood

\* Only phase, status, changes and faults are touched.
LEMMA NoGoroutineStep ==
  ASSUME Inv, Good, TypeOK', UNCHANGED <<nsxt, holder, pc, call, st, cur, err>>
  PROVE  Inv' /\ Good'
<1>1. Inv'
  BY DEF Inv, CallInv, LockInv, ClassInv
<1>2. Good'
  BY GoodUnchanged DEF nsxt
<1> QED
  BY <1>1, <1>2

\* A pass fails: no goroutine is affected.
LEMMA ReorgFaultStep ==
  ASSUME ReorgInv, ReorgFault
  PROVE  ReorgInv'
<1>1. TypeOK'
  BY BoundsAssumption DEF ReorgInv, ReorgTypeOK, ReorgFault, TypeOK, nsxt, k8s
<1>2. Inv' /\ Good'
  BY <1>1, NoGoroutineStep DEF ReorgInv, ReorgFault
<1> QED
  BY <1>1, <1>2 DEF ReorgInv, ReorgTypeOK, ReorgFault, EndPass

\* What a pass reads, while nothing else happens.
LEMMA ReadStep ==
  ASSUME ReorgInv, UNCHANGED vars,
         step' \in {"timer", "servers", "pools", "monitors", "collect", "wait"},
         known' \in SUBSET Svc, found' \in SUBSET Svc
  PROVE  ReorgInv'
<1>1. Inv' /\ Good'
  BY ProviderStep DEF ReorgInv
<1> QED
  BY <1>1 DEF ReorgInv, ReorgTypeOK, Inv

\* The arguments that reorg passes are those of a call.
LEMMA CollectCallType ==
  ASSUME TypeOK, NEW s \in Svc
  PROVE  CollectCall(s) \in Call /\ CollectCall(s).svc \in Svc
<1> DEFINE c == NewCall("collect", s)
           d == [c EXCEPT !.class = DefaultClass]
<1>1. spec[s] \in ServiceSpec /\ status[s] \in IP \cup {NoIP} /\ DefaultClass \in IPPool
  BY CollectorAssumption DEF TypeOK
<1>2. c \in Call /\ c.svc = s
  BY <1>1 DEF NewCall, Call, Op, ServiceSpec
<1> HIDE DEF c
<1>3. d \in Call /\ d.svc = s
  BY <1>1, <1>2 DEF Call
<1>4. CollectCall(s) = [d EXCEPT !.status = NoIP]
  BY DEF CollectCall, c
<1> HIDE DEF d
<1> QED
  BY <1>3, <1>4 DEF Call

\* A pass of the collector
LEMMA PassStep ==
  ASSUME ReorgInv, Pass
  PROVE  ReorgInv'
<1>1. ReorgTypeOK /\ TypeOK /\ Inv /\ Good /\ Collector \in Proc
  BY CollectorAssumption DEF ReorgInv, ReorgTypeOK
<1>2. CASE ListServices
  <2>1. CASE ReorgFault
    BY <2>1, ReorgFaultStep
  <2>2. CASE ~ReorgFault
    BY <1>1, <1>2, <2>2, ReadStep DEF ListServices, ReorgTypeOK
  <2> QED BY <2>1, <2>2
<1>3. ASSUME NEW a, NEW S, NEW b \in {"pools", "monitors", "collect"}, ListObjects(a, S, b),
             Tagged(S) \subseteq Svc
      PROVE  ReorgInv'
  <2>1. CASE ReorgFault
    BY <2>1, ReorgFaultStep
  <2>2. CASE ~ReorgFault
    <3>1. /\ found' = found \cup Tagged(S) /\ step' = b /\ UNCHANGED <<vars, known>>
      BY <1>3, <2>2 DEF ListObjects
    <3> QED BY <1>1, <1>3, <3>1, ReadStep DEF ReorgTypeOK
  <2> QED BY <2>1, <2>2
<1>4. CASE ListVirtualServers \/ ListPools \/ ListTCPMonitors
  BY <1>1, <1>3, <1>4, TaggedType DEF ListVirtualServers, ListPools, ListTCPMonitors
<1>5. CASE Collect
  <2>1. PICK s \in found \ known : Start(Collector, CollectCall(s)) /\ found' = found \ {s}
    BY <1>5 DEF Collect
  <2>2. CollectCall(s) \in Call /\ CollectCall(s).svc \in Svc
    BY <1>1, <2>1, CollectCallType DEF ReorgTypeOK
  <2>3. Inv' /\ Good'
    BY <1>1, <1>5, <2>1, <2>2, StartStep, StartGood DEF Collect
  <2> QED BY <1>1, <1>5, <2>1, <2>3 DEF ReorgInv, ReorgTypeOK, Inv, Collect
<1>6. CASE CollectReturns
  <2>1. Inv' /\ Good'
    BY <1>1, <1>6, ProviderStep DEF CollectReturns, Next, Step
  <2> QED BY <1>1, <1>6, <2>1 DEF ReorgInv, ReorgTypeOK, Inv, CollectReturns, EndPass
<1>7. CASE PassDone
  BY <1>7, ReadStep DEF PassDone, EndPass
<1> QED
  BY <1>2, <1>4, <1>5, <1>6, <1>7 DEF Pass

\* A service is deleted by force while its objects, and calls for it, are still there.
LEMMA ForceDeleteStep ==
  ASSUME ReorgInv, NEW s \in Svc, ForceDelete(s)
  PROVE  ReorgInv'
<1>1. TypeOK'
  BY BoundsAssumption DEF ReorgInv, ReorgTypeOK, ForceDelete, TypeOK, nsxt
<1>2. Inv' /\ Good'
  BY <1>1, NoGoroutineStep DEF ReorgInv, ForceDelete
<1> QED
  BY <1>1, <1>2 DEF ReorgInv, ReorgTypeOK, ForceDelete, reorgVars

-----------------------------------------------------------------------------
(***************************************************************************)
(* The theorems                                                            *)
(***************************************************************************)

LEMMA ReorgInitInv == ReorgInit => ReorgInv
BY InitInv, InitGood DEF ReorgInit, ReorgInv, ReorgTypeOK, Inv

\* Every step preserves the invariant.
LEMMA ReorgNextInv == ReorgInv /\ [ReorgNext]_allVars => ReorgInv'
<1> SUFFICES ASSUME ReorgInv, [ReorgNext]_allVars PROVE ReorgInv'
  OBVIOUS
<1>1. ReorgTypeOK /\ Inv /\ Good /\ Collector \in Proc /\ Worker \subseteq Proc
  BY CollectorAssumption, WorkerAssumption DEF ReorgInv
<1>2. CASE Pass
  BY <1>2, PassStep
<1>3. CASE [Next]_vars /\ UNCHANGED reorgVars
  <2>1. Inv' /\ Good'
    BY <1>1, <1>3, ProviderStep
  <2> QED BY <1>1, <1>3, <2>1 DEF ReorgInv, ReorgTypeOK, Inv, reorgVars
<1>4. CASE \E s \in Svc : ForceDelete(s)
  BY <1>4, ForceDeleteStep
<1>5. CASE Crash /\ EndPass
  <2>1. Inv' /\ Good'
    BY <1>1, <1>5, ProviderStep DEF Next
  <2> QED BY <1>5, <2>1 DEF ReorgInv, ReorgTypeOK, Inv, EndPass
<1>6. CASE Others /\ UNCHANGED reorgVars
  <2>1. Next
    BY <1>6 DEF Others, Next, Controller, User
  <2> QED BY <1>3, <1>6, <2>1
<1>7. CASE (\E p \in Proc : Step(p)) /\ UNCHANGED reorgVars
  BY <1>3, <1>7 DEF Next
<1>8. CASE UNCHANGED allVars
  BY <1>3, <1>8 DEF allVars
<1> QED
  BY <1>1, <1>2, <1>4, <1>5, <1>6, <1>7, <1>8 DEF ReorgNext, Reorganise

(***************************************************************************)
(* The invariants of the provider's operations hold next to the collector. *)
(***************************************************************************)
THEOREM ReorgInvariant == ReorgSpec => []ReorgInv
BY ReorgInitInv, ReorgNextInv, PTL DEF ReorgSpec

(***************************************************************************)
(* The variables of a pass and of the provider have values of their types: *)
(* the collector calls EnsureLoadBalancerDeleted for services only, and    *)
(* with a class that is configured.                                        *)
(***************************************************************************)
THEOREM ReorgTypesOK == ReorgSpec => []ReorgTypeOK
<1>1. ReorgInv => ReorgTypeOK
  BY DEF ReorgInv
<1> QED BY <1>1, ReorgInvariant, PTL

(***************************************************************************)
(* The lists read by Process stay current while the collector runs.        *)
(***************************************************************************)
THEOREM ReorgSnapshotCoherent == ReorgSpec => []SnapshotCoherent
<1>1. ReorgInv => SnapshotCoherent
  BY GoodIsCoherent DEF ReorgInv
<1> QED BY <1>1, ReorgInvariant, PTL

(***************************************************************************)
(* The collector leaves no virtual server without its pool, and no pool    *)
(* without its monitor.                                                    *)
(***************************************************************************)
THEOREM ReorgRefIntegrity == ReorgSpec => []RefIntegrity
<1>1. ReorgInv => RefIntegrity
  BY GoodHasRefs DEF ReorgInv
<1> QED BY <1>1, ReorgInvariant, PTL

(***************************************************************************)
(* What an operation reports to have achieved is there when it returns,    *)
(* the collector running or not: a collection that succeeds has deleted    *)
(* all the service had in NSX-T, and it does not delete what a concurrent  *)
(* EnsureLoadBalancer has created before that one returns.                 *)
(***************************************************************************)
THEOREM ReorgOkMeansExact == ReorgSpec => []OkMeansExact
<1>1. ReorgInv => OkMeansExact
  BY GoodIsExact DEF ReorgInv
<1> QED BY <1>1, ReorgInvariant, PTL

\* A collection deletes the virtual servers of a service, and gives none another address.
LEMMA ReorgAddressesStay ==
  ASSUME ReorgInv, [ReorgNext]_allVars
  PROVE  \A v \in servers, w \in servers' : v.svc = w.svc => v.ip = w.ip
<1>1. Inv /\ Good /\ Collector \in Proc /\ Worker \subseteq Proc
  BY CollectorAssumption, WorkerAssumption DEF ReorgInv
<1>2. CASE [Next]_vars
  BY <1>1, <1>2, AddressesStay
<1>3. CASE servers' = servers
  BY <1>1, <1>3, OneAddress
<1>4. CASE Pass
  <2>1. CASE CollectReturns
    BY <1>1, <1>2, <2>1 DEF CollectReturns, Next, Step
  <2>2. CASE ~CollectReturns
    <3>1. servers' = servers
      BY <1>4, <2>2 DEF Pass, ListServices, ListVirtualServers, ListPools, ListTCPMonitors,
         ListObjects, ReorgFault, Collect, Start, PassDone, vars, nsxt
    <3> QED BY <1>3, <3>1
  <2> QED BY <2>1, <2>2
<1>5. CASE \E s \in Svc : ForceDelete(s)
  BY <1>3, <1>5 DEF ForceDelete, nsxt
<1>6. CASE (\E p \in Proc : Step(p)) \/ Others \/ Crash
  BY <1>2, <1>6 DEF Next, Others, Controller, User
<1>7. CASE UNCHANGED allVars
  BY <1>2, <1>7 DEF allVars
<1> QED
  BY <1>1, <1>4, <1>5, <1>6, <1>7 DEF ReorgNext, Reorganise

(***************************************************************************)
(* A service keeps its address while it has a virtual server, the          *)
(* collector deleting some of them at the same time or not.                *)
(***************************************************************************)
THEOREM ReorgAddressStable == ReorgSpec => AddressStable
<1>1. ReorgInv /\ [ReorgNext]_allVars =>
        [\A v \in servers, w \in servers' : v.svc = w.svc => v.ip = w.ip]_vars
  BY ReorgAddressesStay
<1> QED BY <1>1, ReorgInvariant, PTL DEF ReorgSpec, AddressStable
=============================================================================
