----------------------------- MODULE LbService ------------------------------
(***************************************************************************)
(* The load balancer service of pkg/loadbalancer/lbservice.go.  Goroutines *)
(* that have created a virtual server attach it to the load balancer       *)
(* service, and detach it before they delete it.  Both operations read the *)
(* service, change the list of virtual servers in the copy, and write the  *)
(* copy back (or create or delete the service), each a call to NSX-T that  *)
(* may fail or whose answer may get lost.  lbLock is held throughout.      *)
(*                                                                         *)
(* In unmanaged mode (an id is configured) only the configured service is    *)
(* used.  In managed mode the service is created for the first virtual     *)
(* server and deleted with the last one.                                   *)
(***************************************************************************)
EXTENDS Naturals, FiniteSets

CONSTANTS
  Proc,             \* the goroutines
  NoProc,           \* "unlocked"
  Server,           \* virtual servers this controller creates
  Foreign,          \* virtual servers somebody else attached to a service
  LbID,             \* identifiers of load balancer services
  NoLb,             \* the empty identifier
  Mode,             \* the configurations, and what exists in NSX-T beforehand
  MaxFaults,        \* bound: API calls that fail or whose answer is lost
  MaxRestarts       \* bound: restarts of the controller

ASSUME NoProcAssumption == NoProc \notin Proc
ASSUME NoLbAssumption == NoLb \notin LbID
ASSUME ServerAssumption == Server \cap Foreign = {} /\ Server # {}
ASSUME BoundsAssumption == MaxFaults \in Nat /\ MaxRestarts \in Nat

(***************************************************************************)
(* id: LBServiceID, NoLb if not given.  router: LogicalRouterID is given.  *)
(* preset: services that exist before the controller starts.  onRouter:    *)
(* those of them that are attached to the configured router.               *)
(***************************************************************************)
ASSUME ModeAssumption ==
  \A m \in Mode :
    /\ m.preset \subseteq LbID /\ m.onRouter \subseteq m.preset
    /\ m.router \in BOOLEAN /\ m.id \in m.preset \cup {NoLb}
    /\ m.id = NoLb => m.router
    /\ ~m.router => m.onRouter = {}

VARIABLES
  mode,         \* how the controller is configured
  lbs,          \* NSX-T: the load balancer services that exist
  attached,     \* NSX-T: for each service its VirtualServerIds
  used,         \* NSX-T: identifiers already given to a service
  lbServiceID,  \* s.lbServiceID
  lbLock,       \* s.lbLock: the goroutine that holds it, or NoProc
  pc, op, srv,  \* per goroutine: where it is, in which operation, for which server
  item,         \* the local copy of the load balancer service
  result,       \* "ok", "fault" (an API call failed) or "error" (any other error)
  stage,        \* what the callers know of each virtual server
  faults, restarts

nsxt == <<lbs, attached, used>>
vars == <<mode, nsxt, lbServiceID, lbLock, pc, op, srv, item, result, stage,
          faults, restarts>>

\* newLbService: managed: lbServiceID == ""
Managed == mode.id = NoLb

Copy == [id : LbID \cup {NoLb}, servers : SUBSET (Server \cup Foreign)]
NoCopy == [id |-> NoLb, servers |-> {}]

(***************************************************************************)
(* Every variable has a value of its Go type.                              *)
(***************************************************************************)
TypeOK ==
  /\ mode \in Mode
  /\ lbs \in SUBSET LbID
  /\ attached \in [LbID -> SUBSET (Server \cup Foreign)]
  /\ used \in SUBSET LbID
  /\ lbServiceID \in LbID \cup {NoLb}
  /\ lbLock \in Proc \cup {NoProc}
  /\ pc \in [Proc -> {"idle", "lock", "find", "create", "update", "delete", "return"}]
  /\ op \in [Proc -> {"add", "remove"}]
  /\ srv \in [Proc -> Server]
  /\ item \in [Proc -> Copy]
  /\ result \in [Proc -> {"ok", "fault", "error"}]
  /\ stage \in [Server -> {"new", "busy", "added", "removed", "unknown"}]
  /\ faults \in 0 .. MaxFaults /\ restarts \in 0 .. MaxRestarts

Init ==
  /\ mode \in Mode
  /\ lbs = mode.preset
  /\ attached \in {a \in [LbID -> SUBSET Foreign] : \A l \in LbID \ mode.preset : a[l] = {}}
  /\ used = mode.preset
  /\ lbServiceID = mode.id
  /\ lbLock = NoProc
  /\ pc = [p \in Proc |-> "idle"]
  /\ op = [p \in Proc |-> "add"]
  /\ srv = [p \in Proc |-> CHOOSE s \in Server : TRUE]
  /\ item = [p \in Proc |-> NoCopy]
  /\ result = [p \in Proc |-> "ok"]
  /\ stage = [s \in Server |-> "new"]
  /\ faults = 0 /\ restarts = 0

-----------------------------------------------------------------------------
(***************************************************************************)
(* Services that the filter of findLoadBalancerService accepts: those on   *)
(* the configured router, and those that carry the tags of this controller *)
(* and cluster, which are the ones it created.                             *)
(***************************************************************************)
Visible(l) == l \in mode.onRouter \/ l \notin mode.preset

(***************************************************************************)
(* FindLoadBalancerService: the service with the known id, or, if none is  *)
(* known, the first of those listed that the filter accepts.  Reading an   *)
(* id that does not exist, or a service on another router, is an error.    *)
(***************************************************************************)
FindLoadBalancerService ==
  {l \in lbs : IF lbServiceID = NoLb THEN Visible(l)
               ELSE l = lbServiceID /\ (mode.router => Visible(l))}

FindLoadBalancerServiceForVirtualServer(s) == {l \in lbs : Visible(l) /\ s \in attached[l]}

Goto(p, label) == pc' = [pc EXCEPT ![p] = label]

\* The call returns with result r as soon as the deferred Unlock has run.
Return(p, r) == Goto(p, "return") /\ result' = [result EXCEPT ![p] = r]

\* An API call fails, or its answer is lost: the code sees an error.
Fault(p) ==
  /\ faults < MaxFaults
  /\ faults' = faults + 1
  /\ Return(p, "fault")

\* The answer of the last API call of an operation arrives, or is lost.
Answer(p) == (Return(p, "ok") /\ UNCHANGED faults) \/ Fault(p)

local == <<mode, op, srv, stage, restarts>>

(***************************************************************************)
(* A virtual server is attached once, when it is new.  Detaching may be    *)
(* repeated, after an error or when the later deletion of the virtual      *)
(* server failed.  The service lock keeps two goroutines from working on   *)
(* one virtual server.                                                     *)
(***************************************************************************)
Call(p, o, s) ==
  /\ pc[p] = "idle"
  /\ stage[s] \in (IF o = "add" THEN {"new"} ELSE {"added", "removed", "unknown"})
  /\ Goto(p, "lock")
  /\ op' = [op EXCEPT ![p] = o]
  /\ srv' = [srv EXCEPT ![p] = s]
  /\ stage' = [stage EXCEPT ![s] = "busy"]
  /\ UNCHANGED <<mode, nsxt, lbServiceID, lbLock, item, result, faults, restarts>>

\* Mutant of Lock: s.lbLock.Lock() is missing.
LockMissing(p) ==
  /\ pc[p] = "lock"
  /\ lbLock' = p
  /\ Goto(p, "find")
  /\ UNCHANGED <<nsxt, lbServiceID, item, result, faults, local>>

\* s.lbLock.Lock()
Lock(p) ==
  /\ pc[p] = "lock"
  /\ lbLock = NoProc
  /\ lbLock' = p
  /\ Goto(p, "find")
  /\ UNCHANGED <<nsxt, lbServiceID, item, result, faults, local>>

\* Mutant of FindForAdd: no list, only an id that is known is looked up.
FindById(p) ==
  /\ pc[p] = "find" /\ op[p] = "add"
  /\ IF lbServiceID \in lbs
     THEN /\ item' = [item EXCEPT ![p] = [id |-> lbServiceID, servers |-> attached[lbServiceID]]]
          /\ Goto(p, "update")
     ELSE Goto(p, "create") /\ UNCHANGED item
  /\ UNCHANGED <<nsxt, lbServiceID, lbLock, result, faults, local>>

\* Mutant of FindForAdd: the result is used without the test for nil.
FindWithoutNilCheck(p) ==
  /\ pc[p] = "find" /\ op[p] = "add"
  /\ item' = [item EXCEPT ![p] =
       IF lbServiceID \in lbs THEN [id |-> lbServiceID, servers |-> attached[lbServiceID]]
                              ELSE NoLb]
  /\ Goto(p, "update")
  /\ UNCHANGED <<nsxt, lbServiceID, lbLock, result, faults, local>>

\* An existing service is used; without one the service is created.
FindForAdd(p) ==
  /\ pc[p] = "find" /\ op[p] = "add"
  /\ \/ \E l \in FindLoadBalancerService :
          /\ item' = [item EXCEPT ![p] = [id |-> l, servers |-> attached[l]]]
          /\ Goto(p, "update")
          /\ UNCHANGED <<result, faults>>
     \/ /\ FindLoadBalancerService = {} /\ lbServiceID # NoLb
        /\ Return(p, "error")
        /\ UNCHANGED <<item, faults>>
     \/ /\ FindLoadBalancerService = {} /\ lbServiceID = NoLb
        /\ Goto(p, "create")
        /\ UNCHANGED <<item, result, faults>>
     \/ Fault(p) /\ UNCHANGED item
  /\ UNCHANGED <<nsxt, lbServiceID, lbLock, local>>

\* CreateLoadBalancerService; its id is remembered only if the answer arrives.
CreateLb(p) ==
  /\ pc[p] = "create"
  /\ \/ \E l \in LbID \ used :
          /\ lbs' = lbs \cup {l} /\ used' = used \cup {l}
          /\ \/ /\ lbServiceID' = l
                /\ item' = [item EXCEPT ![p] = [id |-> l, servers |-> {}]]
                /\ Goto(p, "update")
                /\ UNCHANGED <<result, faults>>
             \/ Fault(p) /\ UNCHANGED <<lbServiceID, item>>
     \/ Fault(p) /\ UNCHANGED <<lbs, used, lbServiceID, item>>
  /\ UNCHANGED <<attached, lbLock, local>>

\* append(lbService.VirtualServerIds, serverID) and UpdateLoadBalancerService.
\* Under lbLock the service that was found or created still exists.
UpdateForAdd(p) ==
  /\ pc[p] = "update" /\ op[p] = "add"
  /\ \/ /\ item[p].id \in lbs
        /\ attached' = [attached EXCEPT ![item[p].id] = item[p].servers \cup {srv[p]}]
        /\ Answer(p)
     \/ Fault(p) /\ UNCHANGED attached
  /\ UNCHANGED <<lbs, used, lbServiceID, lbLock, item, local>>

\* Mutant of FindForRemove: the virtual servers of others do not count.
RemoveIgnoresForeign(p) ==
  /\ pc[p] = "find" /\ op[p] = "remove"
  /\ \E l \in FindLoadBalancerServiceForVirtualServer(srv[p]) :
       LET rest == attached[l] \ {srv[p]} IN
       /\ item' = [item EXCEPT ![p] = [id |-> l, servers |-> rest]]
       /\ Goto(p, IF Managed /\ rest \subseteq Foreign THEN "delete" ELSE "update")
  /\ UNCHANGED <<nsxt, lbServiceID, lbLock, result, faults, local>>

(***************************************************************************)
(* Without a service that has the virtual server there is nothing to do.   *)
(* The server is removed from the copy; in managed mode a service that is  *)
(* empty then is deleted, otherwise it is written back.                    *)
(***************************************************************************)
FindForRemove(p) ==
  /\ pc[p] = "find" /\ op[p] = "remove"
  /\ \/ \E l \in FindLoadBalancerServiceForVirtualServer(srv[p]) :
          LET rest == attached[l] \ {srv[p]} IN
          /\ item' = [item EXCEPT ![p] = [id |-> l, servers |-> rest]]
          /\ Goto(p, IF Managed /\ rest = {} THEN "delete" ELSE "update")
          /\ UNCHANGED <<result, faults>>
     \/ /\ FindLoadBalancerServiceForVirtualServer(srv[p]) = {}
        /\ Return(p, "ok")
        /\ UNCHANGED <<item, faults>>
     \/ Fault(p) /\ UNCHANGED item
  /\ UNCHANGED <<nsxt, lbServiceID, lbLock, local>>

\* UpdateLoadBalancerService writes the copy back.
UpdateForRemove(p) ==
  /\ pc[p] = "update" /\ op[p] = "remove"
  /\ \/ /\ item[p].id \in lbs
        /\ attached' = [attached EXCEPT ![item[p].id] = item[p].servers]
        /\ Answer(p)
     \/ Fault(p) /\ UNCHANGED attached
  /\ UNCHANGED <<lbs, used, lbServiceID, lbLock, item, local>>

\* Mutant of DeleteLb: the service is emptied, but not deleted.
DeleteKeepsEmpty(p) ==
  /\ pc[p] = "delete"
  /\ attached' = [attached EXCEPT ![item[p].id] = {}]
  /\ Return(p, "ok")
  /\ UNCHANGED <<lbs, used, lbServiceID, lbLock, item, local, faults>>

\* DeleteLoadBalancerService; lbServiceID keeps the id.
DeleteLb(p) ==
  /\ pc[p] = "delete"
  /\ \/ /\ lbs' = lbs \ {item[p].id}
        /\ attached' = [attached EXCEPT ![item[p].id] = {}]
        /\ Answer(p)
     \/ Fault(p) /\ UNCHANGED <<lbs, attached>>
  /\ UNCHANGED <<used, lbServiceID, lbLock, item, local>>

\* Mutant of Unlock: on an error the lock is not given back.
UnlockOnlyOnSuccess(p) ==
  /\ pc[p] = "return"
  /\ lbLock' = IF result[p] = "ok" THEN NoProc ELSE lbLock
  /\ Goto(p, "idle")
  /\ stage' = [stage EXCEPT ![srv[p]] =
       IF result[p] # "ok" THEN "unknown" ELSE IF op[p] = "add" THEN "added" ELSE "removed"]
  /\ item' = [item EXCEPT ![p] = NoCopy]
  /\ result' = [result EXCEPT ![p] = "ok"]
  /\ UNCHANGED <<mode, nsxt, lbServiceID, op, srv, faults, restarts>>

\* The deferred s.lbLock.Unlock(); the caller learns the result.
Unlock(p) ==
  /\ pc[p] = "return"
  /\ lbLock' = NoProc
  /\ Goto(p, "idle")
  /\ stage' = [stage EXCEPT ![srv[p]] =
       IF result[p] # "ok" THEN "unknown" ELSE IF op[p] = "add" THEN "added" ELSE "removed"]
  /\ item' = [item EXCEPT ![p] = NoCopy]
  /\ result' = [result EXCEPT ![p] = "ok"]
  /\ UNCHANGED <<mode, nsxt, lbServiceID, op, srv, faults, restarts>>

\* The controller stops and starts again: only the state in NSX-T survives.
Restart ==
  /\ restarts < MaxRestarts
  /\ restarts' = restarts + 1
  /\ lbServiceID' = mode.id
  /\ lbLock' = NoProc
  /\ pc' = [p \in Proc |-> "idle"]
  /\ item' = [p \in Proc |-> NoCopy]
  /\ result' = [p \in Proc |-> "ok"]
  /\ stage' = [s \in Server |-> IF stage[s] = "busy" THEN "unknown" ELSE stage[s]]
  /\ UNCHANGED <<mode, nsxt, op, srv, faults>>

-----------------------------------------------------------------------------
\* addVirtualServerToLoadBalancerService and removeVirtualServerFrom...
Step(p) ==
  \/ Lock(p)
  \/ FindForAdd(p) \/ CreateLb(p) \/ UpdateForAdd(p)
  \/ FindForRemove(p) \/ UpdateForRemove(p) \/ DeleteLb(p)
  \/ Unlock(p)

Next ==
  \/ \E p \in Proc, o \in {"add", "remove"}, s \in Server : Call(p, o, s)
  \/ \E p \in Proc : Step(p)
  \/ Restart

Spec == Init /\ [][Next]_vars

\* API calls return, and a sync.Mutex is handed to the longest waiter.
FairSpec == Spec /\ \A p \in Proc : WF_vars(Step(p)) /\ SF_vars(Lock(p))

-----------------------------------------------------------------------------
(***************************************************************************)
(* A virtual server whose attachment was reported to succeed is attached   *)
(* until it is detached: the read-modify-write of one goroutine never      *)
(* loses the server of another one, and the service is not deleted under   *)
(* it.                                                                     *)
(***************************************************************************)
AddedIsAttached ==
  \A s \in Server : stage[s] = "added" => \E l \in lbs : s \in attached[l]

(***************************************************************************)
(* A virtual server whose detachment was reported to succeed is attached   *)
(* to no service: it may be deleted.                                       *)
(***************************************************************************)
RemovedIsDetached ==
  \A s \in Server : stage[s] = "removed" => \A l \in lbs : s \notin attached[l]

(***************************************************************************)
(* The controller creates no second load balancer service for the cluster, *)
(* whatever call fails and whenever it restarts, and none at all where the *)
(* router already has one or in unmanaged mode.                            *)
(***************************************************************************)
SingleService == Cardinality({l \in lbs : Visible(l)}) <= 1

(***************************************************************************)
(* In managed mode the load balancer service exists only as long as it is  *)
(* required: without failures and restarts none is left of those created   *)
(* once every virtual server has been detached.                            *)
(***************************************************************************)
NoIdleService ==
  (/\ faults = 0 /\ restarts = 0
   /\ \A s \in Server : stage[s] \in {"new", "removed"})
  => lbs \subseteq mode.preset

(***************************************************************************)
(* Every call returns, also on the error paths and after lost answers: a   *)
(* goroutine that waits for lbLock gets it.                                *)
(***************************************************************************)
CallsReturn == \A p \in Proc : (pc[p] = "lock") ~> (pc[p] = "idle")

Registry == INSTANCE LbRegistry WITH managed <- Managed

(***************************************************************************)
(* The read-modify-write operations implement the atomic ones of           *)
(* LbRegistry: each step attaches or detaches one virtual server, creates  *)
(* an empty service, or deletes one that has no other virtual server.      *)
(***************************************************************************)
ImplementsLbRegistry == Registry!Spec

(***************************************************************************)
(* README.md: "The NSX-T load balancer service is only created if it is    *)
(* required."  It is created WHENEVER it is required: attaching a virtual  *)
(* server in managed mode fails only because a call to NSX-T failed.       *)
(***************************************************************************)
CreatedIfRequired ==
  Managed => \A p \in Proc :
               op[p] = "add" /\ pc[p] = "return" => result[p] # "error"
=============================================================================
