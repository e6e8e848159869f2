------------------------------- MODULE Reorg --------------------------------
(***************************************************************************)
(* The reorganisation of pkg/loadbalancer/reorg.go, next to the service    *)
(* controller: a goroutine of its own that looks, again and again, for     *)
(* objects in NSX-T that carry the tag of a service that does not exist,   *)
(* and calls EnsureLoadBalancerDeleted for it.                             *)
(*                                                                         *)
(* One pass lists the services, then the virtual servers, the pools and    *)
(* the monitors, and then collects, one service after the other.  An error *)
(* ends the pass; the next one starts when the timer fires.                *)
(***************************************************************************)
EXTENDS LoadBalancer

CONSTANTS
  Collector,     \* the goroutine that runs reorg
  DefaultClass   \* the class of a service without annotation

ASSUME CollectorAssumption == Collector \in Proc \ Worker /\ DefaultClass \in IPPool

VARIABLES
  step,     \* where the pass is
  known,    \* `services`: the services that were listed
  found     \* `lbs`: services with objects in NSX-T, not yet handled

reorgVars == <<step, known, found>>
allVars == <<vars, reorgVars>>

(***************************************************************************)
(* Every variable has a value of its type.                                 *)
(***************************************************************************)
ReorgTypeOK ==
  /\ TypeOK
  /\ step \in {"timer", "servers", "pools", "monitors", "collect", "wait"}
  /\ known \in SUBSET Svc /\ found \in SUBSET Svc

ReorgInit == Init /\ step = "timer" /\ known = {} /\ found = {}

-----------------------------------------------------------------------------
\* The pass ends, with or without an error; what it has read is forgotten.
EndPass == step' = "timer" /\ known' = {} /\ found' = {}

\* A call of the pass fails: the pass returns the error.
ReorgFault ==
  /\ faults < MaxFaults
  /\ faults' = faults + 1
  /\ EndPass
  /\ UNCHANGED <<nsxt, k8s, holder, pc, call, st, cur, err, crashes>>

\* The timer fires; client.List, filtered for type LoadBalancer
ListServices ==
  /\ step = "timer"
  /\ \/ /\ known' = {s \in Svc : phase[s] # "absent"}
        /\ step' = "servers"
        /\ UNCHANGED <<vars, found>>
     \/ ReorgFault

\* Mutant of Tagged: the name is not taken from the tags.
TaggedObjects(S) == S

\* The services named in the tags of the objects.
Tagged(S) == {x.svc : x \in S}

\* Mutant of ListObjects: pools and monitors without virtual server do not count.
ListServersOnly(from, S, to) ==
  /\ step = from
  /\ found' = IF from = "servers" THEN Tagged(S) ELSE found
  /\ step' = to
  /\ UNCHANGED <<vars, known>>

\* The objects of one kind are listed, and their services noted.
ListObjects(from, S, to) ==
  /\ step = from
  /\ \/ found' = found \cup Tagged(S) /\ step' = to /\ UNCHANGED <<vars, known>>
     \/ ReorgFault

ListVirtualServers == ListObjects("servers", servers, "pools")
ListPools == ListObjects("pools", pools, "monitors")
ListTCPMonitors == ListObjects("monitors", monitors, "collect")

\* A service object with nothing but its name: no status, no annotation.
CollectCall(s) ==
  [NewCall("collect", s) EXCEPT !.class = DefaultClass, !.status = NoIP]

\* EnsureLoadBalancerDeleted for a service that was not listed.
Collect ==
  /\ step = "collect"
  /\ \E s \in found \ known :
       /\ Start(Collector, CollectCall(s))
       /\ found' = found \ {s}
  /\ step' = "wait"
  /\ UNCHANGED <<phase, status, known>>

\* EnsureLoadBalancerDeleted returns; an error ends the pass.
CollectReturns ==
  /\ step = "wait"
  /\ Unlock(Collector)
  /\ IF err[Collector] = "none"
     THEN step' = "collect" /\ UNCHANGED <<known, found>>
     ELSE EndPass

\* Nothing is left to collect: the timer is set again.
PassDone ==
  /\ step = "collect"
  /\ found \subseteq known
  /\ EndPass
  /\ UNCHANGED vars

\* A user removes the finalizer, or deletes the service by force.
ForceDelete(s) ==
  /\ changes < MaxChanges
  /\ changes' = changes + 1
  /\ phase[s] # "absent"
  /\ phase' = [phase EXCEPT ![s] = "absent"]
  /\ status' = [status EXCEPT ![s] = NoIP]
  /\ UNCHANGED <<nsxt, spec, nodes, holder, pc, call, st, cur, err, faults, crashes, reorgVars>>

Pass ==
  \/ ListServices \/ ListVirtualServers \/ ListPools \/ ListTCPMonitors
  \/ Collect \/ CollectReturns \/ PassDone

\* The workers and the users.  The nodes do not change here, so the node sync loop
\* has nothing to do; NodeSync is about it.
Others ==
  \E s \in Svc :
    \/ \E p \in Worker : CallEnsure(p, s) \/ CallDelete(p, s)
    \/ GetLoadBalancerFindsNone(s)
    \/ \E c \in Spec0 : SetService(s, c)
    \/ DeleteService(s)

\* The goroutine of the reorganisation
Reorganise == Pass \/ (pc[Collector] # "unlock" /\ Step(Collector) /\ UNCHANGED reorgVars)

ReorgNext ==
  \/ Reorganise
  \/ (\E p \in Worker : Step(p)) /\ UNCHANGED reorgVars
  \/ Others /\ UNCHANGED reorgVars
  \/ \E s \in Svc : ForceDelete(s)
  \/ Crash /\ EndPass

ReorgSpec == ReorgInit /\ [][ReorgNext]_allVars

(***************************************************************************)
(* The timer fires at least every 30 minutes, calls to NSX-T return, a     *)
(* waiter gets the key, and the workers try a deletion again until it      *)
(* succeeds.  Nothing is assumed of when they process a service otherwise. *)
(***************************************************************************)
FairReorgSpec ==
  /\ ReorgSpec
  /\ WF_allVars(Reorganise)
  /\ \A p \in Worker : WF_allVars(Step(p) /\ UNCHANGED reorgVars)
  /\ SF_allVars(Lock(Collector) /\ UNCHANGED reorgVars)
  /\ \A s \in Svc : WF_allVars(/\ \/ \E p \in Worker : CallDelete(p, s)
                                  \/ GetLoadBalancerFindsNone(s)
                               /\ UNCHANGED reorgVars)

-----------------------------------------------------------------------------
\* Its deletion fails, as its class is not configured.
Stuck(s) == phase[s] = "deleting" /\ spec[s].class = NoPool

HasObjects(s) == Of(servers, s) # {} \/ Of(pools, s) # {} \/ Of(monitors, s) # {}

(***************************************************************************)
(* A service that is deleted goes, and so does all it had in NSX-T,        *)
(* whatever failures, crashes and users who remove finalizers leave behind *)
(* in between, unless the service comes back.  Only as long as the class   *)
(* of the service is not configured a deletion does not get through: the   *)
(* collector deletes with the default class, but not before the service is *)
(* gone.                                                                   *)
(***************************************************************************)
OrphansCollected ==
  \A s \in Svc :
    (phase[s] = "deleting" \/ HasObjects(s))
      ~> (phase[s] = "present" \/ Stuck(s) \/ (phase[s] = "absent" /\ ~HasObjects(s)))

(***************************************************************************)
(* reorg.go: "it is possible to identify those that are orphaned and       *)
(* safely delete them".  A service that has been given an address keeps    *)
(* virtual servers for it as long as it exists.                            *)
(***************************************************************************)
SafelyDeleted ==
  \A s \in Svc :
    phase[s] = "present" /\ status[s] # NoIP /\ ~Processed(s) => Of(servers, s) # {}
=============================================================================
