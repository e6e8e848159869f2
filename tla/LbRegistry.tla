----------------------------- MODULE LbRegistry -----------------------------
(***************************************************************************)
(* What pkg/loadbalancer/lbservice.go promises about the load balancer     *)
(* services in NSX-T: virtual servers are attached and detached one at a   *)
(* time, no attachment is lost on the way, a service is created empty, and *)
(* it is deleted only together with the one virtual server of this         *)
(* controller it still has, or empty.  LbService implements this           *)
(* specification.                                                          *)
(***************************************************************************)
CONSTANTS
  LbID,      \* identifiers of load balancer services
  Server     \* virtual servers of this controller

VARIABLES
  managed,   \* TRUE iff the controller manages the load balancer service
  lbs,       \* the load balancer services that exist
  attached   \* for each service the virtual servers attached to it

Create(l) ==
  /\ managed
  /\ l \notin lbs
  /\ lbs' = lbs \cup {l}
  /\ attached' = [attached EXCEPT ![l] = {}]

Attach(l, s) ==
  /\ l \in lbs
  /\ attached' = [attached EXCEPT ![l] = @ \cup {s}]
  /\ UNCHANGED lbs

Detach(l, s) ==
  /\ l \in lbs
  /\ attached' = [attached EXCEPT ![l] = @ \ {s}]
  /\ UNCHANGED lbs

Delete(l, s) ==
  /\ managed
  /\ l \in lbs
  /\ attached[l] \subseteq {s}
  /\ lbs' = lbs \ {l}
  /\ attached' = [attached EXCEPT ![l] = {}]

Next ==
  \E l \in LbID :
    \/ Create(l)
    \/ \E s \in Server : Attach(l, s) \/ Detach(l, s) \/ Delete(l, s)

\* Whatever exists when the controller starts.
Init == managed \in BOOLEAN /\ lbs \in SUBSET LbID

Spec == Init /\ [][Next /\ UNCHANGED managed]_<<managed, lbs, attached>>
=============================================================================
