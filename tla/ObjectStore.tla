----------------------------- MODULE ObjectStore -----------------------------
(***************************************************************************)
(* What the interface NsxtBroker promises to one caller after the other:   *)
(* objects with ids that are never used twice, and IP pools that hand out  *)
(* addresses.  Every call takes effect in one step, and its status says    *)
(* what happened.                                                          *)
(***************************************************************************)
CONSTANTS
  Kind,       \* kinds of objects
  Id,         \* ids
  Content,    \* what an object consists of, its tags included
  IPPool,     \* the ids of the IP pools
  Address     \* the addresses of an IP pool

VARIABLES
  objects,      \* for each kind the objects
  issued,       \* the ids that have been given away
  allocations,  \* for each IP pool the addresses that are allocated
  status        \* the status of the last call

vars == <<objects, issued, allocations, status>>

Init ==
  /\ objects = [k \in Kind |-> {}] /\ issued = {}
  /\ allocations = [p \in IPPool |-> {}]
  /\ status = "OK"

Create(k) ==
  /\ \E i \in Id \ issued, v \in Content :
       /\ objects' = [objects EXCEPT ![k] = @ \cup {[id |-> i, content |-> v]}]
       /\ issued' = issued \cup {i}
  /\ status' = "OK"
  /\ UNCHANGED allocations

\* Read, update and delete: what they do with the object, unless there is none.
Read(k, i) ==
  /\ status' = (IF \E o \in objects[k] : o.id = i THEN "OK" ELSE "NotFound")
  /\ UNCHANGED <<objects, issued, allocations>>

Update(k, i) ==
  /\ \/ \E o \in objects[k], v \in Content :
          /\ o.id = i
          /\ objects' = [objects EXCEPT ![k] = (@ \ {o}) \cup {[o EXCEPT !.content = v]}]
          /\ status' = "OK"
     \/ /\ \A o \in objects[k] : o.id # i
        /\ status' = "NotFound"
        /\ UNCHANGED objects
  /\ UNCHANGED <<issued, allocations>>

Delete(k, i) ==
  /\ \/ \E o \in objects[k] :
          /\ o.id = i
          /\ objects' = [objects EXCEPT ![k] = @ \ {o}]
          /\ status' = "OK"
     \/ /\ \A o \in objects[k] : o.id # i
        /\ status' = "NotFound"
        /\ UNCHANGED objects
  /\ UNCHANGED <<issued, allocations>>

\* A list does not change anything and does not fail.
List == status' = "OK" /\ UNCHANGED <<objects, issued, allocations>>

\* Some address that is free; only a full pool refuses.
Allocate(p) ==
  /\ \/ \E a \in Address \ allocations[p] :
          /\ allocations' = [allocations EXCEPT ![p] = @ \cup {a}]
          /\ status' = "OK"
     \/ allocations[p] = Address /\ status' = "Full" /\ UNCHANGED allocations
  /\ UNCHANGED <<objects, issued>>

Release(p, a) ==
  /\ allocations' = [allocations EXCEPT ![p] = @ \ {a}]
  /\ status' = (IF a \in allocations[p] THEN "OK" ELSE "NotFound")
  /\ UNCHANGED <<objects, issued>>

\* A call for an IP pool that does not exist.
UnknownPool == status' = "NotFound" /\ UNCHANGED <<objects, issued, allocations>>

Next ==
  \/ \E k \in Kind :
       Create(k) \/ \E i \in Id : Read(k, i) \/ Update(k, i) \/ Delete(k, i)
  \/ List \/ UnknownPool
  \/ \E p \in IPPool : Allocate(p) \/ \E a \in Address : Release(p, a)

Spec == Init /\ [][Next]_vars
=============================================================================
