------------------------------ MODULE KeyMutex ------------------------------
(***************************************************************************)
(* What the keyed lock of pkg/loadbalancer/lock.go promises its callers:   *)
(* each key has at most one holder, a key is taken only when it is free    *)
(* and given back only by its holder, and keys do not affect one another.  *)
(* KeyLock is the detailed specification that implements this one;         *)
(* LoadBalancer uses this one for the per-service lock.                    *)
(***************************************************************************)
CONSTANTS
  Proc,     \* the goroutines
  Key,      \* the keys: "namespace/name" of a service
  NoProc    \* a value that is not a goroutine

VARIABLE holder   \* for each key the goroutine that holds it, or NoProc

Init == holder = [k \in Key |-> NoProc]

Acquire(p, k) ==
  /\ holder[k] = NoProc
  /\ holder' = [holder EXCEPT ![k] = p]

Release(p, k) ==
  /\ holder[k] = p
  /\ holder' = [holder EXCEPT ![k] = NoProc]

Next == \E p \in Proc, k \in Key : Acquire(p, k) \/ Release(p, k)

Spec == Init /\ [][Next]_holder
=============================================================================
