------------------------------ MODULE KeyLock -------------------------------
(***************************************************************************)
(* The keyed lock of pkg/loadbalancer/lock.go.  A keyLock is a mutex,      *)
(* l.lock, that guards a map from keys to mutexes that are created on      *)
(* demand and never removed.  Lock(key) looks the key's mutex up under     *)
(* l.lock, gives l.lock back and then blocks on the key's mutex;           *)
(* Unlock(key) looks it up again, under l.lock, and unlocks it.            *)
(*                                                                         *)
(* The goroutines are those that call EnsureLoadBalancer,                  *)
(* UpdateLoadBalancer and EnsureLoadBalancerDeleted: each locks one key,   *)
(* works, and unlocks the same key (lbprovider.go, `defer Unlock`).        *)
(***************************************************************************)
CONSTANTS
  Proc,      \* the goroutines
  Key,       \* the keys
  Mutex,     \* the heap addresses at which a sync.Mutex may be allocated
  NoProc,    \* "unlocked"
  NoMutex    \* a nil *sync.Mutex

ASSUME NoProcAssumption == NoProc \notin Proc
ASSUME NoMutexAssumption == NoMutex \notin Mutex

VARIABLES
  lock,    \* l.lock: the goroutine that holds it, or NoProc
  keys,    \* l.keys: for each key its *sync.Mutex, or NoMutex
  heap,    \* the addresses allocated so far
  owner,   \* for each address the goroutine that holds that mutex, or NoProc
  pc,      \* where each goroutine is in Lock or Unlock
  key,     \* the key argument of its current call
  ptr      \* the local variable `lock` of Lock

vars == <<lock, keys, heap, owner, pc, key, ptr>>

Label == {"idle", "lock", "lookup", "acquire", "held", "unlock", "release"}

\* The goroutine is between the return of Lock and the effect of Unlock.
Holding == {"held", "unlock", "release"}

(***************************************************************************)
(* Every variable has a value of its Go type.                              *)
(***************************************************************************)
TypeOK ==
  /\ lock \in Proc \cup {NoProc}
  /\ keys \in [Key -> Mutex \cup {NoMutex}]
  /\ heap \in SUBSET Mutex
  /\ owner \in [Mutex -> Proc \cup {NoProc}]
  /\ pc \in [Proc -> Label]
  /\ key \in [Proc -> Key]
  /\ ptr \in [Proc -> Mutex \cup {NoMutex}]

\* newKeyLock: an empty map, nothing locked.
Init ==
  /\ lock = NoProc
  /\ keys = [k \in Key |-> NoMutex]
  /\ heap = {}
  /\ owner = [m \in Mutex |-> NoProc]
  /\ pc = [p \in Proc |-> "idle"]
  /\ key \in [Proc -> Key]
  /\ ptr = [p \in Proc |-> NoMutex]

-----------------------------------------------------------------------------
(***************************************************************************)
(* Lock(key)                                                               *)
(***************************************************************************)

\* A goroutine calls Lock(k).
CallLock(p, k) ==
  /\ pc[p] = "idle"
  /\ pc' = [pc EXCEPT ![p] = "lock"]
  /\ key' = [key EXCEPT ![p] = k]
  /\ UNCHANGED <<lock, keys, heap, owner, ptr>>

\* l.lock.Lock()
LockOuter(p) ==
  /\ pc[p] = "lock"
  /\ lock = NoProc
  /\ lock' = p
  /\ pc' = [pc EXCEPT ![p] = "lookup"]
  /\ UNCHANGED <<keys, heap, owner, key, ptr>>

\* Mutant of Lookup: a new mutex is stored even when the key already has one.
LookupAlwaysCreates(p) ==
  /\ pc[p] = "lookup"
  /\ \E m \in Mutex \ heap :
       /\ keys' = [keys EXCEPT ![key[p]] = m]
       /\ heap' = heap \cup {m}
       /\ ptr' = [ptr EXCEPT ![p] = m]
  /\ lock' = NoProc
  /\ pc' = [pc EXCEPT ![p] = "acquire"]
  /\ UNCHANGED <<owner, key>>

\* Mutant of Lookup: l.lock is kept until the key's mutex is free.
LookupBlocksUnderLock(p) ==
  /\ pc[p] = "lookup"
  /\ \/ /\ keys[key[p]] # NoMutex
        /\ owner[keys[key[p]]] = NoProc
        /\ ptr' = [ptr EXCEPT ![p] = keys[key[p]]]
        /\ UNCHANGED <<keys, heap>>
     \/ /\ keys[key[p]] = NoMutex
        /\ \E m \in Mutex \ heap :
             /\ keys' = [keys EXCEPT ![key[p]] = m]
             /\ heap' = heap \cup {m}
             /\ ptr' = [ptr EXCEPT ![p] = m]
  /\ lock' = NoProc
  /\ pc' = [pc EXCEPT ![p] = "acquire"]
  /\ UNCHANGED <<owner, key>>

\* lock := l.keys[key], a new mutex if there is none, and l.lock.Unlock()
Lookup(p) ==
  /\ pc[p] = "lookup"
  /\ \/ /\ keys[key[p]] # NoMutex
        /\ ptr' = [ptr EXCEPT ![p] = keys[key[p]]]
        /\ UNCHANGED <<keys, heap>>
     \/ /\ keys[key[p]] = NoMutex
        /\ \E m \in Mutex \ heap :
             /\ keys' = [keys EXCEPT ![key[p]] = m]
             /\ heap' = heap \cup {m}
             /\ ptr' = [ptr EXCEPT ![p] = m]
  /\ lock' = NoProc
  /\ pc' = [pc EXCEPT ![p] = "acquire"]
  /\ UNCHANGED <<owner, key>>

\* lock.Lock(): blocks until the key's mutex is free.
AcquireKey(p) ==
  /\ pc[p] = "acquire"
  /\ owner[ptr[p]] = NoProc
  /\ owner' = [owner EXCEPT ![ptr[p]] = p]
  /\ pc' = [pc EXCEPT ![p] = "held"]
  /\ UNCHANGED <<lock, keys, heap, key, ptr>>

-----------------------------------------------------------------------------
(***************************************************************************)
(* Unlock(key)                                                             *)
(***************************************************************************)

\* The goroutine has done its work and calls Unlock(key).
CallUnlock(p) ==
  /\ pc[p] = "held"
  /\ pc' = [pc EXCEPT ![p] = "unlock"]
  /\ UNCHANGED <<lock, keys, heap, owner, key, ptr>>

\* l.lock.Lock()
UnlockOuter(p) ==
  /\ pc[p] = "unlock"
  /\ lock = NoProc
  /\ lock' = p
  /\ pc' = [pc EXCEPT ![p] = "release"]
  /\ UNCHANGED <<keys, heap, owner, key, ptr>>

\* Mutant of Release: the entry is removed from the map to save memory.
ReleaseDropsKey(p) ==
  /\ pc[p] = "release"
  /\ owner' = [owner EXCEPT ![keys[key[p]]] = NoProc]
  /\ keys' = [keys EXCEPT ![key[p]] = NoMutex]
  /\ lock' = NoProc
  /\ pc' = [pc EXCEPT ![p] = "idle"]
  /\ ptr' = [ptr EXCEPT ![p] = NoMutex]
  /\ UNCHANGED <<heap, key>>

\* lock := l.keys[key]; lock.Unlock(); the deferred l.lock.Unlock().
\* A nil lock panics: the goroutine is stuck, as no action follows.
Release(p) ==
  /\ pc[p] = "release"
  /\ keys[key[p]] # NoMutex
  /\ owner' = [owner EXCEPT ![keys[key[p]]] = NoProc]
  /\ lock' = NoProc
  /\ pc' = [pc EXCEPT ![p] = "idle"]
  /\ ptr' = [ptr EXCEPT ![p] = NoMutex]
  /\ UNCHANGED <<keys, heap, key>>

-----------------------------------------------------------------------------
\* The steps inside Lock and Unlock: not when to call them.
Inner(p) ==
  \/ LockOuter(p) \/ Lookup(p) \/ AcquireKey(p)
  \/ UnlockOuter(p) \/ Release(p)

Next ==
  \E p \in Proc :
    \/ \E k \in Key : CallLock(p, k)
    \/ Inner(p)
    \/ CallUnlock(p)

Spec == Init /\ [][Next]_vars

(***************************************************************************)
(* A sync.Mutex in starvation mode hands itself to the goroutine that has  *)
(* waited longest, so a goroutine that waits for a mutex that is free      *)
(* again and again gets it: strong fairness of the blocking calls.  A      *)
(* holder unlocks its key in the end: the calls to NSX-T between Lock and  *)
(* the deferred Unlock return.                                             *)
(***************************************************************************)
MutexFairness ==
  \A p \in Proc :
    /\ SF_vars(LockOuter(p)) /\ SF_vars(UnlockOuter(p)) /\ SF_vars(AcquireKey(p))
    /\ WF_vars(Lookup(p)) /\ WF_vars(CallUnlock(p)) /\ WF_vars(Release(p))

FairSpec == Spec /\ MutexFairness

-----------------------------------------------------------------------------
(***************************************************************************)
(* At most one goroutine is between Lock(k) and Unlock(k): the reconcile   *)
(* of a service, its node update and its clean-up exclude one another.     *)
(***************************************************************************)
MutualExclusion ==
  \A p, q \in Proc :
    (pc[p] \in Holding /\ pc[q] \in Holding /\ key[p] = key[q]) => p = q

(***************************************************************************)
(* Unlock neither panics with "unlock of unknown keyLock" nor unlocks a    *)
(* mutex that somebody else has locked: the second lookup, in Unlock,      *)
(* finds the mutex that the first one, in Lock, returned.                  *)
(***************************************************************************)
UnlockFindsOwnMutex ==
  \A p \in Proc :
    pc[p] = "release" => keys[key[p]] = ptr[p] /\ owner[ptr[p]] = p

(***************************************************************************)
(* Every call of Lock returns: no goroutine waits for ever, for l.lock or  *)
(* for a key.  Unlock needs l.lock as well, so the goroutines would wait   *)
(* for one another if Lock kept l.lock while it waits for the key.         *)
(***************************************************************************)
LockReturns == \A p \in Proc : (pc[p] = "lock") ~> (pc[p] = "held")

\* The abstract lock: a key is held by the goroutine between Lock and Unlock.
Holds(p, k) == pc[p] \in Holding /\ key[p] = k
keyHolder ==
  [k \in Key |-> IF \E p \in Proc : Holds(p, k) THEN CHOOSE p \in Proc : Holds(p, k) ELSE NoProc]

Abstract == INSTANCE KeyMutex WITH holder <- keyHolder

(***************************************************************************)
(* The detailed lock implements KeyMutex: every step takes one free key,   *)
(* gives one back, or is invisible to the callers.                         *)
(***************************************************************************)
ImplementsKeyMutex == Abstract!Spec

-----------------------------------------------------------------------------
(***************************************************************************)
(* The inductive strengthening of MutualExclusion.                         *)
(***************************************************************************)

\* l.lock is held exactly by the goroutine inside one of its two sections.
OuterLockInv == \A p \in Proc : pc[p] \in {"lookup", "release"} <=> lock = p

\* Two keys never share a mutex, and every stored mutex was allocated.
KeysInv ==
  /\ \A k \in Key : keys[k] # NoMutex => keys[k] \in heap
  /\ \A k, l \in Key : keys[k] = keys[l] /\ keys[k] # NoMutex => k = l

\* The pointer a goroutine took from the map is still the one in the map.
PtrInv ==
  \A p \in Proc :
    pc[p] \in Holding \cup {"acquire"} => ptr[p] # NoMutex /\ keys[key[p]] = ptr[p]

\* A mutex is owned exactly by the goroutine that holds the key.
OwnerInv ==
  /\ \A p \in Proc : pc[p] \in Holding => owner[ptr[p]] = p
  /\ \A m \in Mutex : owner[m] # NoProc =>
        pc[owner[m]] \in Holding /\ ptr[owner[m]] = m

Inv == TypeOK /\ OuterLockInv /\ KeysInv /\ PtrInv /\ OwnerInv
=============================================================================
