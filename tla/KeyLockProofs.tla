--------------------------- MODULE KeyLockProofs ----------------------------
(***************************************************************************)
(* Proofs about KeyLock, for any number of goroutines, keys and addresses. *)
(*                                                                         *)
(* MutualExclusion is not inductive: it needs that the pointer a goroutine *)
(* took from the map in Lock is still the one the map holds (PtrInv), that *)
(* the map gives different keys different mutexes (KeysInv), that the      *)
(* mutex is owned by the goroutine that holds the key (OwnerInv), and that *)
(* one goroutine at a time is in a section guarded by l.lock               *)
(* (OuterLockInv).  Their conjunction, Inv, is inductive.                  *)
(***************************************************************************)
EXTENDS KeyLock, TLAPS

\* newKeyLock establishes the invariant.
LEMMA InitInv == Init => Inv
BY NoProcAssumption, NoMutexAssumption
   DEF Init, Inv, TypeOK, Label, Holding, OuterLockInv, KeysInv, PtrInv, OwnerInv

\* Every step of Lock, of Unlock and of their callers preserves the invariant.
LEMMA StepInv == Inv /\ [Next]_vars => Inv'
<1> SUFFICES ASSUME Inv, [Next]_vars
             PROVE  Inv'
  OBVIOUS
<1> USE NoProcAssumption, NoMutexAssumption
      DEF Inv, TypeOK, Label, Holding, OuterLockInv, KeysInv, PtrInv, OwnerInv
<1>1. ASSUME NEW p \in Proc, NEW k \in Key, CallLock(p, k)
      PROVE  Inv'
  BY <1>1 DEF CallLock
<1>2. ASSUME NEW p \in Proc, LockOuter(p)
      PROVE  Inv'
  BY <1>2 DEF LockOuter
<1>3. ASSUME NEW p \in Proc, Lookup(p)
      PROVE  Inv'
  <2>1. CASE keys[key[p]] # NoMutex
    BY <1>3, <2>1 DEF Lookup
  <2>2. CASE keys[key[p]] = NoMutex
    <3>1. PICK m \in Mutex \ heap :
                 /\ keys' = [keys EXCEPT ![key[p]] = m]
                 /\ heap' = heap \cup {m}
                 /\ ptr' = [ptr EXCEPT ![p] = m]
      BY <1>3, <2>2 DEF Lookup
    <3>2. /\ pc[p] = "lookup" /\ lock' = NoProc
          /\ pc' = [pc EXCEPT ![p] = "acquire"]
          /\ owner' = owner /\ key' = key
      BY <1>3 DEF Lookup
    <3>3. TypeOK' /\ OuterLockInv'
      BY <3>1, <3>2
    <3>4. KeysInv'
      BY <3>1, <3>2
    <3>5. PtrInv'
      \* A goroutine with a pointer has it from the map: its key is another one.
      <4>1. \A q \in Proc : pc[q] \in Holding \cup {"acquire"} => key[q] # key[p]
        BY <2>2
      <4> QED BY <3>1, <3>2, <4>1
    <3>6. OwnerInv'
      BY <3>1, <3>2
    <3> QED BY <3>3, <3>4, <3>5, <3>6
  <2> QED BY <2>1, <2>2
<1>4. ASSUME NEW p \in Proc, AcquireKey(p)
      PROVE  Inv'
  BY <1>4 DEF AcquireKey
<1>5. ASSUME NEW p \in Proc, CallUnlock(p)
      PROVE  Inv'
  BY <1>5 DEF CallUnlock
<1>6. ASSUME NEW p \in Proc, UnlockOuter(p)
      PROVE  Inv'
  BY <1>6 DEF UnlockOuter
<1>7. ASSUME NEW p \in Proc, Release(p)
      PROVE  Inv'
  BY <1>7 DEF Release
<1>8. CASE UNCHANGED vars
  BY <1>8 DEF vars
<1> QED BY <1>1, <1>2, <1>3, <1>4, <1>5, <1>6, <1>7, <1>8 DEF Next, Inner

(***************************************************************************)
(* The inductive invariant holds in every reachable state.                 *)
(***************************************************************************)
THEOREM KeyLockInvariant == Spec => []Inv
BY InitInv, StepInv, PTL DEF Spec

(***************************************************************************)
(* Type correctness of the state of lock.go.                               *)
(***************************************************************************)
THEOREM KeyLockTypeOK == Spec => []TypeOK
<1>1. Inv => TypeOK
  BY DEF Inv
<1> QED BY <1>1, KeyLockInvariant, PTL

\* Two holders of a key would both own its mutex.
LEMMA InvExcludes == Inv => MutualExclusion
BY DEF Inv, TypeOK, PtrInv, OwnerInv, MutualExclusion, Holding

(***************************************************************************)
(* At most one goroutine is between Lock(k) and Unlock(k).                 *)
(***************************************************************************)
THEOREM KeyLockMutualExclusion == Spec => []MutualExclusion
BY InvExcludes, KeyLockInvariant, PTL

(***************************************************************************)
(* Unlock always finds the mutex that Lock locked: no panic, and never     *)
(* somebody else's mutex.                                                  *)
(***************************************************************************)
THEOREM KeyLockUnlockFindsOwnMutex == Spec => []UnlockFindsOwnMutex
<1>1. Inv => UnlockFindsOwnMutex
  BY DEF Inv, PtrInv, OwnerInv, UnlockFindsOwnMutex, Holding
<1> QED BY <1>1, KeyLockInvariant, PTL

-----------------------------------------------------------------------------
\* No key is held when the lock is new.
LEMMA InitRefines == Init => Abstract!Init
BY DEF Init, Abstract!Init, keyHolder, Holds, Holding

\* The holder of a key is a goroutine or nobody.
LEMMA HolderType == keyHolder \in [Key -> Proc \cup {NoProc}]
<1> SUFFICES ASSUME NEW k \in Key
             PROVE  (IF \E p \in Proc : Holds(p, k) THEN CHOOSE p \in Proc : Holds(p, k)
                     ELSE NoProc) \in Proc \cup {NoProc}
  BY DEF keyHolder
<1>1. CASE \E p \in Proc : Holds(p, k)
  BY <1>1
<1>2. CASE ~\E p \in Proc : Holds(p, k)
  BY <1>2
<1> QED BY <1>1, <1>2

\* At most one goroutine holds a key, so it is the one that keyHolder chooses.
LEMMA HolderIsUnique ==
  MutualExclusion => \A p \in Proc, k \in Key : Holds(p, k) <=> keyHolder[k] = p
<1> SUFFICES ASSUME MutualExclusion, NEW p \in Proc, NEW k \in Key
             PROVE  Holds(p, k) <=> keyHolder[k] = p
  OBVIOUS
<1>1. ASSUME Holds(p, k) PROVE keyHolder[k] = p
  <2> DEFINE q == CHOOSE r \in Proc : Holds(r, k)
  <2>1. q \in Proc /\ Holds(q, k)
    BY <1>1
  <2>2. q = p
    BY <1>1, <2>1 DEF MutualExclusion, Holds
  <2> QED BY <1>1, <2>2 DEF keyHolder
<1>2. ASSUME keyHolder[k] = p PROVE Holds(p, k)
  <2>1. \E r \in Proc : Holds(r, k)
    BY <1>2, NoProcAssumption DEF keyHolder
  <2>2. p = CHOOSE r \in Proc : Holds(r, k)
    BY <1>2, <2>1 DEF keyHolder
  <2> QED BY <2>1, <2>2
<1> QED BY <1>1, <1>2

\* AcquireKey takes a free key, Release gives it back, the rest is invisible.
LEMMA StepRefines ==
  Inv /\ Inv' /\ [Next]_vars => [Abstract!Next]_keyHolder
<1> SUFFICES ASSUME Inv, Inv', [Next]_vars
             PROVE  [Abstract!Next]_keyHolder
  OBVIOUS
<1> USE NoProcAssumption
<1>a. keyHolder \in [Key -> Proc \cup {NoProc}] /\ keyHolder' \in [Key -> Proc \cup {NoProc}]
  <2>1. (keyHolder \in [Key -> Proc \cup {NoProc}])'
    BY HolderType, PTL
  <2> QED BY <2>1, HolderType
<1>b. \A p \in Proc, k \in Key : Holds(p, k) <=> keyHolder[k] = p
  BY InvExcludes, HolderIsUnique
<1>c. (\A p \in Proc, k \in Key : Holds(p, k) <=> keyHolder[k] = p)'
  BY InvExcludes, HolderIsUnique, PTL
<1>d. \A p \in Proc, k \in Key : Holds(p, k)' <=> keyHolder'[k] = p
  BY <1>c
\* Steps after which every goroutine holds what it held before are invisible.
<1>1. ASSUME \A p \in Proc, k \in Key : Holds(p, k)' <=> Holds(p, k)
      PROVE  keyHolder' = keyHolder
  BY <1>1, <1>a, <1>b, <1>d
<1>2. ASSUME NEW p \in Proc,
             (\E k \in Key : CallLock(p, k)) \/ LockOuter(p) \/ Lookup(p)
             \/ CallUnlock(p) \/ UnlockOuter(p)
      PROVE  keyHolder' = keyHolder
  <2>1. \A q \in Proc, k \in Key : Holds(q, k)' <=> Holds(q, k)
    BY <1>2 DEF CallLock, LockOuter, Lookup, CallUnlock, UnlockOuter, Holds, Holding, Inv, TypeOK
  <2> QED BY <2>1, <1>1
<1>3. ASSUME NEW p \in Proc, AcquireKey(p)
      PROVE  Abstract!Next
  <2>1. keys[key[p]] = ptr[p] /\ owner[ptr[p]] = NoProc /\ key[p] \in Key
    BY <1>3 DEF AcquireKey, Inv, TypeOK, PtrInv
  \* Another holder would own the mutex that is free.
  <2>2. \A q \in Proc : ~Holds(q, key[p])
    BY <2>1 DEF Holds, Inv, PtrInv, OwnerInv
  <2>3. \A q \in Proc, k \in Key : Holds(q, k)' <=> Holds(q, k) \/ (q = p /\ k = key[p])
    BY <1>3 DEF AcquireKey, Holds, Holding, Inv, TypeOK
  <2>4. keyHolder[key[p]] = NoProc
    BY <1>a, <1>b, <2>1, <2>2
  <2>5. keyHolder' = [keyHolder EXCEPT ![key[p]] = p]
    BY <1>a, <1>b, <1>d, <2>1, <2>2, <2>3
  <2>6. Abstract!Acquire(p, key[p])
    BY <2>4, <2>5 DEF Abstract!Acquire
  <2> QED BY <2>1, <2>6 DEF Abstract!Next
<1>4. ASSUME NEW p \in Proc, Release(p)
      PROVE  Abstract!Next
  <2>1. Holds(p, key[p]) /\ key[p] \in Key
    BY <1>4 DEF Release, Holds, Holding, Inv, TypeOK
  <2>2. \A q \in Proc, k \in Key : Holds(q, k)' <=> Holds(q, k) /\ q # p
    BY <1>4 DEF Release, Holds, Holding, Inv, TypeOK
  <2>3. \A k \in Key : Holds(p, k) => k = key[p]
    BY DEF Holds
  <2>4. keyHolder[key[p]] = p
    BY <1>b, <2>1
  <2>5. keyHolder' = [keyHolder EXCEPT ![key[p]] = NoProc]
    BY <1>a, <1>b, <1>d, <2>1, <2>2, <2>3, <2>4
  <2>6. Abstract!Release(p, key[p])
    BY <2>4, <2>5 DEF Abstract!Release
  <2> QED BY <2>1, <2>6 DEF Abstract!Next
<1>5. CASE UNCHANGED vars
  BY <1>5 DEF vars, keyHolder, Holds
<1> QED BY <1>2, <1>3, <1>4, <1>5 DEF Next, Inner

(***************************************************************************)
(* lock.go implements the abstract per-key lock: LoadBalancer may use      *)
(* KeyMutex in its place.                                                  *)
(***************************************************************************)
THEOREM KeyLockImplementsKeyMutex == Spec => ImplementsKeyMutex
<1>1. Spec => Abstract!Init
  BY InitRefines DEF Spec
<1>2. Spec => [][Abstract!Next]_keyHolder
  BY KeyLockInvariant, StepRefines, PTL DEF Spec
<1> QED BY <1>1, <1>2, PTL DEF ImplementsKeyMutex, Abstract!Spec
=============================================================================
