--------------------------- MODULE LbServiceProofs ---------------------------
(***************************************************************************)
(* Proofs about LbService, for any number of goroutines, virtual servers,  *)
(* load balancer services, failures and restarts.                          *)
(*                                                                         *)
(* The copy that a goroutine has read is what NSX-T has until it writes it *)
(* back (ItemInv), as lbLock is held in between (LockInv).  From this      *)
(* follow that no attachment is lost, that the read-modify-write           *)
(* operations implement the atomic ones of LbRegistry, and, together with  *)
(* what the callers do (StageInv), that a virtual server is attached to    *)
(* one service at most and where the code will look for it (PlaceInv).     *)
(***************************************************************************)
EXTENDS LbService, TLAPS, FiniteSetTheorems

-----------------------------------------------------------------------------
(***************************************************************************)
(* The inductive invariant                                                 *)
(***************************************************************************)

\* Places where lbLock is held.
Locked == {"find", "create", "update", "delete", "return"}

LockInv == \A p \in Proc : pc[p] \in Locked <=> lbLock = p

\* A virtual server is the business of one goroutine at a time.
StageInv ==
  /\ \A p \in Proc : pc[p] # "idle" => stage[srv[p]] = "busy"
  /\ \A p, q \in Proc : pc[p] # "idle" /\ pc[q] # "idle" /\ srv[p] = srv[q] => p = q

\* Identifiers are not given twice, and a service that does not exist has no servers.
\* Those created have virtual servers of this controller only.
NsxtInv ==
  /\ lbs \subseteq used /\ mode.preset \subseteq used
  /\ \A l \in LbID \ lbs : attached[l] = {}
  /\ \A l \in LbID \ mode.preset : attached[l] \subseteq Server

\* In unmanaged mode the configured service is used, and none is created.
ModeInv ==
  /\ mode.id # NoLb => lbServiceID = mode.id
  /\ mode.id # NoLb => lbs \subseteq mode.preset

\* The copy is current until it is written back; a service is created only if there is
\* none, and deleted only with its last virtual server.
ItemInv ==
  \A p \in Proc :
    /\ pc[p] = "create" =>
         op[p] = "add" /\ lbServiceID = NoLb /\ \A l \in lbs : ~Visible(l)
    /\ pc[p] = "update" => item[p].id \in lbs
    /\ pc[p] = "update" /\ op[p] = "add" =>
         /\ item[p].servers = attached[item[p].id]
         /\ mode.router => Visible(item[p].id)
    /\ pc[p] = "update" /\ op[p] = "remove" =>
         /\ srv[p] \in attached[item[p].id]
         /\ item[p].servers = attached[item[p].id] \ {srv[p]}
         /\ Managed => item[p].servers # {}
    /\ pc[p] = "delete" =>
         /\ op[p] = "remove" /\ Managed
         /\ item[p].id \in lbs /\ attached[item[p].id] = {srv[p]}

\* A virtual server is attached to one service at most, and where the filter finds it;
\* one that is new, or is yet to be attached, to none.
PlaceInv ==
  /\ \A s \in Server, k, l \in LbID : s \in attached[k] /\ s \in attached[l] => k = l
  /\ \A s \in Server : stage[s] = "new" => \A l \in LbID : s \notin attached[l]
  /\ \A p \in Proc : pc[p] \in {"lock", "find", "create", "update"} /\ op[p] = "add" =>
       \A l \in LbID : srv[p] \notin attached[l]
  /\ mode.router => \A l \in lbs : (\E s \in Server : s \in attached[l]) => Visible(l)

\* What an operation that returns without an error has achieved.
ResultInv ==
  /\ AddedIsAttached
  /\ mode.router => RemovedIsDetached
  /\ \A p \in Proc : pc[p] = "return" /\ result[p] = "ok" =>
       IF op[p] = "add" THEN \E l \in lbs : srv[p] \in attached[l]
       ELSE mode.router => \A l \in lbs : srv[p] \notin attached[l]

\* Two services that the filter accepts are those that were there from the start.
SingleInv == \A k, l \in lbs : Visible(k) /\ Visible(l) => k = l \/ {k, l} \subseteq mode.onRouter

\* Without failures a service created has a virtual server, or is about to get it.
IdleInv ==
  faults = 0 /\ restarts = 0 =>
    \A l \in lbs \ mode.preset :
      \/ attached[l] # {}
      \/ \E p \in Proc : pc[p] = "update" /\ op[p] = "add" /\ item[p].id = l

LbInv ==
  /\ TypeOK /\ LockInv /\ StageInv /\ NsxtInv /\ ModeInv /\ ItemInv /\ PlaceInv
  /\ ResultInv /\ SingleInv /\ IdleInv


\* What lbservice.go keeps of a load balancer service.
LEMMA CopyType ==
  /\ \A l \in LbID, S \in SUBSET (Server \cup Foreign) : [id |-> l, servers |-> S] \in Copy
  /\ \A c \in Copy : c.id \in LbID \cup {NoLb} /\ c.servers \in SUBSET (Server \cup Foreign)
BY DEF Copy

-----------------------------------------------------------------------------
(***************************************************************************)
(* The initial states                                                      *)
(***************************************************************************)

\* newLbService establishes the invariant.
LEMMA LbInit == Init => LbInv
<1> SUFFICES ASSUME Init PROVE LbInv
  OBVIOUS
<1> USE NoProcAssumption, NoLbAssumption, ServerAssumption, BoundsAssumption, ModeAssumption
<1>1. TypeOK
  BY DEF Init, TypeOK, Copy, NoCopy
<1>2. LockInv /\ StageInv
  BY DEF Init, LockInv, StageInv, Locked
<1>3. NsxtInv /\ ModeInv
  BY DEF Init, NsxtInv, ModeInv
<1>4. ItemInv
  BY DEF Init, ItemInv
<1>5. \A l \in LbID, s \in Server : s \notin attached[l]
  BY DEF Init
<1>6. PlaceInv
  BY <1>5 DEF Init, PlaceInv
<1>7. ResultInv
  BY DEF Init, ResultInv, AddedIsAttached, RemovedIsDetached
<1>8. SingleInv /\ IdleInv
  BY DEF Init, SingleInv, IdleInv, Visible
<1> QED
  BY <1>1, <1>2, <1>3, <1>4, <1>6, <1>7, <1>8 DEF LbInv

-----------------------------------------------------------------------------
(***************************************************************************)
(* The actions                                                             *)
(***************************************************************************)

\* A call takes over a virtual server that no other call works on.
LEMMA CallKeeps ==
  ASSUME LbInv, NEW p \in Proc, NEW o \in {"add", "remove"}, NEW s \in Server, Call(p, o, s)
  PROVE  LbInv'
<1> USE NoProcAssumption, NoLbAssumption, ServerAssumption, BoundsAssumption, ModeAssumption
<1> USE DEF Call, Goto, nsxt
<1>0. /\ TypeOK /\ LockInv /\ StageInv /\ NsxtInv /\ ModeInv
      /\ ItemInv /\ PlaceInv /\ ResultInv /\ SingleInv /\ IdleInv
  BY DEF LbInv
<1>1. TypeOK'
  BY <1>0 DEF TypeOK
<1>2. LockInv'
  BY <1>0 DEF TypeOK, LockInv, Locked
<1>3. StageInv'
  BY <1>0 DEF TypeOK, StageInv
<1>4. NsxtInv'
  BY <1>0 DEF NsxtInv
<1>5. ModeInv'
  BY <1>0 DEF ModeInv
<1>6. ItemInv'
  BY <1>0 DEF TypeOK, LockInv, ItemInv, NsxtInv, Managed, Visible, Locked
<1>7. PlaceInv'
  BY <1>0 DEF TypeOK, StageInv, PlaceInv, Visible
<1>8. ResultInv'
  BY <1>0 DEF TypeOK, ResultInv, AddedIsAttached, RemovedIsDetached
<1>9. SingleInv'
  BY <1>0 DEF SingleInv, Visible
<1>10. IdleInv'
  BY <1>0 DEF TypeOK, LockInv, IdleInv, Locked
<1> QED
  BY <1>1, <1>2, <1>3, <1>4, <1>5, <1>6, <1>7, <1>8, <1>9, <1>10 DEF LbInv

\* The goroutine that gets lbLock is the only one inside.
LEMMA LockKeeps ==
  ASSUME LbInv, NEW p \in Proc, Lock(p)
  PROVE  LbInv'
<1> USE NoProcAssumption, NoLbAssumption, ServerAssumption, BoundsAssumption, ModeAssumption
<1> USE DEF Lock, Goto, nsxt, local
<1>0. /\ TypeOK /\ LockInv /\ StageInv /\ NsxtInv /\ ModeInv
      /\ ItemInv /\ PlaceInv /\ ResultInv /\ SingleInv /\ IdleInv
  BY DEF LbInv
<1>1. TypeOK'
  BY <1>0 DEF TypeOK
<1>2. LockInv'
  BY <1>0 DEF TypeOK, LockInv, Locked
<1>3. StageInv'
  BY <1>0 DEF TypeOK, StageInv
<1>4. NsxtInv'
  BY <1>0 DEF NsxtInv
<1>5. ModeInv'
  BY <1>0 DEF ModeInv
<1>6. ItemInv'
  BY <1>0 DEF TypeOK, LockInv, ItemInv, NsxtInv, Managed, Visible, Locked
<1>7. PlaceInv'
  BY <1>0 DEF TypeOK, StageInv, PlaceInv, Visible
<1>8. ResultInv'
  BY <1>0 DEF TypeOK, ResultInv, AddedIsAttached, RemovedIsDetached
<1>9. SingleInv'
  BY <1>0 DEF SingleInv, Visible
<1>10. IdleInv'
  BY <1>0 DEF TypeOK, LockInv, IdleInv, Locked
<1> QED
  BY <1>1, <1>2, <1>3, <1>4, <1>5, <1>6, <1>7, <1>8, <1>9, <1>10 DEF LbInv

\* The service that is read is current, and the filter accepts it.
LEMMA FindForAddKeeps ==
  ASSUME LbInv, NEW p \in Proc, FindForAdd(p)
  PROVE  LbInv'
<1> USE NoProcAssumption, NoLbAssumption, ServerAssumption, BoundsAssumption, ModeAssumption
<1> USE DEF FindForAdd, Goto, nsxt, local, Return, Fault, FindLoadBalancerService
<1>0. /\ TypeOK /\ LockInv /\ StageInv /\ NsxtInv /\ ModeInv
      /\ ItemInv /\ PlaceInv /\ ResultInv /\ SingleInv /\ IdleInv
  BY DEF LbInv
<1>1. TypeOK'
  <2>1. item' \in [Proc -> Copy]
    BY <1>0, CopyType DEF TypeOK
  <2>2. /\ pc' \in [Proc -> {"idle", "lock", "find", "create", "update", "delete", "return"}]
        /\ result' \in [Proc -> {"ok", "fault", "error"}]
        /\ faults' \in 0 .. MaxFaults
    BY <1>0 DEF TypeOK
  <2>3. /\ lbs' \in SUBSET LbID /\ used' \in SUBSET LbID
        /\ attached' \in [LbID -> SUBSET (Server \cup Foreign)]
        /\ lbServiceID' \in LbID \cup {NoLb}
    BY <1>0, CopyType DEF TypeOK
  <2> QED
    BY <1>0, <2>1, <2>2, <2>3 DEF TypeOK
<1>2. LockInv'
  BY <1>0 DEF TypeOK, LockInv, Locked
<1>3. StageInv'
  BY <1>0 DEF TypeOK, StageInv
<1>4. NsxtInv'
  BY <1>0 DEF NsxtInv
<1>5. ModeInv'
  BY <1>0 DEF ModeInv
<1>6. ItemInv'
  BY <1>0 DEF TypeOK, LockInv, ItemInv, NsxtInv, Managed, Visible, Locked
<1>7. PlaceInv'
  BY <1>0 DEF TypeOK, StageInv, PlaceInv, Visible
<1>8. ResultInv'
  BY <1>0
     DEF TypeOK, LockInv, StageInv, ItemInv, PlaceInv, ResultInv, AddedIsAttached,
         RemovedIsDetached, Locked, Visible
<1>9. SingleInv'
  BY <1>0 DEF SingleInv, Visible
<1>10. IdleInv'
  BY <1>0 DEF TypeOK, LockInv, IdleInv, Locked
<1> QED
  BY <1>1, <1>2, <1>3, <1>4, <1>5, <1>6, <1>7, <1>8, <1>9, <1>10 DEF LbInv

\* The service that is created is the only one that the filter accepts.
LEMMA CreateLbKeeps ==
  ASSUME LbInv, NEW p \in Proc, CreateLb(p)
  PROVE  LbInv'
<1> USE NoProcAssumption, NoLbAssumption, ServerAssumption, BoundsAssumption, ModeAssumption
<1> USE DEF CreateLb, Goto, local, Return, Fault
<1>0. /\ TypeOK /\ LockInv /\ StageInv /\ NsxtInv /\ ModeInv
      /\ ItemInv /\ PlaceInv /\ ResultInv /\ SingleInv /\ IdleInv
  BY DEF LbInv
<1>1. TypeOK'
  <2>1. item' \in [Proc -> Copy]
    BY <1>0, CopyType DEF TypeOK
  <2>2. /\ pc' \in [Proc -> {"idle", "lock", "find", "create", "update", "delete", "return"}]
        /\ result' \in [Proc -> {"ok", "fault", "error"}]
        /\ faults' \in 0 .. MaxFaults
    BY <1>0 DEF TypeOK
  <2>3. /\ lbs' \in SUBSET LbID /\ used' \in SUBSET LbID
        /\ attached' \in [LbID -> SUBSET (Server \cup Foreign)]
        /\ lbServiceID' \in LbID \cup {NoLb}
    BY <1>0, CopyType DEF TypeOK
  <2> QED
    BY <1>0, <2>1, <2>2, <2>3 DEF TypeOK
<1>2. LockInv'
  BY <1>0 DEF TypeOK, LockInv, Locked
<1>3. StageInv'
  BY <1>0 DEF TypeOK, StageInv
<1>4. NsxtInv'
  BY <1>0 DEF TypeOK, NsxtInv, ItemInv
<1>5. ModeInv'
  BY <1>0 DEF TypeOK, ModeInv, ItemInv
<1>6. ItemInv'
  <2>1. \A q \in Proc : q # p => pc'[q] \in {"idle", "lock"}
    BY <1>0 DEF TypeOK, LockInv, Locked
  <2>2. CASE pc'[p] = "return"
    BY <1>0, <2>1, <2>2 DEF TypeOK, ItemInv
  <2>3. CASE pc'[p] # "return"
    <3>1. PICK l \in LbID \ used : /\ lbs' = lbs \cup {l}
                                   /\ item'[p] = [id |-> l, servers |-> {}]
                                   /\ pc'[p] = "update"
      BY <1>0, <2>3 DEF TypeOK
    <3>2. op[p] = "add" /\ attached[l] = {} /\ l \notin mode.preset
      BY <1>0, <3>1 DEF NsxtInv, ItemInv
    <3>3. /\ item'[p].id = l /\ item'[p].servers = {} /\ Visible(l)'
          /\ l \in lbs' /\ attached' = attached /\ op' = op
      BY <3>1, <3>2 DEF Visible
    <3> HIDE DEF CreateLb, local, Fault, Return, Goto
    <3> QED
      BY <2>1, <3>1, <3>2, <3>3 DEF ItemInv
  <2> QED
    BY <2>2, <2>3
<1>7. PlaceInv'
  BY <1>0 DEF TypeOK, StageInv, ItemInv, PlaceInv, NsxtInv, Visible
<1>8. ResultInv'
  BY <1>0
     DEF TypeOK, LockInv, StageInv, ItemInv, PlaceInv, NsxtInv, ResultInv,
         AddedIsAttached, RemovedIsDetached, Locked, Visible
<1>9. SingleInv'
  BY <1>0 DEF TypeOK, ItemInv, NsxtInv, SingleInv, Visible
<1>10. IdleInv'
  BY <1>0 DEF TypeOK, LockInv, ItemInv, NsxtInv, ModeInv, IdleInv, Managed, Locked
<1> QED
  BY <1>1, <1>2, <1>3, <1>4, <1>5, <1>6, <1>7, <1>8, <1>9, <1>10 DEF LbInv

\* The copy is written back with the new virtual server: none is lost.
LEMMA UpdateForAddKeeps ==
  ASSUME LbInv, NEW p \in Proc, UpdateForAdd(p)
  PROVE  LbInv'
<1> USE NoProcAssumption, NoLbAssumption, ServerAssumption, BoundsAssumption, ModeAssumption
<1> USE DEF UpdateForAdd, Goto, local, Return, Fault, Answer
<1>0. /\ TypeOK /\ LockInv /\ StageInv /\ NsxtInv /\ ModeInv
      /\ ItemInv /\ PlaceInv /\ ResultInv /\ SingleInv /\ IdleInv
  BY DEF LbInv
<1>1. TypeOK'
  <2>1. item' \in [Proc -> Copy]
    BY <1>0, CopyType DEF TypeOK
  <2>2. /\ pc' \in [Proc -> {"idle", "lock", "find", "create", "update", "delete", "return"}]
        /\ result' \in [Proc -> {"ok", "fault", "error"}]
        /\ faults' \in 0 .. MaxFaults
    BY <1>0 DEF TypeOK
  <2>3. /\ lbs' \in SUBSET LbID /\ used' \in SUBSET LbID
        /\ attached' \in [LbID -> SUBSET (Server \cup Foreign)]
        /\ lbServiceID' \in LbID \cup {NoLb}
    BY <1>0, CopyType DEF TypeOK
  <2> QED
    BY <1>0, <2>1, <2>2, <2>3 DEF TypeOK
<1>2. LockInv'
  BY <1>0 DEF TypeOK, LockInv, Locked
<1>3. StageInv'
  BY <1>0 DEF TypeOK, StageInv
<1>4. NsxtInv'
  BY <1>0 DEF TypeOK, NsxtInv, ItemInv
<1>5. ModeInv'
  BY <1>0 DEF ModeInv
<1>6. ItemInv'
  BY <1>0 DEF TypeOK, LockInv, ItemInv, NsxtInv, Managed, Visible, Locked
<1>7. PlaceInv'
  <2>1. CASE UNCHANGED attached
    BY <1>0, <2>1 DEF TypeOK, StageInv, PlaceInv, Visible
  <2>2. CASE attached' # attached
    <3> DEFINE i == item[p].id
    <3>1. /\ i \in lbs /\ (mode.router => Visible(i))
          /\ \A l \in LbID : srv[p] \notin attached[l]
      BY <1>0 DEF ItemInv, PlaceInv
    <3>2. attached' = [attached EXCEPT ![i] = item[p].servers \cup {srv[p]}]
      BY <2>2
    <3>3. item[p].servers = attached[i]
      BY <1>0 DEF ItemInv
    <3>4. \A l \in LbID, s \in Server :
            s \in attached'[l] <=> s \in attached[l] \/ (l = i /\ s = srv[p])
      BY <1>0, <3>2, <3>3 DEF TypeOK
    <3>5. srv[p] \in Server /\ stage[srv[p]] = "busy" /\ i \in LbID
      BY <1>0, <3>1 DEF TypeOK, StageInv
    <3>6. /\ UNCHANGED <<lbs, mode, stage, op, srv>>
          /\ \A q \in Proc : pc'[q] # "return" => pc'[q] = pc[q]
          /\ pc[p] # "idle" /\ pc'[p] = "return"
      BY <1>0 DEF TypeOK
    <3> HIDE DEF UpdateForAdd, local, Answer, Fault, Return, Goto, i
    <3>7. \A s \in Server, k, l \in LbID : s \in attached'[k] /\ s \in attached'[l] => k = l
      BY <1>0, <3>1, <3>4 DEF PlaceInv
    <3>8. \A s \in Server : stage[s] = "new" => \A l \in LbID : s \notin attached'[l]
      BY <1>0, <3>4, <3>5 DEF PlaceInv
    <3>9. \A q \in Proc : pc'[q] \in {"lock", "find", "create", "update"} /\ op[q] = "add" =>
            \A l \in LbID : srv[q] \notin attached'[l]
      BY <1>0, <3>4, <3>6 DEF StageInv, PlaceInv, TypeOK
    <3>10. mode.router => \A l \in lbs : (\E s \in Server : s \in attached'[l]) => Visible(l)
      BY <1>0, <3>1, <3>4 DEF TypeOK, PlaceInv
    <3> QED
      BY <3>6, <3>7, <3>8, <3>9, <3>10 DEF PlaceInv, Visible
  <2> QED
    BY <2>1, <2>2
<1>8. ResultInv'
  BY <1>0
     DEF TypeOK, LockInv, StageInv, ItemInv, PlaceInv, ResultInv, AddedIsAttached,
         RemovedIsDetached, Locked, Visible
<1>9. SingleInv'
  BY <1>0 DEF SingleInv, Visible
<1>10. IdleInv'
  <2> SUFFICES ASSUME faults' = 0, restarts' = 0, NEW l \in lbs \ mode.preset, attached'[l] = {}
               PROVE  \E q \in Proc : pc'[q] = "update" /\ op[q] = "add" /\ item[q].id = l
    BY DEF IdleInv
  <2>1. attached' = [attached EXCEPT ![item[p].id] = item[p].servers \cup {srv[p]}]
    BY <1>0 DEF TypeOK
  <2>2. l # item[p].id /\ attached[l] = {} /\ faults = 0 /\ restarts = 0
    BY <1>0, <2>1 DEF TypeOK
  <2>3. PICK q \in Proc : pc[q] = "update" /\ op[q] = "add" /\ item[q].id = l
    BY <1>0, <2>2 DEF IdleInv
  <2> QED
    BY <1>0, <2>2, <2>3 DEF LockInv, Locked
<1> QED
  BY <1>1, <1>2, <1>3, <1>4, <1>5, <1>6, <1>7, <1>8, <1>9, <1>10 DEF LbInv

\* The service of the virtual server is found, if there is one.
LEMMA FindForRemoveKeeps ==
  ASSUME LbInv, NEW p \in Proc, FindForRemove(p)
  PROVE  LbInv'
<1> USE NoProcAssumption, NoLbAssumption, ServerAssumption, BoundsAssumption, ModeAssumption
<1> USE DEF FindForRemove, Goto, nsxt, local, Return, Fault, FindLoadBalancerServiceForVirtualServer
<1>0. /\ TypeOK /\ LockInv /\ StageInv /\ NsxtInv /\ ModeInv
      /\ ItemInv /\ PlaceInv /\ ResultInv /\ SingleInv /\ IdleInv
  BY DEF LbInv
<1>1. TypeOK'
  <2>1. item' \in [Proc -> Copy]
    BY <1>0, CopyType DEF TypeOK
  <2>2. /\ pc' \in [Proc -> {"idle", "lock", "find", "create", "update", "delete", "return"}]
        /\ result' \in [Proc -> {"ok", "fault", "error"}]
        /\ faults' \in 0 .. MaxFaults
    BY <1>0 DEF TypeOK
  <2>3. /\ lbs' \in SUBSET LbID /\ used' \in SUBSET LbID
        /\ attached' \in [LbID -> SUBSET (Server \cup Foreign)]
        /\ lbServiceID' \in LbID \cup {NoLb}
    BY <1>0, CopyType DEF TypeOK
  <2> QED
    BY <1>0, <2>1, <2>2, <2>3 DEF TypeOK
<1>2. LockInv'
  BY <1>0 DEF TypeOK, LockInv, Locked
<1>3. StageInv'
  BY <1>0 DEF TypeOK, StageInv
<1>4. NsxtInv'
  BY <1>0 DEF NsxtInv
<1>5. ModeInv'
  BY <1>0 DEF ModeInv
<1>6. ItemInv'
  BY <1>0 DEF TypeOK, LockInv, ItemInv, NsxtInv, Managed, Visible, Locked
<1>7. PlaceInv'
  BY <1>0 DEF TypeOK, StageInv, PlaceInv, Visible
<1>8. ResultInv'
  BY <1>0
     DEF TypeOK, LockInv, StageInv, ItemInv, PlaceInv, ResultInv, AddedIsAttached,
         RemovedIsDetached, Locked, Visible
<1>9. SingleInv'
  BY <1>0 DEF SingleInv, Visible
<1>10. IdleInv'
  BY <1>0 DEF TypeOK, LockInv, IdleInv, Locked
<1> QED
  BY <1>1, <1>2, <1>3, <1>4, <1>5, <1>6, <1>7, <1>8, <1>9, <1>10 DEF LbInv

\* The copy is written back without the virtual server: none else is lost.
LEMMA UpdateForRemoveKeeps ==
  ASSUME LbInv, NEW p \in Proc, UpdateForRemove(p)
  PROVE  LbInv'
<1> USE NoProcAssumption, NoLbAssumption, ServerAssumption, BoundsAssumption, ModeAssumption
<1> USE DEF UpdateForRemove, Goto, local, Return, Fault, Answer
<1>0. /\ TypeOK /\ LockInv /\ StageInv /\ NsxtInv /\ ModeInv
      /\ ItemInv /\ PlaceInv /\ ResultInv /\ SingleInv /\ IdleInv
  BY DEF LbInv
<1>1. TypeOK'
  <2>1. item' \in [Proc -> Copy]
    BY <1>0, CopyType DEF TypeOK
  <2>2. /\ pc' \in [Proc -> {"idle", "lock", "find", "create", "update", "delete", "return"}]
        /\ result' \in [Proc -> {"ok", "fault", "error"}]
        /\ faults' \in 0 .. MaxFaults
    BY <1>0 DEF TypeOK
  <2>3. /\ lbs' \in SUBSET LbID /\ used' \in SUBSET LbID
        /\ attached' \in [LbID -> SUBSET (Server \cup Foreign)]
        /\ lbServiceID' \in LbID \cup {NoLb}
    BY <1>0, CopyType DEF TypeOK
  <2> QED
    BY <1>0, <2>1, <2>2, <2>3 DEF TypeOK
<1>2. LockInv'
  BY <1>0 DEF TypeOK, LockInv, Locked
<1>3. StageInv'
  BY <1>0 DEF TypeOK, StageInv
<1>4. NsxtInv'
  BY <1>0 DEF TypeOK, NsxtInv, ItemInv
<1>5. ModeInv'
  BY <1>0 DEF ModeInv
<1>6. ItemInv'
  BY <1>0 DEF TypeOK, LockInv, ItemInv, NsxtInv, Managed, Visible, Locked
<1>7. PlaceInv'
  BY <1>0 DEF TypeOK, StageInv, ItemInv, PlaceInv, NsxtInv, Visible
<1>8. ResultInv'
  <2>1. CASE Fault(p) /\ UNCHANGED attached
    BY <1>0, <2>1 DEF TypeOK, LockInv, StageInv, ResultInv, AddedIsAttached, RemovedIsDetached,
       Locked
  <2>2. CASE attached' = [attached EXCEPT ![item[p].id] = item[p].servers]
    <3> DEFINE i == item[p].id
    <3>1. attached' = [attached EXCEPT ![i] = item[p].servers]
      BY <2>2
    <3>2. /\ i \in lbs /\ srv[p] \in attached[i]
          /\ item[p].servers = attached[i] \ {srv[p]} /\ stage[srv[p]] = "busy"
      BY <1>0 DEF ItemInv, StageInv
    <3>3. \A l \in lbs, s \in Server :
            s \in attached'[l] <=> s \in attached[l] /\ ~(l = i /\ s = srv[p])
      BY <1>0, <3>1, <3>2 DEF TypeOK
    <3>4. /\ UNCHANGED <<lbs, mode, stage, op, srv>> /\ op[p] = "remove"
          /\ \A q \in Proc : pc'[q] = "return" => q = p
      BY <1>0 DEF TypeOK, LockInv, Locked
    <3> HIDE DEF UpdateForRemove, local, Answer, Fault, Return, Goto, i
    <3>5. AddedIsAttached'
      BY <1>0, <3>2, <3>3, <3>4 DEF ResultInv, AddedIsAttached
    <3>6. mode.router => RemovedIsDetached'
      BY <1>0, <3>3, <3>4 DEF ResultInv, RemovedIsDetached
    <3>7. \A l \in lbs : srv[p] \notin attached'[l]
      BY <1>0, <3>2, <3>3 DEF TypeOK, PlaceInv
    <3> QED
      BY <3>4, <3>5, <3>6, <3>7 DEF ResultInv
  <2> QED
    BY <2>1, <2>2
<1>9. SingleInv'
  BY <1>0 DEF SingleInv, Visible
<1>10. IdleInv'
  BY <1>0 DEF TypeOK, LockInv, ItemInv, NsxtInv, ModeInv, IdleInv, Managed, Locked
<1> QED
  BY <1>1, <1>2, <1>3, <1>4, <1>5, <1>6, <1>7, <1>8, <1>9, <1>10 DEF LbInv

\* The service is deleted with its last virtual server.
LEMMA DeleteLbKeeps ==
  ASSUME LbInv, NEW p \in Proc, DeleteLb(p)
  PROVE  LbInv'
<1> USE NoProcAssumption, NoLbAssumption, ServerAssumption, BoundsAssumption, ModeAssumption
<1> USE DEF DeleteLb, Goto, local, Return, Fault, Answer
<1>0. /\ TypeOK /\ LockInv /\ StageInv /\ NsxtInv /\ ModeInv
      /\ ItemInv /\ PlaceInv /\ ResultInv /\ SingleInv /\ IdleInv
  BY DEF LbInv
<1>1. TypeOK'
  <2>1. item' \in [Proc -> Copy]
    BY <1>0, CopyType DEF TypeOK
  <2>2. /\ pc' \in [Proc -> {"idle", "lock", "find", "create", "update", "delete", "return"}]
        /\ result' \in [Proc -> {"ok", "fault", "error"}]
        /\ faults' \in 0 .. MaxFaults
    BY <1>0 DEF TypeOK
  <2>3. /\ lbs' \in SUBSET LbID /\ used' \in SUBSET LbID
        /\ attached' \in [LbID -> SUBSET (Server \cup Foreign)]
        /\ lbServiceID' \in LbID \cup {NoLb}
    BY <1>0, CopyType DEF TypeOK
  <2> QED
    BY <1>0, <2>1, <2>2, <2>3 DEF TypeOK
<1>2. LockInv'
  BY <1>0 DEF TypeOK, LockInv, Locked
<1>3. StageInv'
  BY <1>0 DEF TypeOK, StageInv
<1>4. NsxtInv'
  BY <1>0 DEF TypeOK, NsxtInv, ItemInv
<1>5. ModeInv'
  BY <1>0 DEF ModeInv
<1>6. ItemInv'
  BY <1>0 DEF TypeOK, LockInv, ItemInv, NsxtInv, Managed, Visible, Locked
<1>7. PlaceInv'
  BY <1>0 DEF TypeOK, StageInv, ItemInv, PlaceInv, NsxtInv, Visible
<1>8. ResultInv'
  BY <1>0
     DEF TypeOK, LockInv, StageInv, ItemInv, PlaceInv, ResultInv, AddedIsAttached,
         RemovedIsDetached, Locked, Visible
<1>9. SingleInv'
  BY <1>0 DEF SingleInv, Visible
<1>10. IdleInv'
  BY <1>0 DEF TypeOK, LockInv, ItemInv, NsxtInv, ModeInv, IdleInv, Managed, Locked
<1> QED
  BY <1>1, <1>2, <1>3, <1>4, <1>5, <1>6, <1>7, <1>8, <1>9, <1>10 DEF LbInv

\* The caller is told what has been achieved.
LEMMA UnlockKeeps ==
  ASSUME LbInv, NEW p \in Proc, Unlock(p)
  PROVE  LbInv'
<1> USE NoProcAssumption, NoLbAssumption, ServerAssumption, BoundsAssumption, ModeAssumption
<1> USE DEF Unlock, Goto, nsxt
<1>0. /\ TypeOK /\ LockInv /\ StageInv /\ NsxtInv /\ ModeInv
      /\ ItemInv /\ PlaceInv /\ ResultInv /\ SingleInv /\ IdleInv
  BY DEF LbInv
<1>1. TypeOK'
  BY <1>0 DEF TypeOK, Copy, NoCopy
<1>2. LockInv'
  BY <1>0 DEF TypeOK, LockInv, Locked
<1>3. StageInv'
  BY <1>0 DEF TypeOK, StageInv
<1>4. NsxtInv'
  BY <1>0 DEF NsxtInv
<1>5. ModeInv'
  BY <1>0 DEF ModeInv
<1>6. ItemInv'
  BY <1>0 DEF TypeOK, LockInv, ItemInv, NsxtInv, Managed, Visible, Locked
<1>7. PlaceInv'
  BY <1>0 DEF TypeOK, StageInv, PlaceInv, Visible
<1>8. ResultInv'
  BY <1>0 DEF TypeOK, StageInv, ResultInv, AddedIsAttached, RemovedIsDetached
<1>9. SingleInv'
  BY <1>0 DEF SingleInv, Visible
<1>10. IdleInv'
  BY <1>0 DEF TypeOK, LockInv, IdleInv, Locked
<1> QED
  BY <1>1, <1>2, <1>3, <1>4, <1>5, <1>6, <1>7, <1>8, <1>9, <1>10 DEF LbInv

\* After a restart no goroutine is inside, and what was under way is unknown to the callers.
LEMMA RestartKeeps ==
  ASSUME LbInv, Restart
  PROVE  LbInv'
<1> USE NoProcAssumption, NoLbAssumption, ServerAssumption, BoundsAssumption, ModeAssumption
<1> USE DEF Restart, nsxt
<1>0. /\ TypeOK /\ LockInv /\ StageInv /\ NsxtInv /\ ModeInv
      /\ ItemInv /\ PlaceInv /\ ResultInv /\ SingleInv /\ IdleInv
  BY DEF LbInv
<1>1. TypeOK'
  BY <1>0 DEF TypeOK, Copy, NoCopy
<1>2. LockInv' /\ StageInv'
  BY DEF LockInv, StageInv, Locked
<1>3. NsxtInv' /\ ModeInv'
  BY <1>0 DEF NsxtInv, ModeInv
<1>4. ItemInv'
  BY DEF ItemInv
<1>5. PlaceInv'
  BY <1>0 DEF PlaceInv, Visible
<1>6. ResultInv'
  BY <1>0 DEF ResultInv, AddedIsAttached, RemovedIsDetached
<1>7. SingleInv'
  BY <1>0 DEF SingleInv, Visible
<1>8. IdleInv'
  BY <1>0 DEF TypeOK, IdleInv
<1> QED
  BY <1>1, <1>2, <1>3, <1>4, <1>5, <1>6, <1>7, <1>8 DEF LbInv

\* Every step of lbservice.go and of its callers preserves the invariant.
LEMMA LbNext == LbInv /\ [Next]_vars => LbInv'
<1> SUFFICES ASSUME LbInv, [Next]_vars PROVE LbInv'
  OBVIOUS
<1>1. ASSUME NEW p \in Proc, NEW o \in {"add", "remove"}, NEW s \in Server, Call(p, o, s)
      PROVE  LbInv'
  BY <1>1, CallKeeps
<1>2. ASSUME NEW p \in Proc, Step(p) PROVE LbInv'
  BY <1>2, LockKeeps, FindForAddKeeps, CreateLbKeeps, UpdateForAddKeeps, FindForRemoveKeeps,
     UpdateForRemoveKeeps, DeleteLbKeeps, UnlockKeeps DEF Step
<1>3. CASE Restart
  BY <1>3, RestartKeeps
<1>4. CASE UNCHANGED vars
  BY <1>4 DEF vars, nsxt, LbInv, TypeOK, LockInv, StageInv, NsxtInv, ModeInv, ItemInv, PlaceInv,
     ResultInv, SingleInv, IdleInv, Managed, Visible, AddedIsAttached, RemovedIsDetached
<1> QED
  BY <1>1, <1>2, <1>3, <1>4 DEF Next

-----------------------------------------------------------------------------
(***************************************************************************)
(* The results                                                             *)
(***************************************************************************)

\* LbInv holds in every state of lbservice.go.
THEOREM LbServiceInvariant == Spec => []LbInv
BY LbInit, LbNext, PTL DEF Spec

\* The variables of lbservice.go always have values of their Go types.
THEOREM LbServiceTypeOK == Spec => []TypeOK
<1>1. LbInv => TypeOK
  BY DEF LbInv
<1> QED
  BY <1>1, LbServiceInvariant, PTL

\* A virtual server that addVirtualServerToLoadBalancerService has attached without an error
\* stays attached until it is detached, whatever the other goroutines do, whichever call
\* fails and whenever the controller restarts; in every mode of configuration.
THEOREM LbServiceAddedIsAttached == Spec => []AddedIsAttached
<1>1. LbInv => AddedIsAttached
  BY DEF LbInv, ResultInv
<1> QED
  BY <1>1, LbServiceInvariant, PTL

\* The configuration names the router (in managed mode it has to).
RouterGiven == \A m \in Mode : m.router

\* If a router is configured, a virtual server that removeVirtualServerFromLoadBalancerService
\* has detached without an error is attached to no service.  (Without a router the service is
\* not found by the virtual servers it has, and is left as it is.)
THEOREM LbServiceRemovedIsDetached ==
  ASSUME RouterGiven
  PROVE  Spec => []RemovedIsDetached
<1>1. LbInv => RemovedIsDetached
  BY DEF RouterGiven, LbInv, TypeOK, ResultInv
<1> QED
  BY <1>1, LbServiceInvariant, PTL

\* At most one of the services that exist beforehand is on the configured router.
RouterHasOne == \A m \in Mode : \A k, l \in m.onRouter : k = l

\* If the router has at most one service to begin with, the controller never works on a second
\* one: no lost answer, failure or restart makes findLoadBalancerService miss what it created.
THEOREM LbServiceSingleService ==
  ASSUME RouterHasOne
  PROVE  Spec => []SingleService
<1>1. LbInv => SingleService
  <2> SUFFICES ASSUME LbInv PROVE SingleService
    OBVIOUS
  <2> DEFINE V == {l \in lbs : Visible(l)}
  <2>1. \A k, l \in V : k = l
    BY DEF RouterHasOne, LbInv, TypeOK, SingleInv
  <2>2. CASE V = {}
    BY <2>2, FS_EmptySet DEF SingleService
  <2>3. CASE V # {}
    <3>1. PICK l \in V : TRUE
      BY <2>3
    <3>2. V = {l}
      BY <2>1, <3>1
    <3> QED
      BY <3>2, FS_Singleton DEF SingleService
  <2> QED
    BY <2>2, <2>3
<1> QED
  BY <1>1, LbServiceInvariant, PTL

\* As long as nothing has failed, a service that the controller created is gone once every
\* virtual server has been detached.
THEOREM LbServiceNoIdleService == Spec => []NoIdleService
<1>1. LbInv => NoIdleService
  <2> SUFFICES ASSUME LbInv, faults = 0, restarts = 0,
                      \A s \in Server : stage[s] \in {"new", "removed"},
                      NEW l \in lbs, l \notin mode.preset
               PROVE  FALSE
    BY DEF NoIdleService
  <2>1. \A p \in Proc : pc[p] = "idle"
    BY DEF LbInv, TypeOK, StageInv
  <2>2. attached[l] # {} /\ attached[l] \subseteq Server
    BY <2>1 DEF LbInv, TypeOK, IdleInv, NsxtInv
  <2>3. PICK s \in Server : s \in attached[l]
    BY <2>2
  <2>4. stage[s] = "removed"
    BY <2>3 DEF LbInv, TypeOK, PlaceInv
  <2>5. mode.router
    BY ModeAssumption DEF LbInv, TypeOK, ModeInv
  <2> QED
    BY <2>3, <2>4, <2>5 DEF LbInv, ResultInv, RemovedIsDetached
<1> QED
  BY <1>1, LbServiceInvariant, PTL

-----------------------------------------------------------------------------
(***************************************************************************)
(* The refinement of LbRegistry                                            *)
(***************************************************************************)

\* A step that leaves the services in NSX-T and the configuration alone.
LEMMA RegistryStutter ==
  ASSUME UNCHANGED <<mode, lbs, attached>>
  PROVE  UNCHANGED <<Managed, lbs, attached>>
BY DEF Managed

\* CreateLoadBalancerService, also if its answer is lost: the service is empty.
LEMMA CreateLbRefines ==
  ASSUME LbInv, NEW p \in Proc, CreateLb(p)
  PROVE  [Registry!Next /\ UNCHANGED Managed]_<<Managed, lbs, attached>>
<1>1. TypeOK /\ NsxtInv /\ ModeInv /\ ItemInv
  BY DEF LbInv
<1>2. CASE UNCHANGED lbs
  BY <1>2 DEF CreateLb, local, Managed
<1>3. CASE lbs' # lbs
  <2>1. PICK l \in LbID \ used : lbs' = lbs \cup {l} /\ attached' = attached /\ mode' = mode
    BY <1>3 DEF CreateLb, local
  <2>2. l \notin lbs /\ attached[l] = {}
    BY <1>1, <2>1 DEF NsxtInv
  <2>3. attached' = [attached EXCEPT ![l] = {}]
    BY <1>1, <2>1, <2>2 DEF TypeOK
  <2>4. Managed /\ UNCHANGED Managed
    BY <1>1, <2>1 DEF CreateLb, ItemInv, ModeInv, Managed
  <2>5. Registry!Create(l)
    BY <2>1, <2>2, <2>3, <2>4 DEF Registry!Create
  <2> QED
    BY <2>1, <2>4, <2>5 DEF Registry!Next
<1> QED
  BY <1>2, <1>3

\* UpdateLoadBalancerService with the copy that has one more virtual server.
LEMMA UpdateForAddRefines ==
  ASSUME LbInv, NEW p \in Proc, UpdateForAdd(p)
  PROVE  [Registry!Next /\ UNCHANGED Managed]_<<Managed, lbs, attached>>
<1> DEFINE i == item[p].id
<1>1. /\ i \in LbID /\ i \in lbs /\ item[p].servers = attached[i] /\ srv[p] \in Server
      /\ UNCHANGED Managed /\ UNCHANGED lbs
  BY DEF LbInv, TypeOK, ItemInv, UpdateForAdd, local, Managed
<1>2. CASE UNCHANGED attached
  BY <1>1, <1>2
<1>3. CASE attached' = [attached EXCEPT ![i] = item[p].servers \cup {srv[p]}]
  <2>1. Registry!Attach(i, srv[p])
    BY <1>1, <1>3 DEF Registry!Attach
  <2> QED
    BY <1>1, <2>1 DEF Registry!Next
<1> QED
  BY <1>2, <1>3 DEF UpdateForAdd

\* UpdateLoadBalancerService with the copy that has one virtual server less.
LEMMA UpdateForRemoveRefines ==
  ASSUME LbInv, NEW p \in Proc, UpdateForRemove(p)
  PROVE  [Registry!Next /\ UNCHANGED Managed]_<<Managed, lbs, attached>>
<1> DEFINE i == item[p].id
<1>1. /\ i \in LbID /\ i \in lbs /\ item[p].servers = attached[i] \ {srv[p]} /\ srv[p] \in Server
      /\ UNCHANGED Managed /\ UNCHANGED lbs
  BY DEF LbInv, TypeOK, ItemInv, UpdateForRemove, local, Managed
<1>2. CASE UNCHANGED attached
  BY <1>1, <1>2
<1>3. CASE attached' = [attached EXCEPT ![i] = item[p].servers]
  <2>1. Registry!Detach(i, srv[p])
    BY <1>1, <1>3 DEF Registry!Detach
  <2> QED
    BY <1>1, <2>1 DEF Registry!Next
<1> QED
  BY <1>2, <1>3 DEF UpdateForRemove

\* DeleteLoadBalancerService: the service has no other virtual server.
LEMMA DeleteLbRefines ==
  ASSUME LbInv, NEW p \in Proc, DeleteLb(p)
  PROVE  [Registry!Next /\ UNCHANGED Managed]_<<Managed, lbs, attached>>
<1> DEFINE i == item[p].id
<1>1. /\ i \in LbID /\ i \in lbs /\ attached[i] \subseteq {srv[p]} /\ srv[p] \in Server
      /\ Managed /\ UNCHANGED Managed
  BY DEF LbInv, TypeOK, ItemInv, DeleteLb, local, Managed
<1>2. CASE UNCHANGED <<lbs, attached>>
  BY <1>1, <1>2
<1>3. CASE lbs' = lbs \ {i} /\ attached' = [attached EXCEPT ![i] = {}]
  <2>1. Registry!Delete(i, srv[p])
    BY <1>1, <1>3 DEF Registry!Delete
  <2> QED
    BY <1>1, <2>1 DEF Registry!Next
<1> QED
  BY <1>2, <1>3 DEF DeleteLb

\* The read-modify-write operations of lbservice.go implement the atomic ones of LbRegistry.
THEOREM LbServiceImplementsLbRegistry == Spec => ImplementsLbRegistry
<1>1. Init => Registry!Init
  BY ModeAssumption DEF Init, Registry!Init, Managed
<1>2. LbInv /\ [Next]_vars => [Registry!Next /\ UNCHANGED Managed]_<<Managed, lbs, attached>>
  <2> SUFFICES ASSUME LbInv, [Next]_vars
               PROVE  [Registry!Next /\ UNCHANGED Managed]_<<Managed, lbs, attached>>
    OBVIOUS
  <2>1. CASE UNCHANGED <<mode, lbs, attached>>
    BY <2>1, RegistryStutter
  <2>2. ASSUME NEW p \in Proc, Step(p), ~ UNCHANGED <<mode, lbs, attached>>
        PROVE  CreateLb(p) \/ UpdateForAdd(p) \/ UpdateForRemove(p) \/ DeleteLb(p)
    BY <2>2 DEF Step, Lock, FindForAdd, FindForRemove, Unlock, nsxt, local
  <2>3. ASSUME ~ UNCHANGED <<mode, lbs, attached>>
        PROVE  \E p \in Proc : Step(p)
    BY <2>3 DEF Next, Call, Restart, vars, nsxt
  <2> QED
    BY <2>1, <2>2, <2>3, CreateLbRefines, UpdateForAddRefines, UpdateForRemoveRefines,
       DeleteLbRefines
<1> QED
  BY <1>1, <1>2, LbServiceInvariant, PTL DEF Spec, ImplementsLbRegistry, Registry!Spec
=============================================================================
