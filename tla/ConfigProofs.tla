---------------------------- MODULE ConfigProofs ----------------------------
(***************************************************************************)
(* Proofs about the start of the controller and its tags, for any          *)
(* configuration file, any IP pools in NSX-T, any tags sections, clusters, *)
(* services and ports, and any number of objects and restarts: TypeOK,     *)
(* PoolsAsConfigured, InvalidClassExplained, TagsReadBack and              *)
(* FindsOwnObjects.                                                        *)
(*                                                                         *)
(* FileInv says what the start has made of the file so far, ClassesInv     *)
(* which classes have been added; ObjectsInv says which tags an object     *)
(* has, whatever file the controller had that made it.                     *)
(***************************************************************************)
EXTENDS Config, TLAPS

-----------------------------------------------------------------------------
(***************************************************************************)
(* The inductive invariant                                                 *)
(***************************************************************************)

\* The IP pools that ref may stand for.
PoolsOf(ref) == IF ref.id # None THEN {ref.id} ELSE FindIPPoolByName(ref.name)

\* Phases after Complete.
Completed == Accepted \cup {"env", "validate"}

\* What is left of the file in cfg.
FileInv ==
  /\ phase \in {"complete", "disabled"} => cfg = file
  /\ phase \in Completed =>
       /\ cfg.lb = file.lb /\ cfg.tags = file.tags
       /\ cfg.classes = [c \in DOMAIN file.classes |-> Inherit(file.classes[c], file.lb.pool)]
  /\ phase \in Accepted => Valid
  /\ phase \in {"classes", "ready", "running"} =>
       default = IF Default \in DOMAIN cfg.classes THEN cfg.classes[Default] ELSE cfg.lb.pool

\* What has been added to the classes.
ClassesInv ==
  /\ phase \in {"start", "complete", "env", "validate", "setup"} => DOMAIN classes = {}
  /\ phase \in {"classes", "ready", "running"} =>
       /\ todo \subseteq DOMAIN file.classes
       /\ DOMAIN classes = (DOMAIN file.classes \cup {Default}) \ todo
       /\ \A c \in DOMAIN classes : classes[c] \in PoolsOf(Configured(c))
  /\ phase \in {"ready", "running"} => todo = {}

\* The tags of an object.
Tagged(o) ==
  /\ o.by = [owner |-> o.by.owner, cluster |-> o.by.cluster]
  /\ checkTags(o.tags, [owner |-> o.by.owner, cluster |-> o.by.cluster])
  /\ o.made.kind # "lbservice" => checkTags(o.tags, serviceTag(o.made.service))
  /\ o.made.kind \in {"pool", "monitor"} => checkTags(o.tags, portTag(o.made.port))
  /\ o.made.kind = "server" =>
       checkTags(o.tags, [ippoolid |-> o.made.pool, lbclass |-> o.made.class])

ObjectsInv == \A o \in objects : Tagged(o)

ConfigInv == TypeOK /\ FileInv /\ ClassesInv /\ InvalidClassExplained /\ ObjectsInv

-----------------------------------------------------------------------------
(***************************************************************************)
(* References to IP pools, and configurations                              *)
(***************************************************************************)

\* What a reference to an IP pool gives.
LEMMA RefTypes ==
  ASSUME NEW r \in PoolRef, NEW d \in PoolRef
  PROVE  /\ Inherit(r, d) \in PoolRef
         /\ FindIPPoolByName(r.name) \subseteq PoolId
         /\ PoolsOf(r) \subseteq PoolId
         /\ r.id # None => r.id \in PoolId
         /\ r # NoRef /\ r.id = None => r.name # None /\ r.name \in PoolName
         /\ NoRef \in PoolRef /\ NoRef.id = None /\ NoRef.name = None
<1>1. r \in [name : PoolName \cup {None}, id : PoolId \cup {None}]
  BY DEF PoolRef
<1>2. Inherit(r, d) \in PoolRef
  BY DEF Inherit
<1>3. FindIPPoolByName(r.name) \subseteq PoolId
  BY <1>1, PoolsAssumption DEF FindIPPoolByName
<1>4. r.id # None => r.id \in PoolId
  BY <1>1
<1>5. PoolsOf(r) \subseteq PoolId
  BY <1>3, <1>4 DEF PoolsOf
<1>6. r # NoRef /\ r.id = None => r.name # None /\ r.name \in PoolName
  BY <1>1 DEF NoRef
<1>7. NoRef \in PoolRef /\ NoRef.id = None /\ NoRef.name = None
  BY DEF NoRef, PoolRef
<1> QED BY <1>2, <1>3, <1>4, <1>5, <1>6, <1>7

\* The fields of a configuration.
LEMMA ConfigTypes ==
  ASSUME NEW x \in LBConfig
  PROVE  /\ x.lb \in LoadBalancerConfig /\ x.lb.pool \in PoolRef
         /\ DOMAIN x.classes \subseteq ClassName
         /\ x.classes \in [DOMAIN x.classes -> PoolRef]
         /\ \A c \in DOMAIN x.classes : x.classes[c] \in PoolRef
         /\ x.credentials \in SUBSET Credential /\ x.tags \in Section
<1>1. x.classes \in ClassConfigs /\ x.lb \in LoadBalancerConfig
      /\ x.credentials \in SUBSET Credential /\ x.tags \in Section
  BY DEF LBConfig
<1>2. PICK D \in SUBSET ClassName : x.classes \in [D -> PoolRef]
  BY <1>1 DEF ClassConfigs
<1>3. x.lb.pool \in PoolRef
  BY <1>1 DEF LoadBalancerConfig
<1> QED BY <1>1, <1>2, <1>3

\* The empty configuration is one.
LEMMA NoConfigType == NoConfig \in LBConfig /\ NoRef \in PoolRef
<1>1. NoRef \in PoolRef
  BY DEF NoRef, PoolRef
<1>2. NoLoadBalancer \in LoadBalancerConfig
  BY <1>1 DEF NoLoadBalancer, LoadBalancerConfig
<1>3. [c \in {} |-> NoRef] \in ClassConfigs
  <2>1. [c \in {} |-> NoRef] \in [{} -> PoolRef] /\ {} \in SUBSET ClassName
    OBVIOUS
  <2> QED BY <2>1 DEF ClassConfigs
<1> QED BY <1>1, <1>2, <1>3, FilesAssumption DEF NoConfig, LBConfig

\* A class whose IP pool is inherited has none of its own: whichever way the reference is
\* looked up, it is the configured one, or the lookup is that of an empty name.
LEMMA Resolve ==
  ASSUME TypeOK, FileInv, phase \in {"setup", "classes"},
         NEW c \in DOMAIN file.classes \cup {Default}, NEW ref, NEW def,
         ref = (IF c \in DOMAIN file.classes THEN cfg.classes[c] ELSE cfg.lb.pool),
         def = IF Default \in DOMAIN cfg.classes THEN cfg.classes[Default] ELSE cfg.lb.pool
  PROVE  /\ ref \in PoolRef /\ def \in PoolRef
         /\ Inherit(ref, def) = Configured(c)
         /\ Configured(c) \in PoolRef /\ Configured(c) # NoRef
         /\ \/ ref = Configured(c)
            \/ /\ ref = NoRef /\ c \in DOMAIN file.classes
               /\ file.lb.pool = NoRef /\ file.classes[c] = NoRef
<1> DEFINE own == file.classes
           lb == file.lb.pool
<1>1. /\ own \in [DOMAIN own -> PoolRef] /\ lb \in PoolRef
      /\ \A d \in DOMAIN own : own[d] \in PoolRef
  BY ConfigTypes DEF TypeOK
<1>2. /\ cfg.lb.pool = lb /\ DOMAIN cfg.classes = DOMAIN own
      /\ \A d \in DOMAIN own : cfg.classes[d] = Inherit(own[d], lb)
      /\ Valid
  BY DEF FileInv, Completed, Accepted
<1>3. lb = NoRef => Default \in DOMAIN own /\ own[Default] # NoRef /\ def = own[Default]
  BY <1>2 DEF Valid, Inherit
<1>4. ref \in PoolRef /\ def \in PoolRef
  BY <1>1, <1>2, RefTypes
<1>5. CASE c \in DOMAIN own /\ own[c] # NoRef
  <2>1. ref = own[c] /\ Configured(c) = own[c]
    BY <1>2, <1>5 DEF Inherit, Configured
  <2> QED BY <1>4, <1>5, <2>1 DEF Inherit
<1>6. CASE ~(c \in DOMAIN own /\ own[c] # NoRef) /\ lb # NoRef
  <2>1. ref = lb /\ Configured(c) = lb
    BY <1>2, <1>6 DEF Inherit, Configured
  <2> QED BY <1>4, <1>6, <2>1 DEF Inherit
<1>7. CASE ~(c \in DOMAIN own /\ own[c] # NoRef) /\ lb = NoRef
  <2>1. c \in DOMAIN own /\ own[c] = NoRef /\ ref = NoRef
    BY <1>2, <1>3, <1>7 DEF Inherit
  <2>2. Configured(c) = own[Default] /\ Inherit(ref, def) = own[Default]
    BY <1>3, <1>7, <2>1 DEF Configured, Inherit
  <2> QED BY <1>1, <1>3, <1>4, <1>7, <2>1, <2>2
<1> QED BY <1>5, <1>6, <1>7

-----------------------------------------------------------------------------
(***************************************************************************)
(* The start                                                               *)
(***************************************************************************)

\* ReadInto, Complete, FromEnv, Validate: the configuration is that of the file.
LEMMA ReadKeeps ==
  ASSUME ConfigInv, ReadInto \/ Complete \/ FromEnv \/ Validate
  PROVE  ConfigInv'
<1>1. /\ UNCHANGED <<file, env, default, classes, todo, faults, controller>>
      /\ TypeOK /\ FileInv /\ ClassesInv /\ ObjectsInv
  BY DEF ReadInto, Complete, FromEnv, Validate, ConfigInv
<1>2. ObjectsInv'
  BY <1>1 DEF ObjectsInv, Tagged, controller
<1>3. ClassesInv'
  BY <1>1 DEF ClassesInv, ReadInto, Complete, FromEnv, Validate
<1>4. InvalidClassExplained'
  BY DEF InvalidClassExplained, ReadInto, Complete, FromEnv, Validate
<1>5. /\ file \in LBConfig /\ cfg \in LBConfig /\ file.lb.pool \in PoolRef
      /\ DOMAIN file.classes \subseteq ClassName
      /\ \A c \in DOMAIN file.classes : file.classes[c] \in PoolRef
  BY <1>1, ConfigTypes DEF TypeOK
<1>6. CASE ReadInto
  <2>1. TypeOK'
    BY <1>1, <1>5, <1>6 DEF ReadInto, TypeOK, controller, Accepted
  <2>2. FileInv'
    BY <1>1, <1>6 DEF ReadInto, FileInv, Completed, Accepted
  <2> QED BY <1>2, <1>3, <1>4, <2>1, <2>2 DEF ConfigInv
<1>7. CASE Complete
  <2> DEFINE new == [c \in DOMAIN file.classes |-> Inherit(file.classes[c], file.lb.pool)]
  <2>1. cfg = file /\ phase' = "env"
    BY <1>1, <1>7 DEF Complete, FileInv
  <2>2. cfg' = [file EXCEPT !.classes = new]
    BY <1>7, <2>1 DEF Complete
  <2>3. new \in ClassConfigs
    <3>1. new \in [DOMAIN file.classes -> PoolRef]
      BY <1>5, RefTypes
    <3> QED BY <1>5, <3>1 DEF ClassConfigs
  <2>4. cfg' \in LBConfig /\ cfg'.classes = new /\ cfg'.lb = file.lb /\ cfg'.tags = file.tags
    <3> HIDE DEF new
    <3> QED BY <1>5, <2>2, <2>3 DEF LBConfig
  <2>5. TypeOK'
    BY <1>1, <2>1, <2>4 DEF TypeOK, controller
  <2>6. FileInv'
    BY <1>1, <2>1, <2>4 DEF FileInv, Accepted
  <2> QED BY <1>2, <1>3, <1>4, <2>5, <2>6 DEF ConfigInv
<1>8. CASE FromEnv
  <2>1. /\ cfg' = [cfg EXCEPT !.credentials = @ \cup env.credentials]
        /\ phase = "env" /\ phase' \in {"validate", "invalid"}
    BY <1>8 DEF FromEnv
  <2>2. env.credentials \in SUBSET Credential
    BY <1>1 DEF TypeOK
  <2>3. cfg' \in LBConfig /\ cfg'.classes = cfg.classes /\ cfg'.lb = cfg.lb /\ cfg'.tags = cfg.tags
    BY <1>5, <2>1, <2>2 DEF LBConfig
  <2>4. TypeOK'
    BY <1>1, <2>1, <2>3 DEF TypeOK, controller
  <2>5. FileInv'
    BY <1>1, <2>1, <2>3 DEF FileInv, Completed, Accepted
  <2> QED BY <1>2, <1>3, <1>4, <2>4, <2>5 DEF ConfigInv
<1>9. CASE Validate
  <2>1. cfg' = cfg /\ phase = "validate" /\ (phase' = IF Valid THEN "setup" ELSE "invalid")
    BY <1>9 DEF Validate
  <2>2. TypeOK'
    BY <1>1, <2>1 DEF TypeOK, controller, Accepted
  <2>3. FileInv'
    BY <1>1, <2>1 DEF FileInv, Completed, Accepted, Valid
  <2> QED BY <1>2, <1>3, <1>4, <2>2, <2>3 DEF ConfigInv
<1> QED BY <1>6, <1>7, <1>8, <1>9

\* add gives a class the IP pool the file configures for it, or fails for a reason.
LEMMA AddKeeps ==
  ASSUME ConfigInv, phase \in {"setup", "classes"},
         UNCHANGED <<file, env, cfg, controller>>,
         NEW c \in DOMAIN file.classes \cup {Default}, NEW ref, NEW def,
         ref = (IF c \in DOMAIN file.classes THEN cfg.classes[c] ELSE cfg.lb.pool),
         def = (IF Default \in DOMAIN cfg.classes THEN cfg.classes[Default] ELSE cfg.lb.pool),
         default' = def, Add(c, ref, def),
         todo' \subseteq DOMAIN file.classes,
         DOMAIN classes \cup {c} = (DOMAIN file.classes \cup {Default}) \ todo',
         \A d \in DOMAIN classes : classes[d] \in PoolsOf(Configured(d))
  PROVE  ConfigInv'
<1> DEFINE pool == Inherit(ref, def)
<1>1. TypeOK /\ FileInv /\ ObjectsInv
  BY DEF ConfigInv
<1>2. /\ ref \in PoolRef /\ def \in PoolRef /\ pool = Configured(c)
      /\ Configured(c) \in PoolRef /\ Configured(c) # NoRef
      /\ \/ ref = Configured(c)
         \/ /\ ref = NoRef /\ c \in DOMAIN file.classes
            /\ file.lb.pool = NoRef /\ file.classes[c] = NoRef
  BY <1>1, Resolve
<1>3. /\ FindIPPoolByName(NoRef.name) = {} /\ PoolsOf(Configured(c)) \subseteq PoolId
      /\ Configured(c).id = None => Configured(c).name # None
  BY <1>2, RefTypes DEF FindIPPoolByName
<1>4. DOMAIN file.classes \subseteq ClassName
  BY <1>1, ConfigTypes DEF TypeOK
<1>5. ObjectsInv'
  BY <1>1 DEF ObjectsInv, Tagged, controller
<1>6. FileInv' /\ phase' \in {"classes", "invalidClass"}
  <2>1. phase' \in {"classes", "invalidClass"}
    BY DEF Add
  <2> QED BY <1>1, <2>1 DEF FileInv, Completed, Accepted, Valid
<1>7. ASSUME NEW i \in IF pool.id # None THEN {pool.id} ELSE FindIPPoolByName(ref.name),
             classes' = [d \in DOMAIN classes \cup {c} |-> IF d = c THEN i ELSE classes[d]],
             phase' = "classes", faults' = faults
      PROVE  ConfigInv'
  <2>1. i \in PoolsOf(Configured(c)) /\ i \in PoolId
    BY <1>2, <1>3, <1>7 DEF PoolsOf
  <2>2. \A d \in DOMAIN classes' : classes'[d] \in PoolsOf(Configured(d))
    BY <1>7, <2>1
  <2>3. \A d : Configured(d)' = Configured(d)
    BY DEF Configured
  <2>4. ClassesInv'
    BY <1>7, <2>2, <2>3 DEF ClassesInv, PoolsOf
  <2>5. PICK D \in SUBSET ClassName : classes \in [D -> PoolId]
    BY <1>1 DEF TypeOK
  <2>6. classes' \in [D \cup {c} -> PoolId] /\ D \cup {c} \in SUBSET ClassName
    BY <1>4, <1>7, <2>1, <2>5, ClassAssumption
  <2>7. TypeOK'
    BY <1>1, <1>2, <1>4, <1>7, <2>6 DEF TypeOK, controller, Accepted
  <2> QED BY <1>5, <1>6, <1>7, <2>4, <2>7 DEF ConfigInv, InvalidClassExplained
<1>8. ASSUME pool.id = None, phase' = "invalidClass", classes' = classes,
             faults' \in 0 .. MaxFaults,
             FindIPPoolByName(ref.name) = {} \/ faults' > 0
      PROVE  ConfigInv'
  <2>1. TypeOK'
    BY <1>1, <1>2, <1>4, <1>8 DEF TypeOK, controller, Accepted
  <2>2. ClassesInv'
    BY <1>8 DEF ClassesInv
  <2>3. Configured(c)' = Configured(c)
    BY DEF Configured
  <2>4. ref = Configured(c) /\ FindIPPoolByName(ref.name) = {} =>
          PoolsNamed[Configured(c).name] = {}
    BY <1>2, <1>3, <1>8 DEF FindIPPoolByName
  <2>5. InvalidClassExplained'
    BY <1>2, <1>8, <2>3, <2>4 DEF InvalidClassExplained
  <2> QED BY <1>5, <1>6, <2>1, <2>2, <2>5 DEF ConfigInv
<1>9. faults \in 0 .. MaxFaults /\ MaxFaults \in Nat
  BY <1>1, BoundAssumption DEF TypeOK
<1>10. \/ \E i \in IF pool.id # None THEN {pool.id} ELSE FindIPPoolByName(ref.name) :
            /\ classes' = [d \in DOMAIN classes \cup {c} |-> IF d = c THEN i ELSE classes[d]]
            /\ phase' = "classes" /\ faults' = faults
       \/ /\ pool.id = None /\ phase' = "invalidClass" /\ classes' = classes
          /\ \/ FindIPPoolByName(ref.name) = {} /\ faults' = faults
             \/ faults < MaxFaults /\ faults' = faults + 1
  BY DEF Add
<1>11. ASSUME pool.id = None, phase' = "invalidClass", classes' = classes,
              \/ FindIPPoolByName(ref.name) = {} /\ faults' = faults
              \/ faults < MaxFaults /\ faults' = faults + 1
       PROVE  ConfigInv'
  <2>1. faults' \in 0 .. MaxFaults /\ (FindIPPoolByName(ref.name) = {} \/ faults' > 0)
    BY <1>9, <1>11
  <2> QED BY <1>8, <1>11, <2>1
<1> QED BY <1>7, <1>10, <1>11

\* setupClasses
LEMMA SetupKeeps ==
  ASSUME ConfigInv, SetupDefault \/ AddClass \/ ClassesDone
  PROVE  ConfigInv'
<1>1. TypeOK /\ FileInv /\ ClassesInv /\ ObjectsInv
  BY DEF ConfigInv
<1>2. /\ file.lb.pool \in PoolRef /\ DOMAIN file.classes \subseteq ClassName
      /\ \A c \in DOMAIN file.classes : file.classes[c] \in PoolRef
  BY <1>1, ConfigTypes DEF TypeOK
<1>3. CASE SetupDefault
  <2>1. /\ phase = "setup" /\ todo' = DOMAIN cfg.classes /\ UNCHANGED <<file, env, cfg, controller>>
        /\ DOMAIN cfg.classes = DOMAIN file.classes /\ cfg.lb = file.lb /\ DOMAIN classes = {}
        /\ \A c \in DOMAIN file.classes : cfg.classes[c] = Inherit(file.classes[c], cfg.lb.pool)
    BY <1>1, <1>3 DEF SetupDefault, FileInv, ClassesInv, Completed, Accepted
  <2>2. CASE Default \in DOMAIN cfg.classes
    <3>1. /\ default' = cfg.classes[Default] /\ phase' = "classes" /\ UNCHANGED <<classes, faults>>
      BY <1>3, <2>1, <2>2 DEF SetupDefault, Inherit
    <3>2. default' \in PoolRef
      BY <1>2, <2>1, <2>2, <3>1, RefTypes
    <3>3. TypeOK'
      BY <1>1, <1>2, <2>1, <3>1, <3>2 DEF TypeOK, controller, Accepted
    <3>4. FileInv'
      BY <1>1, <2>1, <2>2, <3>1 DEF FileInv, Completed, Accepted, Valid
    <3>5. ClassesInv'
      BY <2>1, <2>2, <3>1 DEF ClassesInv
    <3>6. ObjectsInv' /\ InvalidClassExplained'
      BY <1>1, <2>1, <3>1 DEF ObjectsInv, Tagged, controller, InvalidClassExplained
    <3> QED BY <3>3, <3>4, <3>5, <3>6 DEF ConfigInv
  <2>3. CASE Default \notin DOMAIN cfg.classes
    <3>1. Add(Default, cfg.lb.pool, cfg.lb.pool) /\ default' = cfg.lb.pool
      BY <1>3, <2>3 DEF SetupDefault
    <3> QED BY <2>1, <2>3, <3>1, AddKeeps
  <2> QED BY <2>2, <2>3
<1>4. CASE AddClass
  <2>1. /\ phase = "classes" /\ UNCHANGED <<file, env, cfg, default, controller>>
        /\ DOMAIN cfg.classes = DOMAIN file.classes
        /\ default = IF Default \in DOMAIN cfg.classes THEN cfg.classes[Default] ELSE cfg.lb.pool
        /\ todo \subseteq DOMAIN file.classes
        /\ DOMAIN classes = (DOMAIN file.classes \cup {Default}) \ todo
        /\ \A d \in DOMAIN classes : classes[d] \in PoolsOf(Configured(d))
    BY <1>1, <1>4 DEF AddClass, FileInv, ClassesInv, Completed, Accepted
  <2>2. PICK c \in todo : Add(c, cfg.classes[c], default) /\ todo' = todo \ {c}
    BY <1>4 DEF AddClass
  <2>3. DOMAIN classes \cup {c} = (DOMAIN file.classes \cup {Default}) \ todo'
    BY <2>1, <2>2
  <2> QED BY <2>1, <2>2, <2>3, AddKeeps
<1>5. CASE ClassesDone
  <2>1. /\ phase = "classes" /\ phase' = "ready" /\ todo = {}
        /\ UNCHANGED <<file, env, cfg, default, classes, todo, faults, controller>>
    BY <1>5 DEF ClassesDone
  <2>2. TypeOK'
    BY <1>1, <2>1 DEF TypeOK, controller, Accepted
  <2>3. FileInv'
    BY <1>1, <2>1 DEF FileInv, Completed, Accepted, Valid
  <2>4. ClassesInv'
    BY <1>1, <2>1 DEF ClassesInv, PoolsOf, Configured
  <2>5. ObjectsInv' /\ InvalidClassExplained'
    BY <1>1, <2>1 DEF ObjectsInv, Tagged, controller, InvalidClassExplained
  <2> QED BY <2>2, <2>3, <2>4, <2>5 DEF ConfigInv
<1> QED BY <1>3, <1>4, <1>5

\* provider.Initialize
LEMMA InitializeKeeps ==
  ASSUME ConfigInv, Initialize
  PROVE  ConfigInv'
<1>1. /\ TypeOK /\ FileInv /\ ClassesInv /\ ObjectsInv
      /\ phase \in {"ready", "disabled"} /\ (phase' = IF phase = "ready" THEN "running" ELSE "panic")
      /\ UNCHANGED <<file, env, cfg, default, classes, todo, faults, controller>>
  BY DEF ConfigInv, Initialize
<1>2. TypeOK'
  BY <1>1 DEF TypeOK, controller, Accepted
<1>3. FileInv'
  BY <1>1 DEF FileInv, Completed, Accepted, Valid
<1>4. ClassesInv'
  BY <1>1 DEF ClassesInv, PoolsOf, Configured
<1>5. ObjectsInv' /\ InvalidClassExplained'
  BY <1>1 DEF ObjectsInv, Tagged, controller, InvalidClassExplained
<1> QED BY <1>2, <1>3, <1>4, <1>5 DEF ConfigInv

\* Another controller starts from nothing; the objects stay.
LEMMA RestartKeeps ==
  ASSUME ConfigInv, Restart
  PROVE  ConfigInv'
<1>1. /\ TypeOK /\ ObjectsInv /\ phase' = "start" /\ cfg' = NoConfig /\ default' = NoRef
      /\ classes' = [c \in {} |-> None] /\ todo' = {} /\ file' \in Files /\ cluster' \in Cluster
      /\ restarts' = restarts + 1 /\ restarts < MaxRestarts /\ UNCHANGED <<env, faults, objects>>
  BY FilesAssumption DEF ConfigInv, Restart
<1>2. classes' \in [{} -> PoolId] /\ {} \in SUBSET ClassName
  BY <1>1
<1>3. file' \in LBConfig /\ cfg' \in LBConfig /\ default' \in PoolRef
  BY <1>1, FilesAssumption, NoConfigType
<1>4. restarts' \in 0 .. MaxRestarts
  BY <1>1, BoundAssumption DEF TypeOK
<1>5. TypeOK'
  BY <1>1, <1>2, <1>3, <1>4 DEF TypeOK
<1>6. FileInv' /\ ClassesInv' /\ ObjectsInv' /\ InvalidClassExplained'
  BY <1>1 DEF FileInv, ClassesInv, ObjectsInv, Tagged, InvalidClassExplained, Completed, Accepted
<1> QED BY <1>5, <1>6 DEF ConfigInv

-----------------------------------------------------------------------------
(***************************************************************************)
(* Tags                                                                    *)
(***************************************************************************)

\* One tag is added, with a scope that the required tags do not have.
LEMMA TagAdded ==
  ASSUME NEW m, NEW scope, NEW tag
  PROVE  /\ checkTags(AddTags(m, Tag(scope, tag)), Tag(scope, tag))
         /\ \A required : scope \notin DOMAIN required /\ checkTags(m, required) =>
              checkTags(AddTags(m, Tag(scope, tag)), required)
<1> DEFINE t == AddTags(m, Tag(scope, tag))
<1>1. /\ DOMAIN t = DOMAIN m \cup {scope} /\ t[scope] = tag
      /\ \A x \in DOMAIN m : x # scope => t[x] = m[x]
  BY DEF AddTags, Tag
<1>2. DOMAIN Tag(scope, tag) = {scope} /\ Tag(scope, tag)[scope] = tag
  BY DEF Tag
<1> HIDE DEF t
<1>3. checkTags(t, Tag(scope, tag))
  BY <1>1, <1>2 DEF checkTags
<1>4. ASSUME NEW required, scope \notin DOMAIN required, checkTags(m, required)
      PROVE  checkTags(t, required)
  BY <1>1, <1>4 DEF checkTags
<1> QED BY <1>3, <1>4 DEF t

\* The owner among the standard tags is that of the tags section, or the app name.
LEMMA StandardOwner ==
  ASSUME NEW additional
  PROVE  /\ "owner" \in DOMAIN standardTags(additional)
         /\ standardTags(additional)["owner"] =
              IF "owner" \in DOMAIN additional THEN additional["owner"] ELSE AppName
BY DEF standardTags, AddTags, Tag

\* What the tags of a new object say, whatever scopes the tags section has.
LEMMA NewObjectTagged ==
  ASSUME cfg.tags = file.tags, NEW made \in Purpose, NEW o, made.cluster = cluster,
         o = [made |-> made, by |-> Identity, tags |-> TagsOf(made)]
  PROVE  Tagged(o)
<1> DEFINE own == standardTags(cfg.tags)["owner"]
           std == AddTags(standardTags(cfg.tags), clusterTag(cluster))
           svc == AddTags(std, serviceTag(made.service))
           ofOwner == [owner |-> own, cluster |-> cluster]
<1>1. o.made = made /\ o.by = ofOwner /\ o.tags = TagsOf(made)
  BY StandardOwner DEF Identity
<1>2. checkTags(std, ofOwner)
  BY StandardOwner DEF checkTags, AddTags, clusterTag, Tag
<1>3. /\ DOMAIN ofOwner = {"owner", "cluster"} /\ DOMAIN serviceTag(made.service) = {"service"}
      /\ ofOwner.owner = own /\ ofOwner.cluster = cluster
  BY DEF serviceTag, Tag
<1> HIDE DEF std, ofOwner, own
<1>4. checkTags(svc, ofOwner) /\ checkTags(svc, serviceTag(made.service))
  BY <1>2, <1>3, TagAdded DEF serviceTag
<1> HIDE DEF svc
<1>5. o.by = [owner |-> o.by.owner, cluster |-> o.by.cluster] /\ o.by = ofOwner
  BY <1>1, <1>3 DEF ofOwner
<1>6. CASE made.kind = "lbservice"
  <2>1. o.tags = std
    BY <1>1, <1>6 DEF TagsOf, LbServiceTags, std
  <2> QED BY <1>1, <1>2, <1>5, <1>6, <2>1 DEF Tagged
<1>7. CASE made.kind = "server"
  <2>1. o.tags = AddTags(svc, classTags(made.class, made.pool))
    BY <1>1, <1>7 DEF TagsOf, VirtualServerTags, std, svc
  <2>2. /\ DOMAIN classTags(made.class, made.pool) = {"ippoolid", "lbclass"}
        /\ classTags(made.class, made.pool)["ippoolid"] = made.pool
        /\ classTags(made.class, made.pool)["lbclass"] = made.class
    BY DEF classTags, AddTags, Tag
  <2>3. /\ DOMAIN o.tags = DOMAIN svc \cup {"ippoolid", "lbclass"}
        /\ o.tags["ippoolid"] = made.pool /\ o.tags["lbclass"] = made.class
        /\ \A x \in DOMAIN svc : x \notin {"ippoolid", "lbclass"} => o.tags[x] = svc[x]
    BY <2>1, <2>2 DEF AddTags
  <2>4. checkTags(o.tags, ofOwner) /\ checkTags(o.tags, serviceTag(made.service))
    BY <1>3, <1>4, <2>3 DEF checkTags
  <2>5. checkTags(o.tags, [ippoolid |-> made.pool, lbclass |-> made.class])
    BY <2>3 DEF checkTags
  <2> QED BY <1>1, <1>5, <1>7, <2>4, <2>5 DEF Tagged
<1>8. CASE made.kind \in {"pool", "monitor"}
  <2>1. o.tags = AddTags(svc, portTag(made.port))
    BY <1>1, <1>8 DEF TagsOf, PoolTags, std, svc
  <2>2. /\ checkTags(o.tags, ofOwner) /\ checkTags(o.tags, serviceTag(made.service))
        /\ checkTags(o.tags, portTag(made.port))
    BY <1>3, <1>4, <2>1, TagAdded DEF portTag
  <2> QED BY <1>1, <1>5, <1>8, <2>2 DEF Tagged
<1> QED BY <1>6, <1>7, <1>8 DEF Purpose

\* A controller that runs creates an object.
LEMMA CreateKeeps ==
  ASSUME ConfigInv, CreateObject
  PROVE  ConfigInv'
<1>1. /\ TypeOK /\ FileInv /\ ClassesInv /\ ObjectsInv /\ phase = "running"
      /\ UNCHANGED <<file, env, cfg, phase, default, classes, todo, faults, cluster, restarts>>
  BY DEF ConfigInv, CreateObject
<1>2. PICK made \in Purpose :
        /\ made.cluster = cluster
        /\ objects' = objects \cup {[made |-> made, by |-> Identity, tags |-> TagsOf(made)]}
  BY DEF CreateObject
<1> DEFINE o == [made |-> made, by |-> Identity, tags |-> TagsOf(made)]
<1>3. o.made = made /\ objects' = objects \cup {o}
  BY <1>2
<1>4. Tagged(o)
  BY <1>1, <1>2, NewObjectTagged DEF FileInv, Completed, Accepted
<1> HIDE DEF o
<1>5. TypeOK'
  BY <1>1, <1>3 DEF TypeOK
<1>6. \A x : Tagged(x)' <=> Tagged(x)
  BY DEF Tagged
<1>7. ObjectsInv'
  BY <1>1, <1>3, <1>4, <1>6 DEF ObjectsInv
<1>8. FileInv' /\ ClassesInv' /\ InvalidClassExplained'
  BY <1>1 DEF FileInv, ClassesInv, InvalidClassExplained, Completed, Accepted, Valid, PoolsOf,
              Configured
<1> QED BY <1>5, <1>7, <1>8 DEF ConfigInv

-----------------------------------------------------------------------------
\* ConfigInv holds at the start.
LEMMA InitConfig == Init => ConfigInv
<1> SUFFICES ASSUME Init PROVE ConfigInv
  OBVIOUS
<1>1. file \in LBConfig /\ cfg \in LBConfig /\ default \in PoolRef
  BY FilesAssumption, NoConfigType DEF Init
<1>2. classes \in [{} -> PoolId] /\ {} \in SUBSET ClassName
  BY DEF Init
<1>3. TypeOK
  BY <1>1, <1>2, BoundAssumption DEF Init, TypeOK
<1>4. FileInv /\ ClassesInv /\ InvalidClassExplained /\ ObjectsInv
  BY DEF Init, FileInv, ClassesInv, InvalidClassExplained, ObjectsInv, Completed, Accepted
<1> QED BY <1>3, <1>4 DEF ConfigInv

\* All steps preserve ConfigInv.
LEMMA NextConfig == ConfigInv /\ [Next]_vars => ConfigInv'
<1> SUFFICES ASSUME ConfigInv, [Next]_vars PROVE ConfigInv'
  OBVIOUS
<1>1. CASE UNCHANGED vars
  BY <1>1 DEF vars, controller, ConfigInv, TypeOK, FileInv, ClassesInv, InvalidClassExplained,
              ObjectsInv, Tagged, Valid, PoolsOf, Configured
<1> QED BY <1>1, ReadKeeps, SetupKeeps, InitializeKeeps, CreateKeeps, RestartKeeps DEF Next

(***************************************************************************)
(* The inductive invariant holds in every reachable state.                 *)
(***************************************************************************)
THEOREM ConfigInvariant == Spec => []ConfigInv
BY InitConfig, NextConfig, PTL DEF Spec

(***************************************************************************)
(* Every variable has a value of its Go type, whatever file is read.       *)
(***************************************************************************)
THEOREM ConfigTypeOK == Spec => []TypeOK
<1>1. ConfigInv => TypeOK
  BY DEF ConfigInv
<1> QED BY <1>1, ConfigInvariant, PTL

(***************************************************************************)
(* Once setupClasses has succeeded the classes are those of the file and   *)
(* the default class, each with the IP pool the file gives it.             *)
(***************************************************************************)
THEOREM ConfigPoolsAsConfigured == Spec => []PoolsAsConfigured
<1>1. ConfigInv => PoolsAsConfigured
  BY DEF ConfigInv, ClassesInv, PoolsAsConfigured, PoolsOf
<1> QED BY <1>1, ConfigInvariant, PTL

(***************************************************************************)
(* A file that was accepted fails in setupClasses only for the reasons     *)
(* InvalidClassExplained names.                                            *)
(***************************************************************************)
THEOREM ConfigInvalidClassExplained == Spec => []InvalidClassExplained
<1>1. ConfigInv => InvalidClassExplained
  BY DEF ConfigInv
<1> QED BY <1>1, ConfigInvariant, PTL

(***************************************************************************)
(* The tags of an object say what it was made for, whatever scopes the     *)
(* tags section has.                                                       *)
(***************************************************************************)
THEOREM ConfigTagsReadBack == Spec => []TagsReadBack
<1>1. ConfigInv => TagsReadBack
  <2> SUFFICES ASSUME ConfigInv, NEW o \in objects
               PROVE  /\ o.made.kind # "lbservice" => getTag(o.tags, "service") = o.made.service
                      /\ o.made.kind = "server" => /\ getTag(o.tags, "lbclass") = o.made.class
                                                   /\ getTag(o.tags, "ippoolid") = o.made.pool
    BY DEF TagsReadBack
  <2>1. Tagged(o)
    BY DEF ConfigInv, ObjectsInv
  <2>2. o.made.kind # "lbservice" => getTag(o.tags, "service") = o.made.service
    BY <2>1 DEF Tagged, checkTags, serviceTag, Tag, getTag
  <2>3. o.made.kind = "server" => /\ getTag(o.tags, "lbclass") = o.made.class
                                  /\ getTag(o.tags, "ippoolid") = o.made.pool
    BY <2>1 DEF Tagged, checkTags, getTag
  <2> QED BY <2>2, <2>3
<1> QED BY <1>1, ConfigInvariant, PTL

(***************************************************************************)
(* A controller that runs finds exactly the objects it has made itself,    *)
(* those for the service and the port it looks for.                        *)
(***************************************************************************)
THEOREM ConfigFindsOwnObjects == Spec => []FindsOwnObjects
<1>1. ConfigInv => FindsOwnObjects
  <2> SUFFICES ASSUME ConfigInv, phase = "running" PROVE FindsOwnObjects
    BY DEF FindsOwnObjects
  <2> DEFINE mine == Identity.owner
  <2>1. Identity = [owner |-> mine, cluster |-> cluster] /\ mine = standardTags(cfg.tags)["owner"]
    BY StandardOwner DEF ConfigInv, FileInv, Completed, Accepted, Identity
  <2>2. /\ DOMAIN Owner = {"owner", "cluster"} /\ Owner["owner"] = mine
        /\ Owner["cluster"] = cluster
    BY <2>1 DEF Owner, AddTags, ownerTag, clusterTag, Tag
  <2> HIDE DEF mine
  <2>3. ASSUME NEW o \in objects PROVE checkTags(o.tags, Owner) <=> o.by = Identity
    <3>1. /\ "owner" \in DOMAIN o.tags /\ o.tags["owner"] = o.by.owner
          /\ "cluster" \in DOMAIN o.tags /\ o.tags["cluster"] = o.by.cluster
          /\ o.by = [owner |-> o.by.owner, cluster |-> o.by.cluster]
      BY DEF ConfigInv, ObjectsInv, Tagged, checkTags
    <3>2. checkTags(o.tags, Owner) <=> o.by.owner = mine /\ o.by.cluster = cluster
      BY <2>2, <3>1 DEF checkTags
    <3> QED BY <2>1, <3>1, <3>2
  <2>4. ASSUME NEW kind PROVE ListAll(kind) = {o \in Own : o.made.kind = kind}
    BY <2>3 DEF ListAll, Own
  <2>5. ASSUME NEW o \in objects, o.made.kind # "lbservice", NEW s
        PROVE  checkTags(o.tags, AddTags(Owner, serviceTag(s)))
                 <=> o.by = Identity /\ o.made.service = s
    <3>1. "service" \in DOMAIN o.tags /\ o.tags["service"] = o.made.service
      BY <2>5 DEF ConfigInv, ObjectsInv, Tagged, checkTags, serviceTag, Tag
    <3>2. LET r == AddTags(Owner, serviceTag(s)) IN
          /\ DOMAIN r = {"owner", "cluster", "service"} /\ r["service"] = s
          /\ r["owner"] = Owner["owner"] /\ r["cluster"] = Owner["cluster"]
      BY <2>2 DEF AddTags, serviceTag, Tag
    <3>3. checkTags(o.tags, AddTags(Owner, serviceTag(s)))
            <=> checkTags(o.tags, Owner) /\ o.made.service = s
      BY <2>2, <3>1, <3>2 DEF checkTags
    <3> QED BY <2>3, <3>3
  <2>6. ASSUME NEW o \in objects, o.made.kind \in {"pool", "monitor"}, NEW q
        PROVE  checkTags(o.tags, portTag(q)) <=> o.made.port = q
    BY <2>6 DEF ConfigInv, ObjectsInv, Tagged, checkTags, portTag, Tag
  <2>7. ASSUME NEW kind \in {"server", "pool", "monitor"}, NEW s
        PROVE  FindFor(kind, s) = {o \in Own : o.made.kind = kind /\ o.made.service = s}
    BY <2>5, <2>7 DEF FindFor, Own
  <2>8. ASSUME NEW kind \in {"server", "pool", "monitor"}, NEW s \in Service
        PROVE  LET own == {o \in Own : o.made.kind = kind}
                   for == {o \in own : o.made.service = s} IN
               /\ FindFor(kind, s) = for
               /\ kind # "server" =>
                    \A q \in Port : MatchPort(for, q) = {o \in for : o.made.port = q}
    <3> DEFINE own == {o \in Own : o.made.kind = kind}
               for == {o \in own : o.made.service = s}
    <3>1. for = {o \in Own : o.made.kind = kind /\ o.made.service = s}
      OBVIOUS
    <3>2. FindFor(kind, s) = for
      BY <2>7, <3>1
    <3>3. ASSUME kind # "server", NEW q \in Port
          PROVE  MatchPort(for, q) = {o \in for : o.made.port = q}
      <4>1. \A o \in for : checkTags(o.tags, portTag(q)) <=> o.made.port = q
        BY <2>6, <2>8, <3>3 DEF Own
      <4> QED BY <4>1 DEF MatchPort
    <3> QED BY <3>2, <3>3
  <2> QED BY <2>4, <2>8 DEF FindsOwnObjects
<1> QED BY <1>1, ConfigInvariant, PTL
=============================================================================
