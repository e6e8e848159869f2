------------------------------- MODULE Config -------------------------------
(***************************************************************************)
(* The start of the controller: pkg/loadbalancer/config/config.go reads    *)
(* the configuration file, completes it, lets the environment override it  *)
(* and validates it; class.go then turns it into the load balancer         *)
(* classes, each with the id of its IP pool.  Any error ends the start.    *)
(*                                                                         *)
(* Abstractions: the lbServiceId and the logicalRouterId are given or not; *)
(* of the NSX-T section only the credentials are kept, as an entry without *)
(* a field is dropped (a logicalRouterId among them).                      *)
(*                                                                         *)
(* A controller that runs tags the objects it creates in NSX-T, and finds  *)
(* them by their tags; controllers with other files, or for other          *)
(* clusters, run before or after it on the same NSX-T.                     *)
(***************************************************************************)
EXTENDS Naturals, FiniteSets, Tags

CONSTANTS
  PoolName, PoolId,   \* names and ids of IP pools
  None,               \* the empty string
  ClassName,          \* names of load balancer classes
  Default,            \* DefaultLoadBalancerClass
  PoolsNamed,         \* in NSX-T: for each name the IP pools with that name
  Credential,         \* "user", "password", "host"
  Cluster,            \* names of clusters
  Service, Port,      \* names of services, and ports
  Section,            \* the tags sections that are considered
  Files,              \* the configuration files that are considered
  Followed,           \* bound: the files whose controllers are followed after the start
  MaxFaults,          \* bounds: calls to NSX-T that fail,
  MaxObjects, MaxRestarts  \* objects that are created, controllers that are started

\* LoadBalancerClassConfig: the IP pool by name or by id
PoolRef == [name : PoolName \cup {None}, id : PoolId \cup {None}]
NoRef == [name |-> None, id |-> None]

\* LoadBalancerConfig, with the two fields for the IP pool as one
LoadBalancerConfig ==
  [pool : PoolRef, size : {"", "MEDIUM", "HUGE"}, lbServiceId : BOOLEAN, router : BOOLEAN]
NoLoadBalancer == [pool |-> NoRef, size |-> "", lbServiceId |-> FALSE, router |-> FALSE]

NoTags == [scope \in {} |-> ""]

ClassConfigs == UNION {[D -> PoolRef] : D \in SUBSET ClassName}

\* LBConfig
LBConfig ==
  [lb : LoadBalancerConfig, classes : ClassConfigs, credentials : SUBSET Credential,
   simulation : BOOLEAN, tags : Section]
NoConfig ==
  [lb |-> NoLoadBalancer, classes |-> [c \in {} |-> NoRef], credentials |-> {},
   simulation |-> FALSE, tags |-> NoTags]

ASSUME NoneAssumption == None \notin PoolName /\ None \notin PoolId
ASSUME ClassAssumption == Default \in ClassName
ASSUME PoolsAssumption == PoolsNamed \in [PoolName -> SUBSET PoolId]
ASSUME FilesAssumption == NoTags \in Section /\ Files \subseteq LBConfig /\ Followed \subseteq Files
ASSUME BoundAssumption == MaxFaults \in Nat /\ MaxObjects \in Nat /\ MaxRestarts \in Nat

VARIABLES
  file,      \* the configuration file
  env,       \* the credentials in the environment, and whether it is well-formed
  cfg,       \* the LBConfig
  phase,     \* how far the start is
  default,   \* defaultConfig of setupClasses
  classes,   \* loadBalancerClasses: for each class the id of its IP pool
  todo,      \* the classes that are still to be added
  faults,
  cluster,   \* ClusterName, which main takes from the command line
  objects,   \* the objects in NSX-T: who made them for what, and their tags
  restarts

controller == <<cluster, objects, restarts>>
vars == <<file, env, cfg, phase, default, classes, todo, faults, controller>>

\* What an object was made for; the class and the port where it has one.
Purpose ==
  [kind : {"lbservice", "server", "pool", "monitor"}, cluster : Cluster, service : Service,
   port : Port, class : ClassName, pool : PoolId]

\* Phases after validation.
Accepted == {"setup", "classes", "ready", "running", "invalidClass"}

(***************************************************************************)
(* Every variable has a value of its Go type.                              *)
(***************************************************************************)
TypeOK ==
  /\ file \in LBConfig /\ cfg \in LBConfig /\ default \in PoolRef
  /\ env \in [credentials : SUBSET Credential, wellFormed : BOOLEAN]
  /\ phase \in Accepted \cup {"start", "complete", "env", "validate", "disabled", "panic",
                              "invalid"}
  /\ \E D \in SUBSET ClassName : classes \in [D -> PoolId]
  /\ todo \in SUBSET ClassName
  /\ faults \in 0 .. MaxFaults /\ restarts \in 0 .. MaxRestarts
  /\ cluster \in Cluster
  /\ \A o \in objects : o.made \in Purpose

Init ==
  /\ file \in Files
  /\ env \in [credentials : SUBSET Credential, wellFormed : BOOLEAN]
  /\ cfg = NoConfig /\ default = NoRef
  /\ phase = "start"
  /\ classes = [c \in {} |-> None] /\ todo = {}
  /\ faults = 0 /\ restarts = 0
  /\ cluster \in Cluster /\ objects = {}

-----------------------------------------------------------------------------
(***************************************************************************)
(* ReadConfig and CompleteAndValidate                                      *)
(***************************************************************************)
IsEnabled(c) == DOMAIN c.classes # {} \/ c.lb # NoLoadBalancer

\* gcfg.ReadInto, without what no field is declared for; then IsEnabled
ReadInto ==
  /\ phase = "start"
  /\ cfg' = file
  /\ phase' = IF IsEnabled(file) THEN "complete" ELSE "disabled"
  /\ UNCHANGED <<file, env, default, classes, todo, faults, controller>>

\* Mutant of Inherit: the name of the default pool is used in any case.
InheritName(ref, pool) == IF ref.id = None THEN [ref EXCEPT !.name = pool.name] ELSE ref

\* A class without an IP pool gets that of the LoadBalancer section.
Inherit(ref, pool) == IF ref = NoRef THEN pool ELSE ref

Complete ==
  /\ phase = "complete"
  /\ cfg' = [cfg EXCEPT !.classes = [c \in DOMAIN @ |-> Inherit(@[c], cfg.lb.pool)]]
  /\ phase' = "env"
  /\ UNCHANGED <<file, env, default, classes, todo, faults, controller>>

\* NsxtConfig.FromEnv: the environment wins; the result must be complete.
FromEnv ==
  /\ phase = "env"
  /\ cfg' = [cfg EXCEPT !.credentials = @ \cup env.credentials]
  /\ phase' = IF env.wellFormed /\ cfg'.credentials = Credential THEN "validate" ELSE "invalid"
  /\ UNCHANGED <<file, env, default, classes, todo, faults, controller>>

\* LBConfig.validateConfig
Valid ==
  /\ cfg.lb.lbServiceId \/ cfg.lb.router
  /\ cfg.lb.size = "MEDIUM"
  /\ IF cfg.lb.pool = NoRef
     THEN Default \in DOMAIN cfg.classes /\ cfg.classes[Default] # NoRef
     ELSE cfg.lb.pool.name = None \/ cfg.lb.pool.id = None
  /\ cfg.simulation \/ cfg.credentials = Credential

Validate ==
  /\ phase = "validate"
  /\ phase' = IF Valid THEN "setup" ELSE "invalid"
  /\ UNCHANGED <<file, env, cfg, default, classes, todo, faults, controller>>

-----------------------------------------------------------------------------
(***************************************************************************)
(* setupClasses                                                            *)
(***************************************************************************)
FindIPPoolByName(n) == IF n = None THEN {} ELSE PoolsNamed[n]

\* Mutant of Add: a name that is not found gives an empty id.
AddUnchecked(c, ref, def) ==
  LET pool == Inherit(ref, def) IN
  /\ \E i \in IF pool.id # None THEN {pool.id} ELSE {None} :
       classes' = [d \in DOMAIN classes \cup {c} |-> IF d = c THEN i ELSE classes[d]]
  /\ phase' = "classes"
  /\ UNCHANGED faults

(***************************************************************************)
(* add: the class's own IP pool or the default one, by id or by name.  The *)
(* name that is looked up is always the class's own.                       *)
(***************************************************************************)
Add(c, ref, def) ==
  LET pool == Inherit(ref, def) IN
  \/ /\ \E i \in IF pool.id # None THEN {pool.id} ELSE FindIPPoolByName(ref.name) :
          classes' = [d \in DOMAIN classes \cup {c} |-> IF d = c THEN i ELSE classes[d]]
     /\ phase' = "classes"
     /\ UNCHANGED faults
  \/ /\ pool.id = None
     /\ FindIPPoolByName(ref.name) = {}
     /\ phase' = "invalidClass"
     /\ UNCHANGED <<classes, faults>>
  \/ /\ pool.id = None
     /\ faults < MaxFaults
     /\ faults' = faults + 1
     /\ phase' = "invalidClass"
     /\ UNCHANGED classes

\* The default class, unless the file has a section for it
SetupDefault ==
  /\ phase = "setup"
  /\ todo' = DOMAIN cfg.classes
  /\ \/ /\ Default \in DOMAIN cfg.classes
        /\ default' = Inherit(cfg.classes[Default], cfg.lb.pool)
        /\ phase' = "classes"
        /\ UNCHANGED <<classes, faults>>
     \/ /\ Default \notin DOMAIN cfg.classes
        /\ default' = cfg.lb.pool
        /\ Add(Default, cfg.lb.pool, cfg.lb.pool)
  /\ UNCHANGED <<file, env, cfg, controller>>

\* One iteration over the map of classes, in any order; its keys are distinct.
AddClass ==
  /\ phase = "classes"
  /\ \E c \in todo : Add(c, cfg.classes[c], default) /\ todo' = todo \ {c}
  /\ UNCHANGED <<file, env, cfg, default, controller>>

ClassesDone ==
  /\ phase = "classes"
  /\ todo = {}
  /\ phase' = "ready"
  /\ UNCHANGED <<file, env, cfg, default, classes, todo, faults, controller>>

\* provider.Initialize; without a configuration there is no lbProvider: nil
Initialize ==
  /\ phase \in {"ready", "disabled"}
  /\ phase' = IF phase = "ready" THEN "running" ELSE "panic"
  /\ UNCHANGED <<file, env, cfg, default, classes, todo, faults, controller>>

-----------------------------------------------------------------------------
(***************************************************************************)
(* The objects of a controller that runs                                   *)
(***************************************************************************)

\* The tags every object is looked for with.
Owner == AddTags(ownerTag(cfg.tags), clusterTag(cluster))

\* Who it is: the owner the tags section names, or the app name; and its cluster.
Identity ==
  [owner |-> IF "owner" \in DOMAIN file.tags THEN file.tags["owner"] ELSE AppName,
   cluster |-> cluster]

TagsOf(made) ==
  CASE made.kind = "lbservice" -> LbServiceTags(cfg.tags, cluster)
    [] made.kind = "server" -> VirtualServerTags(cfg.tags, cluster, made.service,
                                                 classTags(made.class, made.pool))
    [] OTHER -> PoolTags(cfg.tags, cluster, made.service, made.port)

\* CreateLoadBalancerService, CreateVirtualServer, CreatePool, CreateTCPMonitor
CreateObject ==
  /\ phase = "running" /\ file \in Followed
  /\ Cardinality(objects) < MaxObjects
  /\ \E made \in Purpose :
       /\ made.cluster = cluster
       /\ made.class \in DOMAIN classes /\ made.pool = classes[made.class]
       /\ objects' = objects \cup {[made |-> made, by |-> Identity, tags |-> TagsOf(made)]}
  /\ UNCHANGED <<file, env, cfg, phase, default, classes, todo, faults, cluster, restarts>>

\* Another controller is started, or this one with another tags section.
Restart ==
  /\ phase = "running" /\ file \in Followed
  /\ restarts < MaxRestarts /\ restarts' = restarts + 1
  /\ file' \in Followed /\ cluster' \in Cluster
  /\ phase' = "start"
  /\ cfg' = NoConfig /\ default' = NoRef
  /\ classes' = [c \in {} |-> None] /\ todo' = {}
  /\ UNCHANGED <<env, faults, objects>>

\* ListVirtualServers, ListPools and ListTCPMonitorLight, and for the lbservice
\* findLoadBalancerService
ListAll(kind) == {o \in objects : o.made.kind = kind /\ checkTags(o.tags, Owner)}

\* FindVirtualServers, FindPools, FindTCPMonitors
FindFor(kind, s) ==
  {o \in objects : o.made.kind = kind /\ checkTags(o.tags, AddTags(Owner, serviceTag(s)))}

\* MatchPool and MatchTCPMonitor
MatchPort(found, q) == {o \in found : checkTags(o.tags, portTag(q))}

Next ==
  \/ ReadInto \/ Complete \/ FromEnv \/ Validate
  \/ SetupDefault \/ AddClass \/ ClassesDone \/ Initialize
  \/ CreateObject \/ Restart

Spec == Init /\ [][Next]_vars

-----------------------------------------------------------------------------
\* What the file says about class c: its own IP pool, that of the LoadBalancer
\* section, or that of the default class.
Configured(c) ==
  LET own == file.classes  lb == file.lb.pool IN
  IF c \in DOMAIN own /\ own[c] # NoRef THEN own[c]
  ELSE IF lb # NoRef THEN lb
  ELSE own[Default]

(***************************************************************************)
(* A controller that runs has exactly the classes of the file and the      *)
(* default class, each with the IP pool the file gives it, in whatever     *)
(* order the map of classes is iterated: completing the classes in         *)
(* config.go and again in class.go never mixes up two pools, and no class  *)
(* has an empty pool id.                                                   *)
(***************************************************************************)
PoolsAsConfigured ==
  phase \in {"ready", "running"} =>
    /\ DOMAIN classes = DOMAIN file.classes \cup {Default}
    /\ \A c \in DOMAIN classes :
         LET ref == Configured(c) IN
         classes[c] \in IF ref.id # None THEN {ref.id} ELSE FindIPPoolByName(ref.name)

(***************************************************************************)
(* A file that was accepted fails in setupClasses only because of NSX-T (a *)
(* failed call, a name without an IP pool), with one exception: a class    *)
(* that is to take its IP pool from an explicit default class that gives   *)
(* it by name, as add then looks the empty name up.                        *)
(***************************************************************************)
InvalidClassExplained ==
  phase = "invalidClass" =>
    \/ faults > 0
    \/ \E c \in DOMAIN file.classes \cup {Default} :
         LET ref == Configured(c) IN
         /\ ref.id = None
         /\ \/ PoolsNamed[ref.name] = {}
            \/ file.lb.pool = NoRef /\ file.classes[c] = NoRef

\* The objects that this controller has made.
Own == {o \in objects : o.by = Identity}

(***************************************************************************)
(* A controller that runs finds exactly the objects of its own that were   *)
(* made for the service and the port it looks for, and lists all of them   *)
(* for the reorganisation; it never finds one that another controller, or  *)
(* one for another cluster, has made.  It also finds those it made before  *)
(* its tags section was changed, unless the owner has changed, and         *)
(* whatever scopes the section has.                                        *)
(***************************************************************************)
FindsOwnObjects ==
  phase = "running" =>
    \A kind \in {"server", "pool", "monitor"} :
      LET own == {o \in Own : o.made.kind = kind} IN
      /\ ListAll(kind) = own /\ ListAll("lbservice") = {o \in Own : o.made.kind = "lbservice"}
      /\ \A s \in Service :
           LET for == {o \in own : o.made.service = s} IN
           /\ FindFor(kind, s) = for
           /\ kind # "server" =>
                \A q \in Port : MatchPort(for, q) = {o \in for : o.made.port = q}

(***************************************************************************)
(* What Process and the reorganisation read from the tags of an object is  *)
(* what it was made for: the service, and for a virtual server the class   *)
(* and the IP pool its address goes back to, whatever scopes the tags      *)
(* section has.                                                            *)
(***************************************************************************)
TagsReadBack ==
  \A o \in objects :
    /\ o.made.kind # "lbservice" => getTag(o.tags, "service") = o.made.service
    /\ o.made.kind = "server" => /\ getTag(o.tags, "lbclass") = o.made.class
                                 /\ getTag(o.tags, "ippoolid") = o.made.pool
=============================================================================
