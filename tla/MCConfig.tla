------------------------------ MODULE MCConfig ------------------------------
(***************************************************************************)
(* Instances of Config for TLC: which files are considered, and which IP   *)
(* pools exist.                                                            *)
(***************************************************************************)
EXTENDS Config, TLC

CONSTANTS n1, n2, i1, i2, public, c1, c2, s1, s2, q1, q2

\* n1 names two IP pools, n2 none.
ThePools == (n1 :> {i1, i2}) @@ (n2 :> {})

AFile(lb, cs, cred, sim) ==
  [lb |-> lb, classes |-> cs, credentials |-> cred, simulation |-> sim, tags |-> NoTags]

LB(pool, size, id, router) ==
  [pool |-> pool, size |-> size, lbServiceId |-> id, router |-> router]

\* Every combination of IP pools for the section and for two classes.
PoolFiles ==
  {AFile(LB(pool, "MEDIUM", TRUE, FALSE), cs, Credential, FALSE) :
     pool \in PoolRef, cs \in ClassConfigs}

\* Every combination of the other entries.
OtherFiles ==
  {AFile(LB(pool, size, id, router), [c \in {} |-> NoRef], cred, sim) :
     pool \in PoolRef, size \in {"", "MEDIUM", "HUGE"}, id \in BOOLEAN, router \in BOOLEAN,
     cred \in SUBSET Credential, sim \in BOOLEAN}

\* Tags sections that have the scopes of the controller, with names that exist.
Sections ==
  {NoTags, "owner" :> "me", "cluster" :> c2, "service" :> s2, "lbclass" :> public,
   ("owner" :> "me") @@ ("cluster" :> c2) @@ ("service" :> s2) @@ ("port" :> q2)
     @@ ("ippoolid" :> i1) @@ ("lbclass" :> public)}

\* A file with two classes, and with each of these sections.
TaggedFiles ==
  LET pools == (Default :> [name |-> None, id |-> i1]) @@ (public :> [name |-> None, id |-> i2])
  IN  {[AFile(LB(NoRef, "MEDIUM", TRUE, FALSE), pools, Credential, FALSE) EXCEPT !.tags = section] :
         section \in Sections}

AllFiles == PoolFiles \cup OtherFiles \cup TaggedFiles
=============================================================================
