-------------------------------- MODULE Tags --------------------------------
(***************************************************************************)
(* The tags of the objects in NSX-T (tag.go, and access.go, which puts     *)
(* them together).  A list of tags, at most one for each scope, is a       *)
(* function from scopes to tags.                                           *)
(***************************************************************************)
CONSTANT AppName    \* the name of the controller

Tag(scope, tag) == [x \in {scope} |-> tag]

\* Tags.Add: the tags that are added win.
AddTags(m, tags) ==
  [scope \in DOMAIN m \cup DOMAIN tags |-> IF scope \in DOMAIN tags THEN tags[scope] ELSE m[scope]]

checkTags(tags, required) ==
  \A scope \in DOMAIN required : scope \in DOMAIN tags /\ tags[scope] = required[scope]

getTag(tags, scope) == IF scope \in DOMAIN tags THEN tags[scope] ELSE ""

clusterTag(c) == Tag("cluster", c)
serviceTag(s) == Tag("service", s)
portTag(q) == Tag("port", q)

\* newLBClass: the tags of a class
classTags(name, ipPoolID) == AddTags(Tag("ippoolid", ipPoolID), Tag("lbclass", name))

\* NewAccess: the tags section of the configuration may replace the owner.
standardTags(additional) == AddTags(Tag("owner", AppName), additional)

\* Mutant of ownerTag: the owner is always the controller.
ownerIsApp(additional) == Tag("owner", AppName)

ownerTag(additional) == Tag("owner", standardTags(additional)["owner"])

LbServiceTags(additional, c) == AddTags(standardTags(additional), clusterTag(c))

\* Mutant of VirtualServerTags: the tags section wins.
SectionWins(additional, c, s, class) ==
  AddTags(AddTags(AddTags(clusterTag(c), serviceTag(s)), class), standardTags(additional))

VirtualServerTags(additional, c, s, class) ==
  AddTags(AddTags(AddTags(standardTags(additional), clusterTag(c)), serviceTag(s)), class)

\* Pools and TCP monitors
PoolTags(additional, c, s, q) ==
  AddTags(AddTags(AddTags(standardTags(additional), clusterTag(c)), serviceTag(s)), portTag(q))
=============================================================================
