---------------------------- MODULE MCLbService -----------------------------
(***************************************************************************)
(* Instances of LbService for TLC: the modes.                              *)
(***************************************************************************)
EXTENDS LbService

CONSTANTS l1, l2

\* Only a router is given, and it has no service yet.
ManagedMode == [id |-> NoLb, router |-> TRUE, preset |-> {}, onRouter |-> {}]

\* The router already has a service, perhaps with the servers of somebody else.
SharedMode == [id |-> NoLb, router |-> TRUE, preset |-> {l1}, onRouter |-> {l1}]

\* A service and its router are given; another router has a service, too.
UnmanagedMode == [id |-> l1, router |-> TRUE, preset |-> {l1, l2}, onRouter |-> {l1}]

\* A service is given, and no router.
NoRouterMode == [id |-> l1, router |-> FALSE, preset |-> {l1, l2}, onRouter |-> {}]

AllModes == {ManagedMode, SharedMode, UnmanagedMode}
OnlyManaged == {ManagedMode}
OnlyNoRouter == {NoRouterMode}
=============================================================================
