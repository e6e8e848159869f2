----------------------------- MODULE MCNodeSync -----------------------------
(***************************************************************************)
(* Instance of NodeSync for TLC.                                           *)
(***************************************************************************)
EXTENDS NodeSync

CONSTANTS n1, n2, n3, n4, a1, a2

\* Two nodes share an address, one has its own and one has none.
TheAddresses == (n1 :> a1) @@ (n2 :> a2) @@ (n3 :> a2) @@ (n4 :> NoAddress)
=============================================================================
