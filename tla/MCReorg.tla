------------------------------ MODULE MCReorg -------------------------------
(***************************************************************************)
(* Instances of Reorg for TLC.                                             *)
(***************************************************************************)
EXTENDS Reorg, TLC

CONSTANTS tcp, udp, np1, poolA, poolB, ip1, ip2

\* One port and one class.
TcpSpec == {[ports |-> {tcp}, nodePort |-> np1, class |-> poolA]}

\* One address each: a leaked address exhausts the pool.
FewIPs == (poolA :> {ip1}) @@ (poolB :> {ip2})

\* A service loses its class before it is deleted, or not.
DeleteSpecs == TcpSpec \cup {[ports |-> {udp}, nodePort |-> np1, class |-> NoPool]}
=============================================================================
