--------------------------- MODULE MCLoadBalancer ---------------------------
(***************************************************************************)
(* Instances of LoadBalancer for TLC: which specifications users choose    *)
(* from, and which addresses the IP pools have.                            *)
(***************************************************************************)
EXTENDS LoadBalancer, TLC

CONSTANTS tcp, udp, np1, np2, poolA, poolB, ip1, ip2, ip3

TheSpec(ports, np, class) == [ports |-> ports, nodePort |-> np, class |-> class]

\* One service changes its ports and its node ports.
PortSpecs ==
  {TheSpec({tcp, udp}, np1, poolA), TheSpec({tcp}, np2, poolA)}

\* One port and one class.
OneSpec == {TheSpec({udp}, np1, poolA)}

\* Services change their class.
ClassSpecs == {TheSpec({udp}, np1, poolA), TheSpec({udp}, np1, poolB)}

\* poolA has two addresses, poolB has one.
TheIPs == (poolA :> {ip1, ip2}) @@ (poolB :> {ip3})

\* Services, goroutines and the addresses of poolA are interchangeable.
Symmetry == Permutations(Svc) \cup Permutations(Proc) \cup Permutations({ip1, ip2})
=============================================================================
