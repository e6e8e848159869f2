\* Two services compete for addresses and change their classes, with a crash; unmanaged mode
\* without a router.
CONSTANTS
  tcp = tcp
  udp = udp
  np1 = np1
  np2 = np2
  poolA = poolA
  poolB = poolB
  ip1 = ip1
  ip2 = ip2
  ip3 = ip3
  Svc = {s1, s2}
  NoSvc = NoSvc
  Port = {tcp, udp}
  TCP = {tcp}
  NodePort = {np1, np2}
  Node = {}
  IPPool = {poolA, poolB}
  NoPool = NoPool
  IP = {ip1, ip2, ip3}
  NoIP = NoIP
  IPsOf <- TheIPs
  Proc = {p1, p2}
  Worker = {p1, p2}
  NoProc = NoProc
  Spec0 <- ClassSpecs
  RouterGiven = FALSE
  MaxFaults = 0
  MaxCrashes = 1
  MaxChanges = 2
SPECIFICATION Spec
INVARIANTS AddressHeld AddressExclusive NoLeakedAddress
SYMMETRY Symmetry
CHECK_DEADLOCK FALSE
