\* One service changes its ports and the nodes change, with one failure and one crash.
CONSTANTS
  tcp = tcp
  udp = udp
  np1 = np1
  np2 = np2
  poolA = poolA
  poolB = poolB
  ip1 = ip1
  ip2 = ip2
  ip3 = ip3
  Svc = {s1}
  NoSvc = NoSvc
  Port = {tcp, udp}
  TCP = {tcp}
  NodePort = {np1, np2}
  Node = {n1}
  IPPool = {poolA, poolB}
  NoPool = NoPool
  IP = {ip1, ip2, ip3}
  NoIP = NoIP
  IPsOf <- TheIPs
  Proc = {p1, p2}
  Worker = {p1, p2}
  NoProc = NoProc
  Spec0 <- PortSpecs
  RouterGiven = TRUE
  MaxFaults = 1
  MaxCrashes = 1
  MaxChanges = 2
SPECIFICATION Spec
INVARIANTS TypeOK SnapshotCoherent OkMeansExact ClassIsSet RefIntegrity
PROPERTIES AddressStable DetachedFirst
SYMMETRY Symmetry
CHECK_DEADLOCK FALSE
