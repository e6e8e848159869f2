\* The collector next to the service controller, with one failure, one crash
\* and forced deletions.
CONSTANTS
  tcp = tcp
  udp = udp
  np1 = np1
  poolA = poolA
  poolB = poolB
  ip1 = ip1
  ip2 = ip2
  Svc = {s1}
  NoSvc = NoSvc
  Port = {tcp, udp}
  TCP = {tcp}
  NodePort = {np1}
  Node = {}
  IPPool = {poolA, poolB}
  NoPool = NoPool
  IP = {ip1, ip2}
  NoIP = NoIP
  IPsOf <- FewIPs
  Proc = {p1, r}
  Worker = {p1}
  NoProc = NoProc
  Spec0 <- DeleteSpecs
  RouterGiven = TRUE
  MaxFaults = 1
  MaxCrashes = 1
  MaxChanges = 2
  Collector = r
  DefaultClass = poolB
SPECIFICATION FairReorgSpec
INVARIANTS ReorgTypeOK RefIntegrity SnapshotCoherent OkMeansExact
PROPERTY OrphansCollected
CHECK_DEADLOCK FALSE
