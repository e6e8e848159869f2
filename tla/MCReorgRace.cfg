\* A service is created during a pass; nothing fails.
CONSTANTS
  tcp = tcp
  udp = udp
  np1 = np1
  poolA = poolA
  poolB = poolB
  ip1 = ip1
  ip2 = ip2
  Svc = {s1}
  NoSvc = NoSvc
  Port = {tcp, udp}
  TCP = {tcp}
  NodePort = {np1}
  Node = {}
  IPPool = {poolA, poolB}
  NoPool = NoPool
  IP = {ip1, ip2}
  NoIP = NoIP
  IPsOf <- FewIPs
  Proc = {p1, r}
  Worker = {p1}
  NoProc = NoProc
  Spec0 <- TcpSpec
  RouterGiven = TRUE
  MaxFaults = 0
  MaxCrashes = 0
  MaxChanges = 1
  Collector = r
  DefaultClass = poolA
SPECIFICATION ReorgSpec
INVARIANT SafelyDeleted
CHECK_DEADLOCK FALSE
