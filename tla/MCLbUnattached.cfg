\* One crash: a virtual server that was created and not attached.
CONSTANTS
  tcp = tcp
  udp = udp
  np1 = np1
  np2 = np2
  poolA = poolA
  poolB = poolB
  ip1 = ip1
  ip2 = ip2
  ip3 = ip3
  Svc = {s1}
  NoSvc = NoSvc
  Port = {tcp, udp}
  TCP = {tcp}
  NodePort = {np1, np2}
  Node = {}
  IPPool = {poolA, poolB}
  NoPool = NoPool
  IP = {ip1, ip2, ip3}
  NoIP = NoIP
  IPsOf <- TheIPs
  Proc = {p1}
  Worker = {p1}
  NoProc = NoProc
  Spec0 <- OneSpec
  RouterGiven = TRUE
  MaxFaults = 0
  MaxCrashes = 1
  MaxChanges = 1
SPECIFICATION Spec
INVARIANT OkMeansAttached
CHECK_DEADLOCK FALSE
