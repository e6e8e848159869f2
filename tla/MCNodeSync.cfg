\* One service, one worker and the node sync loop; three changes of nodes, a failed call
\* and a crash.
CONSTANTS
  n1 = n1
  n2 = n2
  n3 = n3
  n4 = n4
  a1 = a1
  a2 = a2
  Svc = {s1}
  Port = {q1}
  Node = {n1, n2, n3, n4}
  Address = {a1, a2}
  NoAddress = NoAddress
  AddressOf <- TheAddresses
  NoPool = NoPool
  Worker = {w1}
  Sync = sync
  NoProc = NoProc
  MaxFaults = 1
  MaxCrashes = 1
  MaxNodes = 3
  MaxChanges = 1
SPECIFICATION FairSpec
INVARIANTS TypeOK MembersExact PoolsSettled
PROPERTY PoolsFollowNodes
CHECK_DEADLOCK FALSE
