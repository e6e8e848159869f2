\* Managed mode: the last virtual server goes, another one comes.
CONSTANTS
  l1 = l1
  l2 = l2
  Proc = {p1}
  NoProc = NoProc
  Server = {s1, s2}
  Foreign = {}
  LbID = {l1, l2, l3}
  NoLb = NoLb
  Mode <- OnlyManaged
  MaxFaults = 0
  MaxRestarts = 0
SPECIFICATION Spec
INVARIANT CreatedIfRequired
