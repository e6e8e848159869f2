\* Unmanaged mode without a router.
CONSTANTS
  l1 = l1
  l2 = l2
  Proc = {p1}
  NoProc = NoProc
  Server = {s1, s2}
  Foreign = {f1}
  LbID = {l1, l2, l3}
  NoLb = NoLb
  Mode <- OnlyNoRouter
  MaxFaults = 0
  MaxRestarts = 0
SPECIFICATION Spec
INVARIANT RemovedIsDetached
