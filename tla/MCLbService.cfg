\* All modes with a router: two goroutines, two failures and a restart.
CONSTANTS
  l1 = l1
  l2 = l2
  Proc = {p1, p2}
  NoProc = NoProc
  Server = {s1, s2}
  Foreign = {f1}
  LbID = {l1, l2, l3}
  NoLb = NoLb
  Mode <- AllModes
  MaxFaults = 2
  MaxRestarts = 1
SPECIFICATION FairSpec
INVARIANTS TypeOK AddedIsAttached RemovedIsDetached SingleService NoIdleService
PROPERTIES ImplementsLbRegistry CallsReturn
