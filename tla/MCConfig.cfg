\* All files with up to two classes, and all environments; then two controllers, one after
\* the other, with different tags sections and clusters.
CONSTANTS
  n1 = n1
  n2 = n2
  i1 = i1
  i2 = i2
  public = public
  c1 = c1
  c2 = c2
  s1 = s1
  s2 = s2
  q1 = q1
  q2 = q2
  PoolName = {n1, n2}
  PoolId = {i1, i2}
  None = None
  ClassName = {default, public}
  Default = default
  PoolsNamed <- ThePools
  Credential = {user, host}
  AppName = "nsxt-lb-provider"
  Cluster = {c1, c2}
  Service = {s1, s2}
  Port = {q1, q2}
  Section <- Sections
  Files <- AllFiles
  Followed <- TaggedFiles
  MaxFaults = 1
  MaxObjects = 2
  MaxRestarts = 1
SPECIFICATION Spec
INVARIANTS TypeOK PoolsAsConfigured InvalidClassExplained FindsOwnObjects TagsReadBack
CHECK_DEADLOCK FALSE
