SPECIFICATION LcFairSpec
CONSTANTS
  a1 = a1
  p1 = p1
  staff = staff
  college = college
  school = school
  d1 = d1
  Nobody = Nobody
  NoDept = NoDept
  User <- MCUser
  Dept = {d1}
  Role <- MCRole
  Subtree <- MCSubtree
  Request = {r1, r2}
  Asset = {a1}
  Submission <- UseAndReturn
  Handler = {h1}
  Partition = {p1}
  KeyPartition <- OnePartition
  Dispatcher = {x1}
  MaxRetry = 2
  BatchLimit = 2
  MaxRollbacks = 0
  MaxLost = 0
  Consumer = {c1}
  Visible <- NobodySees
  Seed <- NoAssetYet
  MaxFailures = 0
  MaxTopic = 4
  MaxCrashes = 0
  MaxRebalances = 0
CHECK_DEADLOCK FALSE
PROPERTIES
  GrantEventuallySettled
