SPECIFICATION LcSpec
CONSTANTS
  a1 = a1
  p1 = p1
  staff = staff
  college = college
  school = school
  d1 = d1
  Nobody = Nobody
  NoDept = NoDept
  User <- MCUser
  Dept = {d1}
  Role <- MCRole
  Subtree <- MCSubtree
  Request = {r1, r2}
  Asset = {a1}
  Submission <- UseAndReturn
  Handler = {h1}
  Partition = {p1}
  KeyPartition <- OnePartition
  Dispatcher = {x1}
  MaxRetry = 2
  BatchLimit = 2
  MaxRollbacks = 0
  MaxLost = 1
  Consumer = {c1, c2}
  Visible <- NobodySees
  Seed <- InStockSeed
  MaxFailures = 1
  MaxTopic = 4
  MaxCrashes = 1
  MaxRebalances = 1
SYMMETRY Symmetry
VIEW WithoutRecords
CHECK_DEADLOCK FALSE
INVARIANTS
  AppliedWasGranted
  HeldByGrantee
