SPECIFICATION AsSpec
CONSTANTS
  a1 = a1
  p1 = p1
  q1 = q1
  q2 = q2
  q3 = q3
  d1 = d1
  staff = staff
  admin = admin
  Nobody = Nobody
  NoDept = NoDept
  User = {staff, admin}
  Dept = {d1}
  PartitionOf <- OnePartition
  Asset = {a1}
  Event <- UseReturnScrap
  Partition = {p1}
  Consumer = {c1}
  Visible <- NobodySees
  Seed <- OneAsset
  MaxFailures = 1
  MaxTopic = 3
  MaxCrashes = 0
  MaxRebalances = 0
CHECK_DEADLOCK FALSE
INVARIANTS
  CommittedIsDeduped
