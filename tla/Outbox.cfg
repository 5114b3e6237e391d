SPECIFICATION ObSpec
CONSTANTS
  e1 = e1
  e2 = e2
  e3 = e3
  p1 = p1
  p2 = p2
  Event = {e1, e2, e3}
  Partition = {p1, p2}
  PartitionOf <- TwoPartitions
  Dispatcher = {x1, x2}
  MaxRetry = 2
  BatchLimit = 2
  MaxRows = 3
  MaxRollbacks = 1
  MaxLost = 1
SYMMETRY Symmetry
CHECK_DEADLOCK FALSE
INVARIANTS
  ObInv
  DuplicatesExplained
  DeadAfterMaxRetry
  OvertakenOnlyIfFailed
PROPERTIES
  SettledIsFinal
