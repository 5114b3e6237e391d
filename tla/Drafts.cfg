SPECIFICATION DsSpec
CONSTANTS
  u1 = u1
  u2 = u2
  w1 = w1
  w2 = w2
  w3 = w3
  Operator <- MCOperator
  Session <- MCSession
  OperatorOf <- MCOperatorOf
  Assigned <- MCAssigned
  Cells <- MCCells
  MaxTime = 2
  MaxSubmits = 3
  MaxFaults = 1
SYMMETRY Windows
INVARIANTS
  DsInv
  NoUnseenOverwrite
  ConflictIsOfWords
  ConsensusSpeaksForAll
PROPERTY VersionsAdvance
CHECK_DEADLOCK FALSE
