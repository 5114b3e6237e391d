SPECIFICATION InvSpec
CONSTANTS
  a1 = a1
  a2 = a2
  u1 = u1
  u2 = u2
  h1 = h1
  h2 = h2
  Asset <- MCAsset
  User <- MCUser
  Cells <- MCCells
  BookLocation <- MCBookLocation
  Handler <- MCHandler
  MaxSubmits = 2
  MaxIncidents = 1
SYMMETRY Alike
INVARIANTS
  InvInv
  DraftsReachRecords
  ItemsAreRecorded
  VerdictIsRecorded
  DifferenceIsReal
  ComparedIsSettled
  ComparisonIsUnderWay
PROPERTY BackOnlyByOverlap
CHECK_DEADLOCK FALSE
