SPECIFICATION AcSpec
CONSTANTS
    Handler = {h1, h2}
    NewName = {ann, bob}
    Founded <- MCFounded
    Staff <- MCStaff
    AskedDept = {15, 150}
    AccessTTL = 2
    RefreshTTL = 3
    Micro = {0}
    MaxTime = 2
    MaxCalls = 3
    MaxFaults = 1
SYMMETRY Symmetry
INVARIANTS
    AcInv
    ScopesFollowTree
    MadeInOwnCollege
    DisabledRunsOut
    SignedOutStaysOut
CHECK_DEADLOCK FALSE
