SPECIFICATION ExFairSpec
CONSTANTS
    Handler = {h1, h2}
    Worker = {x1, x2}
    Kind = {"workflow_log", "asset_list", "no task"}
    Row = {"w1", "a1"}
    TableOf <- MCTableOf
    MaxJobs = 2
    Second = {1}
    MaxFaults = 1
INVARIANTS
    ExInv
    DoneHoldsWhatWasThere
PROPERTIES
    OutcomeIsFinal
    EventuallySettled
CHECK_DEADLOCK FALSE
