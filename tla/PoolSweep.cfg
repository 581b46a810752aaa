CONSTANTS
    Start = 1
    Cap = 3
    Steps = {0, 1}
    Stock = 3
    MaxTput = 2
    MaxSweeps = 2
SPECIFICATION FairSpec
INVARIANTS
    RowsOfTheRunningPool
    CeilingIsTheLadders
PROPERTIES
    DamageLeavesBackup
    SweepEnds
CHECK_DEADLOCK FALSE
