CONSTANTS
    START = 1
    STEP = 1
    CAP = 2
    RUNGS <- MCRungs
    Attempts = 2
    ClearPolls = 2
    SettlePolls = 2
    Hold = 1
    MaxRuns = 2
    MaxLate = 1
SPECIFICATION FairSpec
INVARIANTS
    SettledFleetIsTheRung
    RowsEndAtTheEdge
PROPERTIES
    ClimbEnds
CHECK_DEADLOCK FALSE
