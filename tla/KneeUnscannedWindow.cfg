CONSTANTS
    Start = 1
    Cap = 3
    Step = 1
    FineAbove = 1
    FineStep = 2
    Attempts = 2
    MaxPolls = 4
    StuckLimit = 2
    PerBlock = 1
    MaxIfs = 1
    MaxOthers = 0
    MaxLate = 1
    MaxSearches = 1
SPECIFICATION Spec
INVARIANTS
    WindowOnScannedFleet
CHECK_DEADLOCK FALSE
