CONSTANTS
    Start = 1
    Cap = 2
    Step = 1
    FineAbove = 2
    FineStep = 2
    Attempts = 2
    MaxPolls = 3
    StuckLimit = 2
    PerBlock = 2
    MaxIfs = 3
    MaxOthers = 1
    MaxLate = 1
    MaxSearches = 2
SPECIFICATION FairSpec
INVARIANTS
    TypeOK
    FleetIsThere
    KneeIsBracketed
PROPERTIES
    ReconciledMeansScanned
    SearchEnds
CHECK_DEADLOCK FALSE
