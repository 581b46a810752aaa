CONSTANTS
    MaxScenarios = 2
    Devices = 1
    Ledgers <- MCLedgers
    Drivers = {d1, d2}
    Profiled = {d2}
    PerDevice = 1
    MaxLate = 1
SPECIFICATION FairSpec
INVARIANTS
    TypeOK
    ReleasedMeansFree
    WindowUndisturbed
    ExitZeroMeansDelivered
PROPERTIES
    StoppedLedgerSurvives
    LabFreesUp
    RunsAsObserved
