CONSTANTS
    RateLists <- MCRateLists
    Windows = {1, 2}
    MaxArmed = 2
    MaxExcess = 0
    MaxShort = 1
    MaxRaw = 1
    Backgrounds = {0, 1}
    MinDelivery = 90
    Tolerance = 10
    MaxPlays = 2
SPECIFICATION Spec
INVARIANTS
    ReferenceIsLeastLoaded
    RepeatIsSecondMeasurement
    NoLedgerReadTwice
CHECK_DEADLOCK FALSE
