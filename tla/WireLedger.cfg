CONSTANTS
    d1 = d1
    d2 = d2
    Devices <- MCDevices
    Burst <- MCBurst
    Offset <- MCOffset
    TickLen = 4
    Refresh = 2
    T0 = 4
    T1 = 12
    DrainEnd = 13
    LastTick = 3
    MaxFaults = 2
SPECIFICATION EmitSpec
INVARIANTS
    VerdictIsRight
    InteriorLossIsSeen
    ShapeIsTheTicks
CHECK_DEADLOCK FALSE
