CONSTANTS
    Partitions = 2
    Top = 2
    MaxGaps = 1
    MaxRuns = 2
SPECIFICATION FairSpec
INVARIANTS
    TypeOK
    CountsMatchBounds
    CleanMeansAllKeptRecords
PROPERTIES
    ReplayCountsTheSame
    ReportEnds
CHECK_DEADLOCK FALSE
