CONSTANTS
    Messages <- MCMessages
    Width = 2
    MAX_DENSE_BUCKETS = 4
    MaxRecords = 4
SPECIFICATION ReadSpec
INVARIANTS
    TimelineIsTheSamples
    CoverageIsOfTheCounted
CHECK_DEADLOCK FALSE
