CONSTANTS
    Plans <- MCPlans
    Keys = {k1, k2}
    MaxLog = 4
    MaxRuns = 2
SYMMETRY MCSymmetry
SPECIFICATION Spec
INVARIANTS
    RowsOfTheirOwnWindow
    DurationsAreOfTheWindow
CHECK_DEADLOCK FALSE
