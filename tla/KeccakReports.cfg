CHECK_DEADLOCK FALSE
CONSTANTS
    NLanes = 2
    Report = 2
    MaxHashes = 4
SPECIFICATION Spec
INVARIANT
    ReportsAreRare
