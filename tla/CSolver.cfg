CONSTANTS
    NLanes = 2
    MaxHunts = 2
    MaxMints = 1
SPECIFICATION Spec
INVARIANTS
    TypeOK
    NoSpuriousAbort
    OrphansOnlyAfterFailedStart
PROPERTY
    ImplementsSearch
