CONSTANTS
    NLanes = 1
    MaxHunts = 1
    MaxMints = 0
SPECIFICATION Spec
PROPERTY
    ExitedMeansNone
