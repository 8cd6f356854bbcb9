CONSTANTS
    NLanes = 1
    MaxHunts = 2
    MaxMints = 1
SPECIFICATION FairSpec
PROPERTIES
    WatchersGoHome
    LeftWatchersEnd
    StaleSearchAborts
    ExpiredSearchEnds
