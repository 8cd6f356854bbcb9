SPECIFICATION MonitorSpec
CONSTANTS
    BitsOpen = 34
    BitsApproaching = 37
    Difficulties = {34, 35, 38}
    Rpcs = {1, 2}
    MaxTotal = 2
    MaxTroubles = 3
    RowDifficulties = {34, 35, 37, 38}
    MaxRows = 2
    MaxBurst = 2
    MintsPerPoll = 2
    Window = 2
    HistLen = 5
    EventsLen = 6
    MaxLate = 2
    MaxTime = 7
    Seconds = 4
    Lag = 1
    MaxMints = 4
INVARIANTS
    MonitorTypeOK
    OpenWindowsAreAnnounced
    MintsCountedOnce
    
    SampleIsWhole
PROPERTIES
    GoesOnRecording
    ReportsOnlyGrow
    OpenRowIsReported
