CONSTANTS
    FloorBits = 32
    FloorStep = 1
    MaxBurst = 1
    EpochSize = 1
    BasePrice = 100
    PriceStep = 10
    AnchorWindow = 0
    GasUsed = 4
    GasPrices = {5, 10}
    Balances = {110, 320}
    TopUpAmount = 100
    MaxBal = 320
    MaxMinted = 2
    MaxBlock = 1
    MaxSent = 2
    MaxBits = 33
    HoldTries = 2
    Luck = 1
SPECIFICATION Spec
INVARIANTS
    TypeOK
    LiveSolutionMeetsTarget
    PaysExactPrice
    OneInFlight
    ExtraCatNeedsLostOutcome
    DoneOnlyWithCat
    DryRunSendsNothing
    FundsStillThere
PROPERTY
    RevertOnlyIfOvertaken
    ImplementsRace
