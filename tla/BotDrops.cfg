CONSTANTS
    FloorBits = 32
    FloorStep = 1
    MaxBurst = 1
    EpochSize = 1
    BasePrice = 100
    PriceStep = 10
    AnchorWindow = 1
    GasUsed = 4
    GasPrices = {5}
    Balances = {125}
    TopUpAmount = 100
    MaxBal = 125
    MaxMinted = 1
    MaxBlock = 1
    MaxSent = 1
    MaxBits = 33
    MaxAttempts = 1
    Luck = 1
SPECIFICATION Spec
PROPERTY
    DropsOnlyDeadSolutions
