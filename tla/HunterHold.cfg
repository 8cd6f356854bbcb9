CONSTANTS
    FloorBits = 32
    FloorStep = 1
    MaxBurst = 1
    EpochSize = 1
    BasePrice = 100
    PriceStep = 10
    AnchorWindow = 0
    GasUsed = 4
    GasPrices = {5}
    Balances = {110}
    TopUpAmount = 100
    MaxBal = 210
    MaxMinted = 1
    MaxBlock = 0
    MaxSent = 1
    MaxBits = 33
    HoldTries = 2
    Luck = 1
SPECIFICATION Spec
PROPERTY
    HoldsOnlyLiveSolution
