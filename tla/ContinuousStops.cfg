CONSTANTS
    FloorBits = 32
    FloorStep = 1
    MaxBurst = 1
    EpochSize = 1
    BasePrice = 100
    PriceStep = 10
    AnchorWindow = 0
    GasUsed = 4
    GasPrices = {5}
    Balances = {320}
    TopUpAmount = 100
    MaxBal = 320
    MaxMinted = 0
    MaxBlock = 0
    MaxSent = 2
    MaxBits = 33
    GasMult = 15
    Luck = 1
SPECIFICATION Spec
INVARIANT
    StopsAfterFirstCat
