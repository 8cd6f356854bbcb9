CONSTANTS
    FloorBits = 32
    FloorStep = 1
    MaxBurst = 1
    EpochSize = 1
    BasePrice = 100
    PriceStep = 10
    AnchorWindow = 0
    GasUsed = 4
    GasPrices = {5, 10}
    Balances = {110}
    TopUpAmount = 100
    MaxBal = 210
    MaxMinted = 1
    MaxBlock = 0
    MaxSent = 1
    MaxBits = 33
    Scripts = {"hunter", "bot", "gpu", "continuous", "verify"}
    MaxAttempts = 2
    HoldTries = 2
    GasMult = 15
    Luck = 1
SPECIFICATION FairSpec
PROPERTIES
    NoTurnHangs
    BotGivesUp
