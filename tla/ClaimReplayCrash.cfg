SPECIFICATION Spec
CONSTANTS
    Block <- RivalBlock
    Genesis = "g"
    NoBlock = "null"
    Header <- RivalHeader
    HashSpace = 2
    PowLimit = 1
    TrivialDifficulty = FALSE
    AllowMinDifficulty = FALSE
    Spacing = 2
    AsertNextBits <- MCAsert
    MedianTimeSpan = 3
    MaxFuture = 3
    MaxTime = 20
    MaxHeight = 4
    Tx <- RivalTxs
    TxData <- RivalTx
    WellFormed <- RivalTxs
    Authorised <- RivalTxs
    BlockReward <- MCReward
    CoinbaseMaturity = 1
    MaxMoney = 50
    MaxTransactions = 3
    Clock = {3}
    Bodies <- RivalBodies
    Announced = {}
    MayFault = FALSE
    MaxCrashes = 2
INVARIANTS
    ReplayNeverRefuses
