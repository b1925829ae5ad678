SPECIFICATION Spec
CONSTANTS
    Block <- ForkBlock
    Genesis = "g"
    NoBlock = "null"
    Header <- ForkHeader
    HashSpace = 2
    PowLimit = 1
    TrivialDifficulty = FALSE
    AllowMinDifficulty = FALSE
    Spacing = 2
    AsertNextBits <- MCAsert
    MedianTimeSpan = 3
    MaxFuture = 1
    MaxTime = 20
    MaxHeight = 4
    Tx <- ForkTxs
    TxData <- ForkTx
    WellFormed <- ForkTxs
    Authorised <- ForkTxs
    BlockReward <- MCReward
    CoinbaseMaturity = 1
    MaxMoney = 50
    MaxTransactions = 3
    Clock = {1, 3}
    Bodies <- ForkBodies
    Announced = {"a1", "a2", "b2", "b3"}
    MayFault = FALSE
    MaxCrashes = 3
INVARIANTS
    MemoryMatchesStore
    
    TipNeverWorse
