SPECIFICATION Spec
CONSTANTS
    Block <- WrongBlock
    Genesis = "g"
    NoBlock = "null"
    Header <- WrongHeader
    HashSpace = 4
    PowLimit = 3
    TrivialDifficulty = FALSE
    AllowMinDifficulty = TRUE
    Spacing = 1
    AsertNextBits <- MCAsert
    MedianTimeSpan = 3
    MaxFuture = 3
    MaxTime = 20
    MaxHeight = 4
    Tx <- WrongTxs
    TxData <- WrongTx
    WellFormed <- WrongTxs
    Authorised <- WrongTxs
    BlockReward <- MCReward
    CoinbaseMaturity = 1
    MaxMoney = 50
    MaxTransactions = 3
    Clock = {3}
    Bodies <- WrongBodies
    Announced = {"b2"}
    MayFault = TRUE
    MaxCrashes = 1
INVARIANTS
    StoreCoherent
    
    TipIsRecoverable
PROPERTIES
    ActivationReturns
