SPECIFICATION NodeSpec
CONSTANTS
    Block <- MCBlock
    Genesis = "g"
    NoBlock = "null"
    Header <- MCHeader
    HashSpace = 2
    PowLimit = 1
    TrivialDifficulty = TRUE
    AllowMinDifficulty = FALSE
    Spacing = 2
    AsertNextBits <- MCAsert
    MedianTimeSpan = 3
    MaxFuture = 3
    MaxTime = 20
    MaxHeight = 4
    Tx <- MCTx
    TxData <- MCTxData
    WellFormed <- MCTx
    Authorised <- MCTx
    BlockReward <- MCReward
    CoinbaseMaturity = 1
    MaxMoney = 50
    MaxTransactions = 3
    Clock = {3}
    Bodies <- MCBodies
    Announced = {"b2"}
    MayFault = FALSE
    MaxCrashes = 1
    NoTx = "none"
    WeightOf <- MCWeight
    Rank <- MCRank
    MaxPoolWeight = 2
    MinRelayFeerate = 1
    MaxAncestors = 2
    MaxDescendants = 2
    MaxEvictions = 2
    Offered = {"pay", "next", "rich", "young"}
    TemplateWeight = 2
INVARIANTS
    MinableUntilReversed
    PoolUnconfirmed
