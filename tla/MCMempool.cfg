SPECIFICATION Spec
CONSTANTS
    Tx <- MCTx
    TxData <- MCTxData
    WellFormed <- MCTx
    Authorised <- MCTx
    BlockReward <- MCReward
    CoinbaseMaturity = 1
    MaxMoney = 100
    MaxTransactions = 5
    NoTx = "none"
    WeightOf <- MCWeight
    Rank <- MCRank
    MaxPoolWeight = 5
    MinRelayFeerate = 1
    MaxAncestors = 2
    MaxDescendants = 2
    MaxEvictions = 3
    Views <- MCViews
    Confirmed <- MCConfirmed
CHECK_DEADLOCK FALSE
INVARIANTS
    IndicesExact
    PackagesBounded
PROPERTIES
    PackagesLeaveWhole
    
