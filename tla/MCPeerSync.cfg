SPECIFICATION Spec
CONSTANTS
    Node = {"x", "y", "z"}
    Dials <- MCDials
    Block <- MCBlock
    Genesis = "g"
    Header <- MCHeader
    NoBlock = "null"
    HashSpace = 4
    PowLimit = 3
    TrivialDifficulty = TRUE
    AllowMinDifficulty = FALSE
    Spacing = 1
    AsertNextBits <- MCAsert
    MedianTimeSpan = 1
    MaxFuture = 1
    MaxTime = 20
    MaxHeight = 9
    MaxCount = 2
    MaxDials = 2
    MaxBreaks = 1
    Now = 9
    Tx = {"p", "c"}
    Ancestors <- MCAncestors
    Scenes <- MCScenes
CHECK_DEADLOCK FALSE
INVARIANTS
    
    
    SilenceIsOnePool
PROPERTIES
    ExchangeEnds
