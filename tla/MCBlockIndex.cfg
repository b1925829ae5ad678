SPECIFICATION Spec
CONSTANTS
    Block <- MCBlock
    Genesis = "g"
    NoBlock = "null"
    Header <- MCHeader
    HashSpace <- MCHashSpace
    PowLimit <- MCPowLimit
    TrivialDifficulty = FALSE
    AllowMinDifficulty = TRUE
    Spacing = 2
    AsertNextBits <- MCAsert
    MedianTimeSpan = 3
    MaxFuture = 1
    MaxTime = 10
    MaxHeight = 3
    Clock = {2, 5}
    MinerClock = {0, 1, 2, 9}
    Levels = {0, 2}
INVARIANTS
    BestMaximal
    FailureInherited
    TemplateAccepted
PROPERTIES
    JudgementsStand
    FirstSeenKeepsTie
