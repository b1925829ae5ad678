CONSTANTS
    LimbBits = 6
    LimbCount = 5
    Half = 8
    ByteBits = 3
    TargetBytes = 8
    RadixBits = 4
    Linear = 2849
    Quadratic = 58
    Cubic = 1
    Saturation = 512
    TimeBound = 1024
    SpanBound = 1024
    HalfLifeBound = 1024
    Base = 6
    U8 = 1
    U16 = 1
    U32 = 1
    U64 = 2
    HashBytes = 1
    AddressBytes = 2
    MaxMoney = 15
    MaxBlockWeight = 200
    MaxMessageSize = 4
    MaxProgram = 3
    MaxKeys = 3
    MaxKeyBytes = 3
    MaxSignatureBytes = 3
    MaxCoinbaseData = 3
    MaxUserAgent = 3
    MaxItems = 4
    CommandCount = 5
    ProgramBytes = 2
    WordBits = 3
    SeedBits = 7
    HashBits = 2
    HashOf <- MCHashOf
    MaxHeaderBytes = 48
    MaxRequestBytes = 12
    MaxResponseBytes = 64
    KnownSchemes = 3
    Never = 100
    MaxInt = 9
SPECIFICATION Spec
INVARIANTS
    TargetsExact
    MoneyBounded
    EncodingBinds
    
    AuthorisationBinds
    RulesOnlyTighten
    FundsExact
    TextRestated
    AccessScreened
    NoncesCovered
