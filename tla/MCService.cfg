CONSTANTS
    c1 = c1
    c2 = c2
    c3 = c3
    Connections <- MCConnections
    Callers <- MCCallers
    MaxConnections = 2
    Methods <- MCMethods
    Passwords <- MCPasswords
    MaxSeeds = 2
    MaxIndex = 1
    MaxRuns = 2
    Overlap = FALSE
SPECIFICATION Spec
CHECK_DEADLOCK FALSE
INVARIANTS
    OpenExact
    AddressesSound
PROPERTIES
    ConnectionsEnd
