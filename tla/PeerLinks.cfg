\* One configured host and one endpoint that connects, so that inbound and
\* outbound connections, reconnections and a ban meet within the bounds.
SPECIFICATION Spec
CONSTANTS
    Host = {"h"}
    Caller = {"e"}
    Address = {"a", "b", "c"}
    MaxOutbound = 1
    MaxInbound = 2
    Penalty = 1
    BanThreshold = 1
    BookLimit = 2
    AddrLimit = 2
    MaxConns = 3
    MaxEvents = 4
CHECK_DEADLOCK FALSE
INVARIANTS
    OnlyAdmittedPeers
    NoSilentLoss
PROPERTIES
    GoneIsGivenUp
