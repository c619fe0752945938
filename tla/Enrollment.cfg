SPECIFICATION FairSpec
CONSTANTS
    Agents = {"laptop", "desktop"}
    Adopters = {"laptop"}
    TunnelKey <- MCTunnelKey
    kA = kA
    kX = kX
    k1 = k1
    k2 = k2
    Keys = {kA, kX, k1, k2}
    Codes = {c1, c2}
    Hosts = {1, 2, 3, 4, 5, 6}
    ServerIP = 1
    HandedTo <- HandedCodes
    PrePeers <- TwoAddresses
    MaxCodes = 2
    MaxAttempts = 2
    MaxFaults = 2
    NoIP = NoIP
    None = None
INVARIANTS
    DevicesDistinct
    CodeSingleUse
    EnrolledIsRegistered
    NoStrayPeers
    TunnelsKept
PROPERTIES
    RouteNeverMoves
    DevicesRouted
