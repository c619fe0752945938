SPECIFICATION Spec
CONSTANTS
    Agents = {"laptop"}
    Adopters = {"laptop"}
    TunnelKey <- MCTunnelKey
    kA = kA
    kX = kX
    k1 = k1
    k2 = k2
    Keys = {kA, kX, k1, k2}
    Codes = {c1}
    Hosts = {1, 2, 3, 4, 5}
    ServerIP = 1
    HandedTo <- WrongCodes
    PrePeers <- MCPrePeers
    MaxCodes = 2
    MaxAttempts = 2
    MaxFaults = 0
    NoIP = NoIP
    None = None
INVARIANT
    AdoptedAddressMatches
