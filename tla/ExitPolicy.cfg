SPECIFICATION Spec
CONSTANTS
    Sources = {"laptop"}
    Exits = {"e1", "e2", "e3"}
    Edited = {"e1"}
    Policies <- SomePolicies
    Ports = {1080}
    Conns = {c1, c2}
    Entries = {"hub", "agent"}
    PlainTime = 1000
    MaxCrashes = 1
    NoPort = 0
    None = None
SYMMETRY Symmetry
INVARIANTS
    DirectOnlyWhenGranted
    PolicyDurable
    ActiveWasCarried
    StarvedOnlyBySilence
