SPECIFICATION Spec
CONSTANTS
    Sources = {"laptop"}
    Exits = {"e1", "e2", "e3", "e4"}
    Edited = {}
    Policies <- FourExits
    Ports = {1080}
    Conns = {c1}
    Entries = {"hub", "agent"}
    PlainTime = 1000
    MaxCrashes = 0
    NoPort = 0
    None = None
INVARIANT
    EveryExitHasItsTurn
