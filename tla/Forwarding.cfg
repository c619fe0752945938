SPECIFICATION FairSpec
CONSTANTS
    Requests = {r1, r2}
    Ids = {i1, i2}
    Drafts <- MCDrafts
    Devices = {"laptop", "cloud"}
    Cloud = "cloud"
    Sockets <- MCSockets
    MaxCrashes = 1
    None = None
    Free = Free
    Foreign = Foreign
    Nobody = Nobody
    Run = Run
INVARIANTS
    TypeOK
    SocketsUnique
    NoLeakedListener
    ListedMappingsListen
    AnswersDurable
PROPERTIES
    ImplementsStore
    RequestsEnd
