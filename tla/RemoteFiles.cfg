SPECIFICATION FairSpec
CONSTANTS
    Dirs = {"home", "sub"}
    Names = {"n", "m"}
    Units <- MCUnits
    Home = "home"
    Root = "sub"
    StartFiles <- MCStart
    Locals <- MCLocals
    Touched <- MCTouched
    Foreign <- MCForeign
    Chunk = 2
    Limit = 3
    Tasks = {1, 2}
    MaxClicks = 3
    MaxElsewhere = 1
    Zero = "0"
    Folder = Folder
    None = None
INVARIANTS
    DownloadedIsComplete
    UploadedIsComplete
PROPERTIES
    UploadsDoNotOverwrite
    TransfersEnd
CHECK_DEADLOCK FALSE
