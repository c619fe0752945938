SPECIFICATION Spec
CONSTANTS
    Dirs = {"home", "sub"}
    Names = {"n", "m"}
    Units <- MCUnits
    Home = "home"
    Root = "sub"
    StartFiles <- MCStart
    Locals <- MCLocals
    Touched <- MCTouched
    Foreign <- MCForeign
    Chunk = 2
    Limit = 3
    Tasks = {1, 2}
    MaxClicks = 3
    MaxElsewhere = 0
    Zero = "0"
    Folder = Folder
    None = None
INVARIANT
    DownloadsTheClickedFile
CHECK_DEADLOCK FALSE
