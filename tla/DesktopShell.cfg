SPECIFICATION FairShellSpec
CONSTANTS
    Scripts = {1, 2}
    Choices = {"on", "off"}
    First = "off"
    MaxService = 1
    MaxChanges = 1
    MaxScripts = 3
    Ours = Ours
    Absent = Absent
INVARIANTS
    OursHaveBackup
    RestoreGivesOriginal
PROPERTIES
    PageRecovers
    QuitEnds
CHECK_DEADLOCK FALSE
