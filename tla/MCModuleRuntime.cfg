CONSTANTS
    Kinds = {"cpu", "ram"}
    Names = {"cpu", "cpu#2", "ram"}
    KindOf <- MCKindOf
    Configs = {1, 2}
    Lists <- MCLists
    Version <- MCVersion
    Extensions <- MCExtensions
    Host <- MCHost
    MaxNumber = 40
    NotVersion = NotVersion
    Dead = Dead
    Missing = Missing
    Torn = Torn
    MaxEdits = 2
    MaxInstalls = 1
    MaxFailures = 1

SPECIFICATION Spec

INVARIANTS
    TypeOK
    SettlesOnDisk

PROPERTIES
    KeepsRunning
    ReloadRevalidates
    DoctorIsRight

CHECK_DEADLOCK FALSE
