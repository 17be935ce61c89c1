CONSTANTS
    MaxSpawns = 2
    MaxCalls = 2
    MaxInstalls = 1
    MaxEvents = 1
    Nothing = Nothing
    Refused = Refused
    Hidden = Hidden
    Sensitive = {"token"}
    MaxRecords = 3

SPECIFICATION FairSpec

INVARIANTS
    TypeOK
    NoStrayProcess
    AnswerBelongsToCall

PROPERTIES
    ReloadServesNewBinary
    SpawnedCallReturns

CHECK_DEADLOCK FALSE
