CONSTANTS
    kbd = kbd
    bat = bat
    Instances = {kbd}
    MaxQueueLen = 2
    MaxEvents = 4
    MaxTraps = 2
    NoInstance = NoInstance

SPECIFICATION FairSpec

PROPERTIES
    EventsAreTaken

CHECK_DEADLOCK FALSE
