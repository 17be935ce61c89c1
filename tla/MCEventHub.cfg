CONSTANTS
    kbd = kbd
    bat = bat
    Instances = {kbd, bat}
    MaxQueueLen = 2
    MaxEvents = 3
    MaxTraps = 1
    NoInstance = NoInstance

SPECIFICATION Spec

SYMMETRY Symmetry

INVARIANTS
    TypeOK
    DeliveredInOrder
    NoLostWake

CHECK_DEADLOCK FALSE
