CONSTANTS
    Pids = {1, 2}
    Names = {"shell", "editor"}
    Target = "editor"
    None = None
    MaxEvents = 2
    MaxQueueLen = 1
    MaxChanges = 4
    MaxConnected = 3
    MaxPad = 64
    NotLayouts = {"pc", "inet(evdev)"}
    Wrong = Wrong

SPECIFICATION FairSpec

INVARIANTS
    TypeOK
    TracksTheLiving

PROPERTIES
    ShowsTheTruth

CHECK_DEADLOCK FALSE
