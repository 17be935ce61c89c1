SPECIFICATION FairSpec
CONSTANTS
    c1 = c1
    c2 = c2
    a = a
    b = b
    Bad = Bad
    SafeNames = {"cpu", "ram"}
    Clients <- MCClients
    Instances <- OneInstance
    Presets <- TwoPresets
    Editable <- TwoParts
    MaxRestarts = 0
PROPERTY PresetGetsRead
CHECK_DEADLOCK FALSE
