SPECIFICATION Spec
CONSTANTS
    c1 = c1
    c2 = c2
    a = a
    b = b
    Bad = Bad
    SafeNames = {"cpu", "ram"}
    Clients <- MCClients
    Instances <- TwoInstances
    Presets <- ThreePresets
    Editable <- AllParts
    MaxRestarts = 1
INVARIANTS TypeOK AckedPresetIsRead AckedWasmRuns AckedExtensionRuns LoadedIsConfigured
SYMMETRY ClientSymmetry
CHECK_DEADLOCK FALSE
