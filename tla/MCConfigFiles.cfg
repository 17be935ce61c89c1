CONSTANTS
    tui = tui
    cli = cli
    Processes = {tui, cli}
    default = default
    work = work
    home = home
    Names = {default, work, home}
    Default = default
    Program = Program
    Entries <- MCEntries
    Absent = Absent
    Empty = Empty
    Garbled = Garbled
    Refused = Refused
    NotArray = NotArray
    NotTable = NotTable
    NonString = NonString
    KeyAbsent = KeyAbsent
    MaxOperations = 5
    MaxCrashes = 1

SPECIFICATION Spec

SYMMETRY Symmetry

INVARIANTS
    TypeOK
    ActiveExists

PROPERTIES
    ImplementsPresetStore

CHECK_DEADLOCK FALSE
