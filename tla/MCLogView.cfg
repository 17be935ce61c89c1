CONSTANTS
    daemon = daemon
    tui = tui
    Loggers = {daemon, tui}
    Levels = {"WARN", "INFO"}
    Retentions = {0, 1}
    NoLogger = NoLogger
    MaxLines = 3
    MaxDay = 1
    MaxPrunes = 2
    Chunk = 2
    Viewports = {0, 2}
    NewLine = NewLine
    Block = 3

SPECIFICATION LogSpec

SYMMETRY Symmetry

INVARIANTS
    LogTypeOK
    LinesKept

PROPERTIES
    DrawsTheFile

CHECK_DEADLOCK FALSE
