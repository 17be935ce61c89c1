CONSTANTS
    work = work
    home = home
    ram = ram
    plain = plain
    fancy = fancy
    width = width
    unit = unit
    Names = {work, home}
    NameOrder <- MCOrder
    Kinds <- MCKinds
    Instances = {"", "2"}
    Texts = {plain, fancy}
    ParamKeys = {width, unit}
    SchemaKeys <- MCSchema
    DefaultText = plain
    Initial <- MCInitial
    Documents <- MCDocuments
    MaxChanges = 1
    MaxWrites = 1
    MaxExtensions = 2
    Absent = Absent
    Broken = Broken
    None = None
    Refused = Refused
    NotArray = NotArray
    NotTable = NotTable
    NonString = NonString
    KeyAbsent = KeyAbsent

SPECIFICATION TuiSpec

INVARIANTS
    TuiTypeOK
    ParamsAreLoaded

PROPERTIES
    DoesWhatWasShown

CHECK_DEADLOCK FALSE
