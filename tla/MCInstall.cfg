CONSTANTS
    i1 = i1
    i2 = i2
    Installers = {i1, i2}
    Requests <- MCRequests
    Manifests <- MCManifests
    Payloads <- MCPayloads
    Applications <- MCApplications
    MaxDownload = 2
    MaxManifest = 1
    MaxUnpacked = 4
    MaxFailures = 4
    MaxShared = 1
    MaxCrashes = 1
    NoHash = NoHash
    Malformed = Malformed
    Missing = Missing
    Directory = Directory
    Anything = Anything
    Refused = Refused

SPECIFICATION Spec

SYMMETRY Symmetry

INVARIANTS
    TypeOK
    NothingLost
    FreshInstallsAgree

PROPERTIES
    ReportIsTrue

CHECK_DEADLOCK FALSE
