SPECIFICATION Spec
CONSTANTS
    r1 = r1
    r2 = r2
    r3 = r3
    d1 = d1
    d2 = d2
    d3 = d3
    e1 = e1
    e2 = e2
    NoSnapshot = NoSnapshot
    NoProfile = NoProfile
    NoSource = NoSource
    NoMarker = NoMarker
    Keys <- MCKeys
    Snapshots <- MCSnapshots
    History <- MCHistory
    Names <- MCNames
    FileNames <- MCFileNames
    Paths <- MCPaths
    TagPath <- MCTagPath
    Profiles <- MCProfiles
    Root <- MCRoot
    MaxMoves = 2
    MaxRuns = 2
INVARIANT DependenciesOrdered
CHECK_DEADLOCK FALSE
