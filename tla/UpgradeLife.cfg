SPECIFICATION FairSpec
CONSTANTS
    marker = marker
    flux = flux
    data = data
    extra = extra
    gitignore = gitignore
    first = first
    second = second
    v1 = v1
    v2 = v2
    v3 = v3
    below = below
    t1 = t1
    t2 = t2
    x = x
    y = y
    mine = mine
    Absent = Absent
    Unresolved = Unresolved
    NoCommit = NoCommit
    NoVersion = NoVersion
    NoDir = NoDir
    Main = "main"
    UserChanges = "user-changes"
    UpdateChanges = "update-changes"
    Branches <- MCBranches
    Files <- MCFiles
    Hunks <- MCHunks
    Text <- MCText
    IgnoreFile = gitignore
    Ignorable <- OneManifest
    Marker = marker
    VersionHunk = first
    PathHunk = second
    RepoPath = below
    Versions <- MCVersions
    NewerThan <- MCNewerThan
    TempDirs <- TwoTempDirs
    Catalogs <- TwoCatalogs
    Editable <- OneManifest
    UserText <- OnlyMine
    UserBlobs <- NoBlobs
    MaxEdits = 1
    MaxRepublished = 1
    MaxRuns = 3
INVARIANT PristineTracksCatalog
PROPERTY Terminates
CHECK_DEADLOCK FALSE
