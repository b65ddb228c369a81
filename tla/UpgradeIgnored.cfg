SPECIFICATION Spec
CONSTANTS
    marker = marker
    flux = flux
    data = data
    extra = extra
    gitignore = gitignore
    first = first
    second = second
    v1 = v1
    v2 = v2
    v3 = v3
    below = below
    t1 = t1
    t2 = t2
    x = x
    y = y
    mine = mine
    Absent = Absent
    Unresolved = Unresolved
    NoCommit = NoCommit
    NoVersion = NoVersion
    NoDir = NoDir
    Main = "main"
    UserChanges = "user-changes"
    UpdateChanges = "update-changes"
    Branches <- MCBranches
    Files <- MCFiles
    Hunks <- MCHunks
    Text <- MCText
    IgnoreFile = gitignore
    Ignorable <- OneManifest
    Marker = marker
    VersionHunk = first
    PathHunk = second
    RepoPath = below
    Versions <- MCVersions
    NewerThan <- MCNewerThan
    TempDirs <- OneTempDir
    Catalogs <- OneCatalog
    Editable <- Secrets
    UserText <- OnlyMine
    UserBlobs <- NewBlobs
    MaxEdits = 1
    MaxRepublished = 0
    MaxRuns = 1
INVARIANT CommitCommitsAll
CHECK_DEADLOCK FALSE
