SPECIFICATION Spec
CONSTANTS
    marker = marker
    flux = flux
    data = data
    extra = extra
    gitignore = gitignore
    first = first
    second = second
    v1 = v1
    v2 = v2
    v3 = v3
    below = below
    t1 = t1
    t2 = t2
    x = x
    y = y
    mine = mine
    Absent = Absent
    Unresolved = Unresolved
    NoCommit = NoCommit
    NoVersion = NoVersion
    NoDir = NoDir
    Main = "main"
    UserChanges = "user-changes"
    UpdateChanges = "update-changes"
    Branches <- MCBranches
    Files <- MCFiles
    Hunks <- MCHunks
    Text <- MCText
    IgnoreFile = gitignore
    Ignorable <- OneManifest
    Marker = marker
    VersionHunk = first
    PathHunk = second
    RepoPath = below
    Versions <- MCVersions
    NewerThan <- MCNewerThan
    TempDirs <- OneTempDir
    Catalogs <- TwoCatalogs
    Editable <- Manifests
    UserText <- MineOrY
    UserBlobs <- NewBlobs
    MaxEdits = 2
    MaxRepublished = 1
    MaxRuns = 2
INVARIANTS TypeOK RepositoryHoldsInputs MergeCompleteBeforeSwap UserChangesSurvive UpstreamChangesArrive PathsStayInRepository ConflictListExact
PROPERTY KeepsPromise
CHECK_DEADLOCK FALSE
