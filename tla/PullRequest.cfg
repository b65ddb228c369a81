SPECIFICATION FairSpec
CONSTANTS
    app = app
    notes = notes
    one = one
    oneMarker = oneMarker
    two = two
    gitignore = gitignore
    region = region
    x = x
    mine = mine
    Absent = Absent
    Unresolved = Unresolved
    NoCommit = NoCommit
    Files <- MCFiles
    Hunks <- MCHunks
    Text <- MCText
    Branches <- MCBranches
    Main = "main"
    Base = "main"
    IgnoreFile = gitignore
    Ignorable <- Nothing
    Installations <- BothInstallations
    Generated <- MCGenerated
    Tracked0 <- MCTracked
    OwnFiles <- MCOwnFiles
    OwnBlobs <- MCOwnBlobs
    Named <- MCNamed
    Invocations <- AllInvocations
    MaxEdits = 1
    MaxMishaps = 1
    MaxRuns = 3
INVARIANTS TypeOK ProposalComplete UntrackedStaysLocal
PROPERTIES BaseOnlyOnRequest MisdirectedStaysLocal RetriesSucceed
CHECK_DEADLOCK FALSE
