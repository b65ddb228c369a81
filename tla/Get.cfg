SPECIFICATION FairSpec
CONSTANTS
    catalog1 = catalog1
    nginx = nginx
    other = other
    url1 = url1
    url2 = url2
    branch1 = branch1
    mine = mine
    theirs = theirs
    query = query
    path = path
    NoVersion = NoVersion
    Latest = Latest
    NoParts = NoParts
    Dash = Dash
    Root = Root
    NoCatalog = NoCatalog
    NoSource = NoSource
    NoEntry = NoEntry
    Unavailable = Unavailable
    NoSpec = NoSpec
    NoName = NoName
    NoRequest = NoRequest
    NoTable = NoTable
    Catalogs <- MCCatalogs
    Profiles <- MCProfiles
    Urls <- MCUrls
    Dirs <- MCDirs
    Branches <- MCBranches
    Versions <- MCVersions
    Entries <- MCEntries
    Names <- MCNames
    Queries <- MCQueries
    Contains <- MCContains
    Parts <- MCParts
    Stores <- MCStores
    Directories <- MCDirectories
    Asks <- MCAsks
    DirectSources <- MCDirectSources
    ByHand <- MCByHand
    Gets <- MCGets
    MaxChanges = 2
    MaxJobs = 2
    MaxGets = 1
INVARIANTS TypeOK InstalledTableWasTrue CatalogTableWasTrue ErrorsHaveCause RecordedVersionResolves
PROPERTIES LatestMovesForward Terminates
CHECK_DEADLOCK FALSE
