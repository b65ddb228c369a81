SPECIFICATION FairSpec
CONSTANTS
    home = home
    away = away
    manager = manager
    webhook = webhook
    r1 = r1
    r2 = r2
    NoVersion = NoVersion
    NoEvent = NoEvent
    ErrorEvent = ErrorEvent
    Clusters <- MCClusters
    Components <- MCComponents
    Versions <- MCVersions
    Requests <- MCRequests
    DefaultCluster = home
    MaxChanges = 3
    MaxRuns = 2
INVARIANTS TypeOK SuccessMeansReady CleanedUp
PROPERTY Terminates
CHECK_DEADLOCK FALSE
