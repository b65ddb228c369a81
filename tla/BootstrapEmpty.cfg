SPECIFICATION Spec
CONSTANTS
    b1 = b1
    b2 = b2
    b3 = b3
    a1 = a1
    a2 = a2
    a3 = a3
    fluxRepo = fluxRepo
    otherRepo = otherRepo
    out = out
    apps = apps
    NoRepo = NoRepo
    NoDir = NoDir
    NoFile = NoFile
    Garbage = Garbage
    Bootstraps <- MCBootstraps
    Adds <- MCAdds
    Repos <- MCRepos
    Dirs <- MCDirs
    Asked <- MCAsked
    Flags <- MCFlags
    DefaultOut = out
    MaxRemovals = 1
INVARIANT AddErrorsWithoutRepository
CHECK_DEADLOCK FALSE
