SPECIFICATION Spec
CONSTANTS
    Names = {"a", "b"}
    RootDirs = {"r", "s"}
    Outside = {"o"}
    Mounts = {"s"}
    TestDir = "r"
    FirstDirs <- MCFirstDirs
    Mode <- MCMode
    DLIM = 3
    ReadMax = 2
    MaxQueue = 4
    abortOnCacheProblem = {TRUE, FALSE}
    MaxOps = 2
INVARIANTS
    TypeOK
    CacheMatchesWatches
    TracksChanges
PROPERTY
    Drains
CHECK_DEADLOCK FALSE
