CONSTANTS
    MaxLive = 3
    Keys = {"k"}
    Scalars = {"x"}
    MaxVars = 2

SPECIFICATION WritesSpec

INVARIANTS
    OwnedOnce
    WatchersTrue
    WriteRead
