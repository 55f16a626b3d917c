CONSTANTS
    MaxTurns = 2
    MaxChunks = 2
    MaxThoughts = 1
    Size = 2
    SizeMod = 64
    Faults = {"partial", "again"}
    MaxStalls = 2

SPECIFICATION FairSpec

INVARIANTS
    TypeOK
    SeriesOutlivesRun
    ContextLifetime
    StreamShape
    SavedInOrder
    Delivered
    FirstTurnSent

PROPERTIES
    SeriesEnds
