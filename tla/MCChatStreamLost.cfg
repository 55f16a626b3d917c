CONSTANTS
    MaxTurns = 1
    MaxChunks = 1
    MaxThoughts = 1
    Size = 2
    SizeMod = 64
    Faults = {"lost"}
    MaxStalls = 1

SPECIFICATION FairSpec

PROPERTIES
    SeriesEnds
