CONSTANTS
    MaxTurns = 2
    MaxChunks = 2
    MaxThoughts = 1
    Size = 2
    SizeMod = 64
    Faults = {}
    MaxStalls = 0

SPECIFICATION FairSpec

INVARIANTS
    TurnSent
