CONSTANTS
    r1 = r1
    r2 = r2
    r3 = r3
    none = none
    Requests = {r1, r2, r3}
    NoRequest = none
    Keep = 2
    Modes = {"stream", "plain"}
    Prompts = {"plain"}
    MaxClears = 1
    MaxFailures = 1

SPECIFICATION Spec

SYMMETRY Symmetry

INVARIANTS
    ListIsRecent
    PairsInOrder
    RemembersPlain
