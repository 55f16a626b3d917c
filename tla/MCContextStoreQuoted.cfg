CONSTANTS
    r1 = r1
    r2 = r2
    none = none
    Requests = {r1, r2}
    NoRequest = none
    Keep = 4
    Modes = {"plain"}
    Prompts = {"plain", "quoted"}
    MaxClears = 0
    MaxFailures = 0

SPECIFICATION Spec

INVARIANTS
    RemembersAnswered
