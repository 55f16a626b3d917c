CONSTANTS
    Token = {"x", "y"}
    Bodies <- MCBodies

SPECIFICATION FairSpec

INVARIANTS
    TypeOK
    AnswerWhole
    ReasoningKept

PROPERTIES
    SeesLines
    CallEnds
