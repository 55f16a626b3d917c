CONSTANTS
    MaxLLMCalls = 2
    Token = {"x"}
    Ids = {"a"}
    ToolNames = {"t"}
    Tools = {"t"}
    PromptText = {"x", "instruction", "today"}
    Prompts <- MCPrompts
    MaxDeltas = 2
    MaxIndex = 1
    SystemMessage = "instruction"
    Dates = {"today", "tomorrow"}

SPECIFICATION FairRequestSpec

INVARIANTS
    TypeOK
    EndsOnce
    Answered
    TurnAgrees
    SelfReference
    RequestSound

PROPERTIES
    RunCompletes
    ContractSpec
    RequestsExtend
