CONSTANTS
    Texts <- MCTexts
    DepthLimit = 2
    Spaces = {0, 1}
    ByteValues = {0, 3, 16, 63, 64, 170, 255}
    MaxBytes = 4
    Numbers <- MCNumbers
    ExpressionDepth = 2

SPECIFICATION MCSpec

INVARIANTS
    ReadBack
    FitsBuffer
    OneLine
    Base64Inverse
    Calculates

CHECK_DEADLOCK FALSE
