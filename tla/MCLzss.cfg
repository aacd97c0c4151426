CONSTANTS
    OffsetBits = 3
    LengthBits = 1
    MaxUncoded = 2
    GroupSize = 3
    Symbols = {sp, zero}
    Space = sp
    Zero = zero
    MaxInput = 11
    Variants = {"serial", "list", "grouped", "opencl"}
SPECIFICATION MCSpec
INVARIANTS
    BuffersFollowInput
    ListsFollowWindow
    SearchesAgree
    DecodesAPrefix
    LosslessButTail
PROPERTY
    TurnsMakeProgress
