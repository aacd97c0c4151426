CONSTANTS
    BlockSize <- MCBlockSize
    CompLens <- MCCompLens
    NumBlocks = 3
    NumSlots = 2
    Faults = TRUE
SPECIFICATION MCFairSpec
INVARIANTS
    OneUser
    Lossless
    RestoredWhole
    NoUseAfterFree
PROPERTY
    DeliversEverything
