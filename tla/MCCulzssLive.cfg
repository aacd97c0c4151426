CONSTANTS
    BlockSize <- MCBlockSize
    CompLens <- MCCompLens
    NumBlocks = 3
    NumSlots = 2
    Behind <- MCBehind
    MaxSpills = 0
    Faults = TRUE
SPECIFICATION MCFairSpec
INVARIANTS
    TypeOK
    IInv
PROPERTY
    EndsUnlessStuck
