CONSTANTS
    BlockSize <- MCBlockSize
    CompLens <- MCCompLens
    NumBlocks = 3
    NumSlots = 2
    Behind <- MCBehind
    MaxSpills = 0
    Faults = FALSE
SPECIFICATION IntSpec
INVARIANTS
    FreedAfterConsumersLeft
CHECK_DEADLOCK FALSE
