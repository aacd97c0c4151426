CONSTANTS
    BlockSize <- MCBlockSize
    CompLens <- MCOverlong
    NumBlocks = 4
    NumSlots = 3
    Behind <- MCBehind
    MaxSpills = 1
    Faults = TRUE
SPECIFICATION MCSpec
INVARIANTS
    RingInv
    OneUser
    NoLostWakeup
    OutputInOrder
    HeaderDescribesFile
    NoUseAfterFree
PROPERTY
    ImplementsStream
