CONSTANTS
    BlockSize = 4
    IntSize = 2
    MaxSymbol = 2
    BucketBytes = 1
    BLOCK_LEN = 7
    Inputs <- Wrapping
    Variants = {"cuda"}
SPECIFICATION MCSpec
INVARIANTS
    RotationsSorted
