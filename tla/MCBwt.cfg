CONSTANTS
    BlockSize = 4
    IntSize = 2
    MaxSymbol = 2
    BucketBytes = 1
    BLOCK_LEN = 5
    Inputs <- UpTo5
    Variants = {"serial", "mtf", "opencl", "cuda"}
SPECIFICATION MCSpec
INVARIANTS
    TypeOK
    RotationsSorted
    Lossless
