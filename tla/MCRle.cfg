CONSTANTS
    MaxN = 4
    Symbols = {1, 2}
    LocalSize = 2
    Threads = 3
    Rounds = 2
    Impls = {"cuda", "opencl", "serial", "mask"}
SPECIFICATION MCSpec
INVARIANTS
    TypeOK
    LosslessIfFits
    AcceptedIsLossless
