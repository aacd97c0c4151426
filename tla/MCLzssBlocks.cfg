CONSTANTS
    BlockSize = 2
    MaxCoded = 1
    LocalSize = 2
    Base = 2
    MaxSize = 6
    MaxGrowth = 3
SPECIFICATION MCSpec
INVARIANTS
    TypeOK
    BlocksApart
    BlocksRestored
