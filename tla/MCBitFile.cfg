CONSTANTS
    ByteBits = 3
    Size = 3
    Counts = {1, 2, 4, 5}
    Data <- MCData
    Capacities = {2, 9}
    MaxPuts = 3
SPECIFICATION MCSpec
INVARIANTS
    BFTypeOK
    ReadsWhatWasPut
    AllIsRead
