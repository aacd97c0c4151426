CONSTANTS
    NumBlocks = 3
    NumSlots = 2
    NumSegs = 2
SPECIFICATION MCSpec
INVARIANTS
    
    NothingLeftBehind
PROPERTY
    ImplementsSlotDevice
