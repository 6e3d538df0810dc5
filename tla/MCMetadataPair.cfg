SPECIFICATION MCSpec
CONSTANTS
    Blocks = {b1, b2, b3}
    SuperBlocks = {}
    Value = {v1, v2}
    NoValue = NoValue
    RevMod = 8
    BlockCycles = 4
    LogMax = 2
    GarbageRev = {5}
    MaxBad = 1
    KeepHandle = FALSE
SYMMETRY Symmetry
INVARIANTS Durable OrderFree HandleFresh IInv
PROPERTY ImplementsCell
