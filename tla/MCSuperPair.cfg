SPECIFICATION MCFairSpec
CONSTANTS
    Blocks = {s0, s1}
    SuperBlocks = {s0, s1}
    Value = {v1, v2}
    NoValue = NoValue
    RevMod = 8
    BlockCycles = 2
    LogMax = 2
    GarbageRev = {5}
    MaxBad = 1
    KeepHandle = FALSE
PROPERTIES ImplementsCell Returns
