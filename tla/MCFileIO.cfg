SPECIFICATION MCSpec
CONSTANTS
    Blocks = {b1, b2, b3, b4, b5, b6}
    BlockSize = 6
    PointerSize = 1
    CacheSize = 3
    InlineMax = 2
    MaxSize = 15
    Reach = 27
    MaxOps = 4
    MaxFaults = 1
    WriteSizes = {2, 9}
    ReadSizes = {9}
    Positions = {0, 4, 12}
    TruncateSizes = {0, 8}
    FirstSizes = {2, 12}
    Filler = Filler
    NoBlock = NoBlock
    Inline = Inline
    Absent = Absent
    Closed = Closed
    Risks = {}
SYMMETRY Symmetry
INVARIANTS TypeOK OffIsPlace CommittedIsList Protected AssertionsHold
PROPERTY KeepsPromise
CHECK_DEADLOCK FALSE
