SPECIFICATION Spec
CONSTANTS
    Blocks = {b1, b2, b3}
    BlockSize = 4
    CacheSize = 2
    ReadSize = 1
    ProgSize = 2
    Value = {v}
    Erased = Erased
    Spoilt = Spoilt
    NoBlock = NoBlock
    None = None
    Hints = {4}
    MaxErases = 3
    MaxFaults = 1
CHECK_DEADLOCK FALSE
SYMMETRY Symmetry
INVARIANTS ReadsLast WrittenHolds AssertionsHold IInv
