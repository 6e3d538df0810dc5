SPECIFICATION FairSpec
CONSTANTS
    BlockCount = 5
    Lookahead = 3
    NoBlock = NoBlock
    NestedAck = FALSE
INVARIANTS NoDoubleUse NoEarlyNoSpace IInv
PROPERTY AllocReturns
