SPECIFICATION Spec
CONSTANTS
    Blocks = {s0, s1, b1, b2, b3, b4, b5}
    S0 = s0
    S1 = s1
    Name = {1, 2}
    File = {f}
    Ways = {"append", "compact", "worn", "bad", "fail"}
    Risks = {}
    MaxOps = 4
    MaxMoves = 1
    MaxDepth = 2
INVARIANTS TypeOK TakesEffect ListIsTree StateIsKept
PROPERTY Atomic
SYMMETRY Symmetry
