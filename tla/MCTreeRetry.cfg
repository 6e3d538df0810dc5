SPECIFICATION Spec
CONSTANTS
    Blocks = {s0, s1, b1, b2, b3, b4}
    S0 = s0
    S1 = s1
    Name = {1, 2}
    File = {f}
    Ways = {"append", "retry"}
    Risks = {}
    MaxOps = 4
    MaxMoves = 0
    MaxDepth = 2
PROPERTY Atomic
SYMMETRY Symmetry
