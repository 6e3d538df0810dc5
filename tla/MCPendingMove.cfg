SPECIFICATION Spec
CONSTANTS
    p1 = p1
    Pairs = {p1, p2, p3}
    First = p1
    Names = {1, 2, 3}
    Value = {v}
    Child = {c1, c2}
    Nil = Nil
    Gone = Gone
    Risks = {"read"}
    MaxStart = 2
    MaxLog = 14
    MaxOps = 2
CHECK_DEADLOCK FALSE
SYMMETRY Symmetry
INVARIANT GetsLast
