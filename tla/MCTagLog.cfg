SPECIFICATION Spec
CONSTANTS
    p1 = p1
    Pairs = {p1, p2, p3}
    First = p1
    Names = {1, 2, 3}
    Value = {v}
    Child = {c1, c2}
    Nil = Nil
    Gone = Gone
    Risks = {}
    MaxStart = 2
    MaxLog = 14
    MaxOps = 3
CHECK_DEADLOCK FALSE
SYMMETRY Symmetry
INVARIANTS TypeOK FindsNames FindsParent GetsLast ListsEach MoveKept
