SPECIFICATION Spec
CONSTANTS
    Pairs = {p1, p2, p3}
    Name = {1, 2, 3, 4}
    Folder = {2}
    Null = null
    MaxHandles = 2
    MaxPos = 6
    Risks = {}
SYMMETRY Symmetry
INVARIANT TypeOK FollowsFile DetachedOnlyIfGone MdirFresh ReadsEachOnce
