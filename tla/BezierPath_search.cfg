SPECIFICATION Spec
CONSTANTS
    N = 4
    W = 2
    Lengths = {0, 1, 2, 3, 4, 5}
    Distances = {0, 1, 2}
    NoDistance = NoDistance
INVARIANTS
    FindsClosest
    StaysInside
PROPERTIES
    NeverBack
    CurveIsBezier
CHECK_DEADLOCK FALSE
