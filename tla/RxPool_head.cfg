CONSTANTS
    Depth = 5
    Thr = 2
    W = 5
    MaxBufs = 2
    Pages = {p1, p2, p3, p4}
    NoPage = NoPage
SPECIFICATION Spec
SYMMETRY PageSymmetry
PROPERTIES
    OpensAFrame
CHECK_DEADLOCK FALSE
