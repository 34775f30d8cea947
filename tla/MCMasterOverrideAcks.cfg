\* Two peers: does "all" stand for as many nodes as were expected?
SPECIFICATION Spec
CONSTANTS
    Peer = {p1, p2}
    ChanSize = 10
SYMMETRY Symmetry
INVARIANT
    AllMeansAll
CHECK_DEADLOCK FALSE
