\* Three nodes on two branches; the last two blocks are asked for.
SPECIFICATION Spec
CONSTANTS
    NoBlock = NoBlock
    g = g
    a = a
    aa = aa
    b = b
    bb = bb
    Block = {g, a, aa, b, bb}
    Prev <- MCPrev
    Index <- MCIndex
    Path <- MCPath
    Node = {n1, n2, n3}
    Wanted = 2
    MaxMoves = 1
SYMMETRY Symmetry
INVARIANTS
    TypeOK
    MajorityLinks
    MajorityWins
    FullAnswer
\* One query is followed to its end.
CHECK_DEADLOCK FALSE
