\* Two savers, two branches, a foreign genesis and a block with a bad index.
SPECIFICATION Spec
CONSTANTS
    NoBlock = NoBlock
    g = g
    h = h
    a = a
    b = b
    aa = aa
    skip = skip
    Block = {g, h, a, b, aa, skip}
    Honest = {g, h, a, b, aa}
    Prev <- MCPrev
    Index <- MCIndex
    Path <- MCPath
    Saver = {s1, s2}
    MaxBlocks = 4
    MaxCopies = 2
SYMMETRY Symmetry
INVARIANTS
    TypeOK
    TreeRooted
    TipsAreHeads
    LatestIsMainHead
    MainHeadIsLongest
    GenesisIsPermanent
PROPERTY
    ImplementsDurableTree
