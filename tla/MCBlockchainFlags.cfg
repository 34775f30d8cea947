\* One saver is enough to leave the flags behind.
SPECIFICATION Spec
CONSTANTS
    NoBlock = NoBlock
    g = g
    h = h
    a = a
    b = b
    aa = aa
    skip = skip
    Block = {g, h, a, b, aa, skip}
    Honest = {g, h, a, b, aa}
    Prev <- MCPrev
    Index <- MCIndex
    Path <- MCPath
    Saver = {s1}
    MaxBlocks = 4
    MaxCopies = 2
PROPERTY
    FlagsMarkMainChain
