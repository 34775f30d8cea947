\* A master override between the two halves of a block creation.
SPECIFICATION Spec
CONSTANTS
    NoBlock = NoBlock
    g = g
    a = a
    aa = aa
    aaa = aaa
    f = f
    o = o
    skip = skip
    Block = {g, a, aa, o, skip}
    Foreign = {g, a, aa, skip}
    Offered = {g, a, aa, skip}
    Own = {o}
    Root = g
    IsMaster = FALSE
    Starts = {"loaded"}
    Requests = 1
    MaxMissed = 3
    Prev <- MCPrev
    Index <- MCIndex
    Path <- MCPath
INVARIANT
    BlocksAreMainChain
