\* The master node: reconciliations among blocks that arrive out of order; the
\* synchronisation brings what the peers do not broadcast.
SPECIFICATION Spec
CONSTANTS
    NoBlock = NoBlock
    g = g
    a = a
    aa = aa
    aaa = aaa
    f = f
    o = o
    skip = skip
    Block = {g, a, aa, aaa, f}
    Foreign = {g, a, aa, aaa, f}
    Offered = {aa, aaa, f}
    Own = {}
    Root = g
    IsMaster = TRUE
    Starts = {"loaded", "joining"}
    Requests = 1
    MaxMissed = 1
    Prev <- MCPrev
    Index <- MCIndex
    Path <- MCPath
PROPERTY
    PendingIsPlaced
