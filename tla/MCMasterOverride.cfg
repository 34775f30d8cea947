\* Two peers, four copies of the command, a channel that fills up.
SPECIFICATION Spec
CONSTANTS
    Peer = {p1, p2}
    ChanSize = 1
INVARIANTS
    TypeOK
    NoSendOnClosed
    VerdictHasWitness
PROPERTY
    SenderReturns
\* One override is followed to its end.
CHECK_DEADLOCK FALSE
