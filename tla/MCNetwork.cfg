\* One peer whose link is dialed up to three times, two attempts each.
SPECIFICATION Spec
CONSTANTS
    Peer = {p1}
    MaxRetries = 2
    MaxLives = 3
    Inbound = {c1, c2}
INVARIANTS
    TypeOK
    OneCaretaker
    StoredIsWatched
    NoneLeaks
    CaredForOrGivenUp
    AtMostOneLate
PROPERTIES
    BrokenIsRemoved
    StopIsFinal
    BroadcastReturns
\* Bounded lives, and a node that has stopped.
CHECK_DEADLOCK FALSE
