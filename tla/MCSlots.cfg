\* Two nodes that may or may not know each other, clocks that are corrected.
SPECIFICATION Spec
CONSTANTS
    Node = {1, 2}
    Reporter = {1, 2}
    Hash <- MCHash
    SlotLen = 2
    MaxSlotHistory = 2
    MaxSlot = 3
    MaxSkew = 1
    MaxAdjust = 1
    OnTime = TRUE
INVARIANTS
    TypeOK
    OneCreatorPerView
    OneBlockPerSlot
    ReportsAreKept
PROPERTY
    SlotsOnlyAdvance
CHECK_DEADLOCK FALSE
