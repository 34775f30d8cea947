\* The work at the start of a slot runs into the next slot.
SPECIFICATION Spec
CONSTANTS
    Node = {1, 2}
    Reporter = {1, 2}
    Hash <- MCHash
    SlotLen = 2
    MaxSlotHistory = 3
    MaxSlot = 3
    MaxSkew = 1
    MaxAdjust = 0
    OnTime = FALSE
INVARIANT
    OneCreatorPerView
CHECK_DEADLOCK FALSE
