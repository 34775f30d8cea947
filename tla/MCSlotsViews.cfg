\* The two nodes discover each other at different moments.
SPECIFICATION Spec
CONSTANTS
    Node = {1, 2}
    Reporter = {1, 2}
    Hash <- MCHash
    SlotLen = 2
    MaxSlotHistory = 3
    MaxSlot = 2
    MaxSkew = 1
    MaxAdjust = 0
    OnTime = TRUE
INVARIANT
    OneCreator
CHECK_DEADLOCK FALSE
