CONSTANTS
    Blocks = {"g", "b1", "b2", "b3"}
    ZERO = "zero"
    ParentOf <- MCParentOf
    Ancestors <- MCAncestors
    SlotOf <- MCSlotOf
    Post <- MCPost
    Bad = {}
    Anchors = {"g"}
    STATES_TO_KEEP = 7
    BLOCKS_TO_KEEP = 7
    Crashes = TRUE
    Reanchor = FALSE
SPECIFICATION ReaderSpec
INVARIANTS
    HeadStateAvailable
