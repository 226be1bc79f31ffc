CONSTANTS
    Blocks = {"g", "b1", "b2", "b3", "c2", "c3"}
    ZERO = "zero"
    ParentOf <- MCParentOf
    Ancestors <- MCAncestors
    SlotOf <- MCSlotOf
    Post <- MCPost
    Bad = {"c2"}
    Anchors = {"g", "b1"}
    STATES_TO_KEEP = 3
    BLOCKS_TO_KEEP = 7
    Crashes = TRUE
    Reanchor = FALSE
SPECIFICATION ReaderSpec
INVARIANTS
    NoLostWakeup
    LineageIsAncestry
    NeverStranded
    RootsLeadToRows
