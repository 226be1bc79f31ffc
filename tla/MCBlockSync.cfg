SPECIFICATION NodeFairSpec
CONSTANTS
    Blocks = {"g", "b1", "b2", "b3"}
    ZERO = "zero"
    ParentOf <- MCParentOf
    Ancestors <- MCAncestors
    SlotOf <- MCSlotOf
    Post <- MCPost
    Bad = {}
    Anchors = {"g"}
    STATES_TO_KEEP = 7
    BLOCKS_TO_KEEP = 7
    Crashes = TRUE
    Reanchor = FALSE
    Tips = {"b3"}
    MaxMail = 1
    MaxRestarts = 1
INVARIANTS
    RequestsAreSent
    NobodyForgets
PROPERTIES
    CatchesUp
