SPECIFICATION Spec
CONSTANTS
    Roots = {0, 1, 2, 3}
    SlotOf <- MCSlotOf
    Bodies = {1, 2}
    Anchor = 0
    Readers = {"p2p"}
    BLOCKS_TO_KEEP = 2
    Base = 4
INVARIANT
    SignedBlockIsAtomic
PROPERTIES
    PruningIsComplete
    CommitEnds
