SPECIFICATION SyncSpec
CONSTANTS
    N = 3
    HISTORICAL_ROOTS_LIMIT = 10
    Root <- MCRoot
    ZERO = 0
    BlockRoot <- MCBlockRoot
    NoBlock <- NotABlock
    Blocks <- MCBlocks
    before <- MCbefore
    Attestations <- MCAttestations
    Networks <- MCNetworks
    Keys = {"a", "b", "c", "d"}
    Genesis <- MCGenesis
    BlockSlots = {1, 2, 6, 9, 10, 12}
    VoteSlots = {0, 1, 2, 6, 9}
    SplitSlots = {1, 6}
INVARIANTS
    WindowCoversChain
    CheckpointsOnChain
    TallyIsExact
    JustifiedBySupermajority
    VotesSurviveBlocks
    AcceptsOwnNetworkOnly
    JoinsTheChain
    CheckpointsAgree
PROPERTIES
    ImplementsFinality
CHECK_DEADLOCK FALSE
