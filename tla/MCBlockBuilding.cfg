SPECIFICATION BuildSpec
CONSTANTS
    N = 4
    HISTORICAL_ROOTS_LIMIT = 6
    Root <- MCRoot
    ZERO = 0
    BlockRoot <- MCBlockRoot
    Blocks <- MCBlocks
    Attestations <- MCAttestations
    Data <- MCData
    KnownHeads <- MCKnownHeads
    ProofSets <- MCProofSets
    BuildSlot = 4
    BlockSlots = {1, 2, 3}
    ChainVoters = {{0, 1}, {2, 3}}
    ProofVoters = {{0}, {2, 3}, {1, 2}}
    Steps <- MCSteps
    MaxProofs = 3
INVARIANTS
    VotesCoveredWithinLimit
    NeverUnjustifies
PROPERTY
    BuildEnds
CHECK_DEADLOCK FALSE
