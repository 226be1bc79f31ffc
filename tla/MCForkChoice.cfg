CONSTANTS
    N = 4
    Ours = {3}
    is_aggregator = TRUE
    Genesis = "g"
    Blocks <- MCBlocks
    ParentOf <- MCParentOf
    Ancestors <- MCAncestors
    SlotOf <- MCSlotOf
    Rank <- MCRank
    Post <- MCPost
    Body <- MCBody
    ProposerVote <- MCProposerVote
    Votes <- MCVotes
    Aggregates <- MCAggregates
    INTERVALS_PER_SLOT = 5
    JUSTIFICATION_LOOKBACK_SLOTS = 3
    NEW_PAYLOAD_CAP = 4
    AGGREGATED_PAYLOAD_CAP = 8
    StartTime = 27
    MaxTime = 35
    MaxGossip = 3
SPECIFICATION Spec
CHECK_DEADLOCK FALSE
INVARIANTS
    VoteIsValid
    SignaturesHaveData
PROPERTIES
    HeadIsHeaviest
    SafeTargetHasSupermajority
    VotesNeverRegress
