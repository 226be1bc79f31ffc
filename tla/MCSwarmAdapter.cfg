SPECIFICATION SwarmFairSpec
CONSTANTS
    Peers = {p1, p2}
    Roots = {r1, r2}
    BlockRoots = {r1, r2}
    MAX_FETCH_RETRIES = 2
    Answers <- MCAnswers
    Faulty = {p1, p2}
    MaxCalls = 2
    MaxChurn = 1
INVARIANTS
    AnswerFindsRequest
PROPERTIES
    AwaitEnds
    ImplementsBlockFetch
CHECK_DEADLOCK FALSE
