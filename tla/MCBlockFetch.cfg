SPECIFICATION FairSpec
CONSTANTS
    Peers = {p1, p2}
    Roots = {r1, r2}
    BlockRoots = {r1, r2}
    MAX_FETCH_RETRIES = 3
    Servers = {p1}
    Served = {r1}
    Confused = {r2}
    Answers <- MCAnswers
    Faulty = {p2}
    MaxCalls = 2
    MaxChurn = 2
INVARIANTS
    OneOutstanding
PROPERTIES
    FetchEnds
    FetchDelivers
    ImplementsFetchService
CHECK_DEADLOCK FALSE
