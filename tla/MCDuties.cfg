SPECIFICATION RestartSpec
CONSTANTS
    N = 2
    Ours <- MCOurs
    genesis_time = 3
    Starts <- MCStarts
    Delays <- MCDelays
    Late = 1000
    Views = {"a", "b"}
    MaxNow = 12200
    MaxRestarts = 1
INVARIANT NoIntervalKindSkipped
INVARIANT EverySlotSigned
INVARIANT SignsOnceUnlessRestarted
CHECK_DEADLOCK FALSE
