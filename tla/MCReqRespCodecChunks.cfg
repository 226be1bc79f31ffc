SPECIFICATION Spec
CONSTANTS
    Requests <- MCRequests
    ResponsesTo <- MCResponsesTo
    MAX_PAYLOAD_SIZE = 10485760
    Breaks = FALSE
    Roots = {"r1", "r2"}
    BlockSizes = {127, 128, 16384, 10485760, 10485761}
    MaxChunks = 2
INVARIANT
    ReadsEveryChunk
CHECK_DEADLOCK FALSE
