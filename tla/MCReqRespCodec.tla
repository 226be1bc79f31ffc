--------------------------- MODULE MCReqRespCodec ---------------------------
(***************************************************************************)
(* Instances of ReqRespCodec for TLC: sizes around the boundaries of the   *)
(* varint and MAX_PAYLOAD_SIZE, up to two roots.                           *)
(***************************************************************************)
EXTENDS ReqRespCodec

CONSTANTS Roots, BlockSizes, MaxChunks

Status == [type |-> "Status", size |-> 80, value |-> <<>>]

AskFor(roots) == [type |-> "Roots", size |-> 4 + 32 * Len(roots), value |-> roots]

Error(size) == [type |-> "Error", size |-> size, value |-> <<>>]

Block(root, size) == [type |-> "Block", size |-> size, value |-> <<root>>]

MCRequests ==
    {Status} \cup {AskFor(roots) : roots \in SetToAllKPermutations(Roots) \ {<<>>}}

Failure == {[code |-> 3, message |-> Error(size)] : size \in {1, 256}}

ChunksFor(root) ==
    Failure \cup {[code |-> SUCCESS, message |-> Block(root, size)] : size \in BlockSizes}

MCResponsesTo(asked) ==
    IF asked.type = "Status"
    THEN {<<chunk>> : chunk \in Failure \cup {[code |-> SUCCESS, message |-> Status]}}
    ELSE {chunks \in BoundedSeq(UNION {ChunksFor(root) : root \in Roots}, MaxChunks) :
             /\ Len(chunks) <= Len(asked.value)
             /\ \A i \in DOMAIN chunks :
                    chunks[i].code = SUCCESS => chunks[i].message.value = <<asked.value[i]>>}
=============================================================================
