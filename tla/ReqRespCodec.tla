---------------------------- MODULE ReqRespCodec ----------------------------
(***************************************************************************)
(* One exchange of the req/resp protocols over a stream                    *)
(* (crates/net/p2p/src/req_resp/codec.rs and encoding.rs): the request is  *)
(* written and read, then the response, chunk by chunk, while the          *)
(* connection may break at any point.                                      *)
(*                                                                         *)
(* A stream is a sequence of items: single bytes (response codes and the   *)
(* varint of a size), and the snappy frames of one payload, whole or torn. *)
(* A message is its SSZ encoding: its type, its length, and the value that *)
(* tells it from others.  snap and the SSZ decoders are external: frames   *)
(* that are torn, or have other bytes among them, do not decode, and       *)
(* neither does the encoding of another type.                              *)
(***************************************************************************)
EXTENDS Naturals, Sequences, SequencesExt

CONSTANTS
    Requests,           \* the requests of the exchange
    ResponsesTo(_),     \* request -> the responses a peer may give:
                        \*   sequences of chunks [code, message]
    MAX_PAYLOAD_SIZE,
    Breaks              \* TRUE: the connection may break

VARIABLES
    request,            \* what the requester asks
    response,           \* the chunks the responder answers with
    outbox,             \* items still to be written
    wire,               \* items written and not read
    end,                \* of the stream: "open", "eof" or "reset"
    phase,              \* what the reader does next: "request", "code", "payload", "done"
    code,               \* result_byte of the chunk being read
    blocks,             \* the blocks decoded so far
    broken,             \* history: the connection broke
    received,           \* what read_request returned
    outcome             \* what read_response returned

exchange == <<request, response>>
stream == <<outbox, wire, end, broken>>
reader == <<phase, code, blocks, received, outcome>>

vars == <<exchange, stream, reader>>

SUCCESS == 0

None == [result |-> "none"]
Err == [result |-> "err"]
Ok(value) == [result |-> "ok", value |-> value]

Byte(n) == [item |-> "byte", byte |-> n]
Frames(message) == [item |-> "frames", message |-> message]
Torn == [item |-> "torn"]

IsByte(item) == item.item = "byte"

-----------------------------------------------------------------------------
(***************************************************************************)
(* encoding.rs                                                             *)
(***************************************************************************)
\* Groups of seven bits, the lowest first; the top bit says that more follow.
encode_varint(value) ==
    LET group[v \in Nat] == IF v < 128 THEN <<Byte(v)>>
                            ELSE <<Byte(128 + (v % 128))>> \o group[v \div 128]
    IN  group[value]

\* The first byte without a top bit ends the varint.
ends(buf) == {i \in DOMAIN buf : IsByte(buf[i]) /\ buf[i].byte < 128}

decode_varint(buf) ==
    IF ends(buf) = {} THEN Err
    ELSE LET read_size == CHOOSE i \in ends(buf) : \A j \in ends(buf) : i <= j
             value[i \in 0 .. read_size] ==
                 IF i = 0 THEN 0
                 ELSE value[i - 1] + (buf[i].byte % 128) * 128 ^ (i - 1)
         IN  Ok([size |-> value[read_size],
                 rest |-> SubSeq(buf, read_size + 1, Len(buf))])

\* External: FrameDecoder over all of `rest`.
uncompressed(rest) ==
    IF \A i \in DOMAIN rest : rest[i].item = "frames"
    THEN Ok([i \in DOMAIN rest |-> rest[i].message])
    ELSE Err

write_payload(message) == encode_varint(message.size) \o <<Frames(message)>>

too_short(buf) == Len(buf) = 0 \/ (Len(buf) = 1 /\ IsByte(buf[1]))

\* decode_payload, once the stream has ended and read_to_end has returned: all that
\* is left of the stream is taken for one payload.
decode_payload(buf, ended) ==
    IF ended = "reset" \/ too_short(buf) THEN Err
    ELSE LET prefix == decode_varint(buf)
         IN  IF prefix = Err \/ prefix.value.size > MAX_PAYLOAD_SIZE THEN Err
             ELSE LET data == uncompressed(prefix.value.rest)
                      length == FoldLeft(LAMBDA n, m : n + m.size, 0, data.value)
                  IN  IF data = Err THEN Err
                      ELSE IF length # prefix.value.size THEN Err
                      ELSE Ok(data.value)

\* External: from_ssz_bytes.
from_ssz_bytes(type, payload) ==
    IF Len(payload) = 1 /\ payload[1].type = type THEN Ok(payload[1]) ELSE Err

-----------------------------------------------------------------------------
(***************************************************************************)
(* codec.rs                                                                *)
(***************************************************************************)
\* write_response: every chunk is a code and a payload, and no blocks no chunk.
write_chunk(chunk) == <<Byte(chunk.code)>> \o write_payload(chunk.message)

write_response(chunks) ==
    FoldLeft(LAMBDA items, chunk : items \o write_chunk(chunk), <<>>, chunks)

Init ==
    /\ request \in Requests
    /\ response = <<>>
    /\ outbox = write_payload(request)
    /\ wire = <<>>
    /\ end = "open"
    /\ phase = "request"
    /\ code = SUCCESS
    /\ blocks = <<>>
    /\ broken = FALSE
    /\ received = None
    /\ outcome = None

\* write_all of one item, and the end of the stream after the last.
WriteItem ==
    /\ end = "open"
    /\ outbox # <<>>
    /\ wire' = Append(wire, Head(outbox))
    /\ outbox' = Tail(outbox)
    /\ UNCHANGED <<exchange, end, broken, reader>>

Close ==
    /\ end = "open"
    /\ outbox = <<>>
    /\ end' = "eof"
    /\ UNCHANGED <<exchange, outbox, wire, broken, reader>>

\* External: the connection breaks, with an error for the reader or without one, and
\* maybe in the middle of the frames.
Break ==
    /\ Breaks
    /\ end = "open"
    /\ outbox # <<>>
    /\ end' \in {"eof", "reset"}
    /\ wire' \in {wire} \cup (IF IsByte(Head(outbox)) THEN {} ELSE {Append(wire, Torn)})
    /\ outbox' = <<>>
    /\ broken' = TRUE
    /\ UNCHANGED <<exchange, reader>>

\* read_request; the responder then writes its answer.
ReadRequest ==
    LET payload == decode_payload(wire, end)
        decoded == IF payload = Err THEN Err ELSE from_ssz_bytes(request.type, payload.value)
    IN  /\ phase = "request"
        /\ end # "open"
        /\ received' = decoded
        /\ \/ /\ decoded = Err
              /\ outcome' = Err
              /\ phase' = "done"
              /\ UNCHANGED <<response, outbox, end>>
           \/ /\ decoded # Err
              /\ response' \in ResponsesTo(decoded.value)
              /\ outbox' = write_response(response')
              /\ end' = "open"
              /\ phase' = "code"
              /\ UNCHANGED outcome
        /\ wire' = <<>>
        /\ UNCHANGED <<request, broken, code, blocks>>

\* read_exact of the code of a chunk ...
ReadCode ==
    /\ phase = "code"
    /\ wire # <<>>
    /\ code' = Head(wire).byte
    /\ wire' = Tail(wire)
    /\ phase' = "payload"
    /\ UNCHANGED <<exchange, outbox, end, broken, blocks, received, outcome>>

\* ... which for blocks may also find the regular end of the stream.
ReadEnd ==
    /\ phase = "code"
    /\ wire = <<>>
    /\ end # "open"
    /\ outcome' = IF request.type = "Roots" /\ end = "eof" THEN Ok(blocks) ELSE Err
    /\ phase' = "done"
    /\ UNCHANGED <<exchange, stream, code, blocks, received>>

Finish(result) ==
    /\ outcome' = result
    /\ phase' = "done"
    /\ UNCHANGED blocks

\* The payload of a chunk, in decode_status_response ...
ReadStatus ==
    LET payload == decode_payload(wire, end)
    IN  /\ phase = "payload" /\ request.type = "Status"
        /\ end # "open"
        /\ Finish(IF payload = Err THEN Err
                  ELSE IF code # SUCCESS THEN from_ssz_bytes("Error", payload.value)
                  ELSE from_ssz_bytes("Status", payload.value))
        /\ wire' = <<>>
        /\ UNCHANGED <<exchange, outbox, end, broken, code, received>>

\* ... and in decode_blocks_by_root_response.
ReadBlock ==
    LET payload == decode_payload(wire, end)
        decoded == IF payload = Err THEN Err ELSE from_ssz_bytes("Block", payload.value)
    IN  /\ phase = "payload" /\ request.type = "Roots"
        /\ end # "open"
        /\ \/ /\ payload = Err \/ (code = SUCCESS /\ decoded = Err)
              /\ Finish(Err)
           \/ /\ payload # Err /\ code # SUCCESS
              /\ phase' = "code"
              /\ UNCHANGED <<blocks, outcome>>
           \/ /\ code = SUCCESS /\ decoded # Err
              /\ blocks' = Append(blocks, decoded.value)
              /\ phase' = "code"
              /\ UNCHANGED outcome
        /\ wire' = <<>>
        /\ UNCHANGED <<exchange, outbox, end, broken, code, received>>

Next ==
    \/ WriteItem
    \/ Close
    \/ Break
    \/ ReadRequest
    \/ ReadCode
    \/ ReadEnd
    \/ ReadStatus
    \/ ReadBlock

Spec == Init /\ [][Next]_vars

-----------------------------------------------------------------------------
(***************************************************************************)
(* Properties                                                              *)
(***************************************************************************)
\* What the response says, read without loss.
Meaning ==
    IF request.type = "Status" THEN response[1].message
    ELSE LET success == SelectSeq(response, LAMBDA chunk : chunk.code = SUCCESS)
         IN  [i \in DOMAIN success |-> success[i].message]

Fits(message) == message.size <= MAX_PAYLOAD_SIZE

AllFit == Fits(request) /\ \A i \in DOMAIN response : Fits(response[i].message)

(***************************************************************************)
(* Nothing is invented: wherever the connection breaks, the responder acts *)
(* on the request that was written or on none, and the requester gets      *)
(* chunks of the response that was written, from the first on, or none.    *)
(***************************************************************************)
NothingInvented ==
    /\ received \in {None, Err, Ok(request)}
    /\ outcome.result = "ok" =>
           IF request.type = "Status" THEN outcome.value = Meaning
                                      ELSE IsPrefix(outcome.value, Meaning)

(***************************************************************************)
(* What this node writes it can read: over an unbroken stream, a request,  *)
(* a Status and the answer to the one root that fetch_block_from_peer asks *)
(* for survive the round trip through varint, frames and SSZ, for every    *)
(* size up to MAX_PAYLOAD_SIZE (and no larger one).                        *)
(***************************************************************************)
RoundTrip ==
    phase = "done" /\ ~broken /\ Len(response) <= 1 =>
        IF AllFit THEN outcome = Ok(Meaning) ELSE outcome = Err

(***************************************************************************)
(* decode_blocks_by_root_response: "Reads chunks until EOF, collecting     *)
(* successfully decoded blocks.  Each chunk has its own response code".    *)
(***************************************************************************)
ReadsEveryChunk == phase = "done" /\ ~broken /\ AllFit => outcome = Ok(Meaning)
=============================================================================
