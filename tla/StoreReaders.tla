---------------------------- MODULE StoreReaders ----------------------------
(***************************************************************************)
(* The handlers that read the store from other tasks while the blockchain  *)
(* actor writes it: build_status in the P2P actor                          *)
(* (net/p2p/src/req_resp/handlers.rs), and the API server's finalized      *)
(* state and fork choice (net/rpc/src/lib.rs, fork_choice.rs).             *)
(*                                                                         *)
(* A Store method opens a read view of its own, so a handler is one step   *)
(* per read, and any commit of BlockImport may come between two of them.   *)
(* The handlers only read, so one of them at a time stands for any number. *)
(***************************************************************************)
EXTENDS BlockImport

VARIABLES
    handler,    \* which one is, or was, running
    reading,    \* the reads still to do; the first is the next
    root,       \* the root the running handler read last
    answer      \* what it answers: "none" yet, "ok", or "panic" after a failed expect

reader == <<handler, reading, root, answer>>

ReaderVars == <<vars, reader>>

\* The reads of a handler.  get_fork_choice reads the head twice, the second time in
\* Store::head_state.
Reads ==
    [build_status               |-> <<"finalized", "head", "header">>,
     get_latest_finalized_state |-> <<"finalized", "state">>,
     get_fork_choice            |-> <<"live", "justified", "finalized", "head", "head", "state">>]

ReaderInit ==
    /\ Init
    /\ handler \in DOMAIN Reads
    /\ reading = <<>>
    /\ root = ZERO
    /\ answer = "none"

StartReading ==
    /\ reading = <<>>
    /\ handler' \in DOMAIN Reads
    /\ reading' = Reads[handler']
    /\ answer' = "none"
    /\ root' = ZERO
    /\ UNCHANGED vars

\* A read of the metadata: always there.
ReadMetadata ==
    /\ reading # <<>>
    /\ Head(reading) \in {"live", "justified", "finalized", "head"}
    /\ root' = CASE Head(reading) = "head" -> head
                 [] Head(reading) = "finalized" -> finalized
                 [] Head(reading) = "justified" -> justified
                 [] Head(reading) = "live" -> root
    /\ reading' = Tail(reading)
    /\ UNCHANGED <<vars, handler, answer>>

rows(table) == IF table = "state" THEN states ELSE headers

\* get_block_header(..) or get_state(..), and expect(..).
ReadRow ==
    /\ reading # <<>>
    /\ Head(reading) \in {"header", "state"}
    /\ answer' = IF root \in rows(Head(reading)) THEN "ok" ELSE "panic"
    /\ reading' = <<>>
    /\ root' = ZERO
    /\ UNCHANGED <<vars, handler>>

Write ==
    /\ Step \/ Tick \/ \E b \in SignedBlocks : NewBlock(b)
    /\ UNCHANGED reader

\* The process dies with its handlers.
RestartReaders ==
    /\ Restart
    /\ reading' = <<>>
    /\ answer' = "none"
    /\ root' = ZERO
    /\ UNCHANGED handler

ReaderNext ==
    \/ Write
    \/ RestartReaders
    \/ StartReading
    \/ ReadMetadata
    \/ ReadRow

ReaderSpec == ReaderInit /\ [][ReaderNext]_ReaderVars

-----------------------------------------------------------------------------
(***************************************************************************)
(* Properties                                                              *)
(***************************************************************************)
\* `keep` stored blocks are at least as new as r.
buried(r, keep) == Cardinality({b \in headers \ {r} : SlotOf[b] >= SlotOf[r]}) >= keep

(***************************************************************************)
(* A root that a handler read leads to the rows it goes on to read,        *)
(* whatever the actor commits between the two reads and wherever it        *)
(* crashed before: every commit that publishes a root as head or           *)
(* checkpoint comes after that of its header, a checkpoint after that of   *)
(* its state, and only a block that fell out of the retention window is    *)
(* deleted.                                                                *)
(***************************************************************************)
RootsLeadToRows ==
    reading # <<>> /\ root # ZERO =>
        /\ root \in headers \/ buried(root, BLOCKS_TO_KEEP)
        /\ handler = "get_latest_finalized_state" =>
               root \in states \/ buried(root, STATES_TO_KEEP)

(***************************************************************************)
(* get_latest_finalized_state (net/rpc/src/lib.rs): "finalized state       *)
(* exists".                                                                *)
(***************************************************************************)
FinalizedStateExists == handler = "get_latest_finalized_state" => answer # "panic"
=============================================================================
