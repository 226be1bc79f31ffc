---------------------------- MODULE BlockImport -----------------------------
(***************************************************************************)
(* Block import by the blockchain actor (crates/blockchain/src/lib.rs,     *)
(* on_block and below) over the tables of the store                        *)
(* (crates/storage/src/store.rs): pending blocks, the search for the       *)
(* missing ancestor, the cascade that imports what was waiting, pruning,   *)
(* and a restart of the process at any point.                              *)
(*                                                                         *)
(* The actor handles one NewBlock at a time, but every database commit can *)
(* be the last one before a crash, so on_block is a sequence of steps that *)
(* `pc` orders: one per iteration of its loops and one per commit.         *)
(*                                                                         *)
(* A block is its root.  What the state transition makes of it is a        *)
(* function of the block: rejected (Bad), or a post state with the given   *)
(* checkpoints.  The head is any leaf LMD-GHOST can choose for some votes. *)
(***************************************************************************)
EXTENDS Naturals, FiniteSets, Sequences, Maps

CONSTANTS
    Blocks,          \* roots of the blocks there are
    ZERO,            \* H256::ZERO, the parent of the genesis block
    ParentOf,        \* block -> parent_root
    Ancestors,       \* block -> the roots before it
    SlotOf,          \* block -> slot
    Post,            \* block -> checkpoints of its post state: [justified, finalized]
    Bad,             \* blocks with a bad signature or a failing transition
    Anchors,         \* the blocks a process may start from
    STATES_TO_KEEP,
    BLOCKS_TO_KEEP,
    Crashes,         \* TRUE: the process may be killed and restarted
    Reanchor         \* TRUE: and restart from another anchor

Roots == Blocks \cup {ZERO}

\* The genesis block carries no signature: no peer sends it.
SignedBlocks == {b \in Blocks : ParentOf[b] # ZERO}

\* Blocks name their parent by hash, so ancestry is a strict order; a block comes
\* after its parent and what is before that.
ASSUME AncestryAssumption ==
    /\ ZERO \notin Blocks
    /\ ParentOf \in [Blocks -> Roots]
    /\ Ancestors \in [Blocks -> SUBSET Roots]
    /\ \A b \in Blocks : /\ ParentOf[b] \in Ancestors[b]
                         /\ b \notin Ancestors[b]
                         /\ \A a \in Ancestors[b] \cap Blocks : Ancestors[a] \subseteq Ancestors[b]
                         /\ \A a \in Ancestors[b] :
                                \/ a = ParentOf[b]
                                \/ ParentOf[b] \in Blocks /\ a \in Ancestors[ParentOf[b]]

\* The checkpoints of a post state are on its chain (module StateTransition), and the
\* slots of a chain that passed the transition increase.
ASSUME BlocksAssumption ==
    /\ IsFiniteSet(Blocks)
    /\ SlotOf \in [Blocks -> Nat]
    /\ Bad \subseteq Blocks
    /\ Anchors \subseteq Blocks
    /\ \A b \in Anchors : \A a \in Ancestors[b] \cap Blocks : SlotOf[a] < SlotOf[b]
    /\ Post \in [Blocks -> [justified : Blocks, finalized : Blocks]]
    /\ \A b \in SignedBlocks :
           /\ {Post[b].justified, Post[b].finalized} \subseteq Ancestors[b]
           /\ SlotOf[Post[b].finalized] <= SlotOf[Post[b].justified]

ASSUME RetentionAssumption == STATES_TO_KEEP \in Nat /\ BLOCKS_TO_KEEP \in Nat

VARIABLES
    anchor,                         \* what the process started from
    headers, signed, states, live,  \* rows of BlockHeaders, BlockSignatures, States, LiveChain
    head, justified, finalized,     \* rows of Metadata
    pending_blocks,                 \* parent root -> the pending blocks on it ({}: no entry)
    pending_block_parents,          \* pending block -> its cached missing ancestor
    pc,                             \* the next step of on_block, or "stopped" after a panic
    queue,                          \* its work queue
    block, missing_root,            \* local variables of process_or_pend_block
    requested,                      \* roots asked from the network since the start
    rejected                        \* history: blocks that failed since the start

tables == <<headers, signed, states, live>>
metadata == <<head, justified, finalized>>
pending == <<pending_blocks, pending_block_parents>>
locals == <<block, missing_root>>
history == <<requested, rejected>>

vars == <<anchor, tables, metadata, pending, pc, queue, locals, history>>

\* init_store: it writes the anchor's rows, whatever the tables already hold.
init_store(root) ==
    /\ anchor' = root
    /\ headers' = headers \cup {root}
    /\ states' = states \cup {root}
    /\ live' = live \cup {root}
    /\ head' = root
    /\ justified' = root
    /\ finalized' = root
    /\ UNCHANGED signed

Init ==
    /\ anchor \in Anchors
    /\ headers = {anchor}
    /\ states = {anchor}
    /\ live = {anchor}
    /\ head = anchor
    /\ justified = anchor
    /\ finalized = anchor
    /\ signed = {}
    /\ pending_blocks = [r \in Roots |-> {}]
    /\ pending_block_parents = EmptyMap
    /\ pc = "idle"
    /\ queue = <<>>
    /\ block = ZERO
    /\ missing_root = ZERO
    /\ requested = {}
    /\ rejected = {}

has_state(root) == root \in states

\* The roots of a HashSet in any order.
orders(S) ==
    {s \in [1 .. Cardinality(S) -> S] : {s[i] : i \in DOMAIN s} = S}

(***************************************************************************)
(* Fork choice.  Without votes fixed, compute_lmd_ghost_head may end at    *)
(* any block of the LiveChain that it reaches from the justified one and   *)
(* that has no child there.                                                *)
(***************************************************************************)
ghost_heads(chain, start) ==
    IF start \notin chain THEN {start}
    ELSE {b \in chain :
            /\ b = start \/ start \in Ancestors[b]
            /\ {a \in Ancestors[b] \cap Blocks : start \in Ancestors[a]} \subseteq chain
            /\ \A c \in chain : ParentOf[c] # b}

update_head == head' \in ghost_heads(live, justified)

(***************************************************************************)
(* on_tick.  It begins with head_state, whose expect panics if the head    *)
(* has no state, and a panic ends the actor: no tick and no message is     *)
(* handled until the process is started again.  Otherwise votes that were  *)
(* promoted may move the head between two blocks.  (The duties at the end  *)
(* of a tick read the state of the new head, so that a tick may also move  *)
(* the head and then panic: two steps here.)                               *)
(***************************************************************************)
Tick ==
    /\ pc = "idle"
    /\ IF has_state(head)
       THEN update_head /\ UNCHANGED pc
       ELSE pc' = "stopped" /\ UNCHANGED head
    /\ UNCHANGED <<anchor, tables, justified, finalized, pending, queue, locals, history>>

\* Handler<NewBlock>: on_block starts with a queue of one.
NewBlock(b) ==
    /\ pc = "idle"
    /\ pc' = "loop"
    /\ queue' = <<b>>
    /\ UNCHANGED <<anchor, tables, metadata, pending, locals, history>>

\* on_block takes the next block; process_or_pend_block asks for its parent's state.
NextInQueue ==
    /\ pc = "loop"
    /\ queue # <<>>
    /\ block' = Head(queue)
    /\ queue' = Tail(queue)
    /\ IF has_state(ParentOf[Head(queue)])
       THEN pc' = "import" /\ UNCHANGED missing_root
       ELSE pc' = "lineage" /\ missing_root' = ParentOf[Head(queue)]
    /\ UNCHANGED <<anchor, tables, metadata, pending, history>>

\* One step of the walk over cached ancestors.
WalkLineage ==
    /\ pc = "lineage"
    /\ missing_root \in DOMAIN pending_block_parents
    /\ missing_root' = pending_block_parents[missing_root]
    /\ UNCHANGED <<anchor, tables, metadata, pending, pc, queue, block, history>>

\* write_signed_block: the header, body and signature rows, in one batch.
write_signed_block(b) ==
    /\ headers' = headers \cup {b}
    /\ signed' = signed \cup {b}

\* insert_pending_block: the block's rows, without an entry in LiveChain.
insert_pending_block(b) ==
    /\ write_signed_block(b)
    /\ UNCHANGED <<states, live>>

\* The walk is over: the block becomes pending.
PendBlock ==
    /\ pc = "lineage"
    /\ missing_root \notin DOMAIN pending_block_parents
    /\ pending_block_parents' = Put(pending_block_parents, block, missing_root)
    /\ insert_pending_block(block)
    /\ pending_blocks' = [pending_blocks EXCEPT ![ParentOf[block]] = @ \cup {block}]
    /\ pc' = "db"
    /\ UNCHANGED <<anchor, metadata, queue, locals, history>>

WalkHeaders_unregistered ==
    /\ pc = "db"
    /\ missing_root \in headers
    /\ ~has_state(ParentOf[missing_root])
    /\ missing_root' = ParentOf[missing_root]
    /\ UNCHANGED <<anchor, tables, metadata, pending, pc, queue, block, history>>

\* One step of the walk through the stored headers: a stored block that cannot be
\* imported is registered as pending on its parent.
WalkHeaders ==
    /\ pc = "db"
    /\ missing_root \in headers
    /\ ~has_state(ParentOf[missing_root])
    /\ pending_blocks' = [pending_blocks EXCEPT ![ParentOf[missing_root]] = @ \cup {missing_root}]
    /\ pending_block_parents' = Put(pending_block_parents, missing_root, ParentOf[missing_root])
    /\ missing_root' = ParentOf[missing_root]
    /\ UNCHANGED <<anchor, tables, metadata, pc, queue, block, history>>

\* ... and one that can be is enqueued.  get_signed_block(..).expect(..) needs its
\* signature row.
EnqueueStored ==
    /\ pc = "db"
    /\ missing_root \in headers
    /\ has_state(ParentOf[missing_root])
    /\ missing_root \in signed
    /\ queue' = Append(queue, missing_root)
    /\ pc' = "loop"
    /\ UNCHANGED <<anchor, tables, metadata, pending, locals, history>>

\* request_missing_block.
RequestMissing ==
    /\ pc = "db"
    /\ missing_root \notin headers
    /\ requested' = requested \cup {missing_root}
    /\ pc' = "loop"
    /\ UNCHANGED <<anchor, tables, metadata, pending, queue, locals, rejected>>

collect_pending_children_unlinked(parent_root) ==
    /\ pending_blocks' = [pending_blocks EXCEPT ![parent_root] = {}]
    /\ \E order \in orders(pending_blocks[parent_root] \cap signed) : queue' = queue \o order
    /\ UNCHANGED pending_block_parents

\* collect_pending_children: a child whose rows are gone is skipped.
collect_pending_children(parent_root) ==
    LET child_roots == pending_blocks[parent_root]
    IN  /\ pending_blocks' = [pending_blocks EXCEPT ![parent_root] = {}]
        /\ pending_block_parents' = [b \in DOMAIN pending_block_parents \ child_roots |->
                                        pending_block_parents[b]]
        /\ \E order \in orders(child_roots \cap signed) : queue' = queue \o order

\* on_block_core on a block that has a state already: Ok.
ImportDuplicate ==
    /\ pc = "import"
    /\ has_state(block)
    /\ collect_pending_children(block)
    /\ pc' = "loop"
    /\ UNCHANGED <<anchor, tables, metadata, locals, history>>

\* verify_signatures or state_transition fails: a warning, and nothing else.
RejectBlock ==
    /\ pc = "import"
    /\ ~has_state(block)
    /\ block \in Bad
    /\ rejected' = rejected \cup {block}
    /\ pc' = "loop"
    /\ UNCHANGED <<anchor, tables, metadata, pending, queue, locals, requested>>

\* The first commit of an import: update_checkpoints, if a checkpoint advances ...
later(checkpoint, than) == IF SlotOf[checkpoint] > SlotOf[than] THEN checkpoint ELSE than

AdvanceCheckpoints_with_head ==
    /\ pc = "import"
    /\ ~has_state(block)
    /\ block \notin Bad
    /\ justified' = later(Post[block].justified, justified)
    /\ finalized' = later(Post[block].finalized, finalized)
    /\ head' = block
    /\ pc' = IF finalized' = finalized THEN "insert" ELSE "prune"
    /\ UNCHANGED <<anchor, tables, pending, queue, locals, history>>

AdvanceCheckpoints ==
    /\ pc = "import"
    /\ ~has_state(block)
    /\ block \notin Bad
    /\ justified' = later(Post[block].justified, justified)
    /\ finalized' = later(Post[block].finalized, finalized)
    /\ pc' = IF finalized' = finalized THEN "insert" ELSE "prune"
    /\ UNCHANGED <<anchor, tables, head, pending, queue, locals, history>>

\* ... prune_live_chain, if finalization advanced ...
PruneLiveChain ==
    /\ pc = "prune"
    /\ live' = {b \in live : SlotOf[b] >= SlotOf[finalized]}
    /\ pc' = "insert"
    /\ UNCHANGED <<anchor, headers, signed, states, metadata, pending, queue, locals, history>>

\* ... insert_signed_block ...
InsertSignedBlock ==
    /\ pc = "insert"
    /\ write_signed_block(block)
    /\ live' = live \cup {block}
    /\ pc' = "state"
    /\ UNCHANGED <<anchor, states, metadata, pending, queue, locals, history>>

\* ... insert_state ...
InsertState ==
    /\ pc = "state"
    /\ states' = states \cup {block}
    /\ pc' = "head"
    /\ UNCHANGED <<anchor, headers, signed, live, metadata, pending, queue, locals, history>>

FinishImport_unwoken ==
    /\ pc = "head"
    /\ update_head
    /\ pc' = "loop"
    /\ UNCHANGED <<anchor, tables, justified, finalized, pending, queue, locals, history>>

\* ... and the new head; then process_or_pend_block wakes the children up.
FinishImport ==
    /\ pc = "head"
    /\ update_head
    /\ collect_pending_children(block)
    /\ pc' = "loop"
    /\ UNCHANGED <<anchor, tables, justified, finalized, locals, history>>

\* The newest `keep` headers by slot; equal slots in any order (sort_unstable).
newest(keep) ==
    IF Cardinality(headers) <= keep THEN {headers}
    ELSE {K \in SUBSET headers : /\ Cardinality(K) = keep
                                 /\ \A b \in K, c \in headers \ K : SlotOf[b] >= SlotOf[c]}

\* prune_old_data, when the queue is empty: the states, then the blocks.  Only the
\* finalized and the justified block are protected.
protected == {finalized, justified}

PruneOldStates ==
    /\ pc = "loop"
    /\ queue = <<>>
    /\ \E kept \in newest(STATES_TO_KEEP) : states' = states \ ((headers \ kept) \ protected)
    /\ pc' = "blocks"
    /\ UNCHANGED <<anchor, headers, signed, live, metadata, pending, queue, locals, history>>

PruneOldBlocks ==
    /\ pc = "blocks"
    /\ \E kept \in newest(BLOCKS_TO_KEEP) :
           /\ headers' = kept \cup (headers \cap protected)
           /\ signed' = signed \cap headers'
    /\ pc' = "idle"
    /\ UNCHANGED <<anchor, states, live, metadata, pending, queue, locals, history>>

\* The process dies and starts again on the same database, from genesis or from a
\* checkpoint; everything the actor kept in memory is gone.
Restart ==
    /\ Crashes
    /\ \E root \in Anchors : (Reanchor \/ root = anchor) /\ init_store(root)
    /\ pending_blocks' = [r \in Roots |-> {}]
    /\ pending_block_parents' = EmptyMap
    /\ pc' = "idle"
    /\ queue' = <<>>
    /\ block' = ZERO
    /\ missing_root' = ZERO
    /\ requested' = {}
    /\ rejected' = {}

Step ==
    \/ NextInQueue
    \/ WalkLineage
    \/ PendBlock
    \/ WalkHeaders
    \/ EnqueueStored
    \/ RequestMissing
    \/ ImportDuplicate
    \/ RejectBlock
    \/ AdvanceCheckpoints
    \/ PruneLiveChain
    \/ InsertSignedBlock
    \/ InsertState
    \/ FinishImport
    \/ PruneOldStates
    \/ PruneOldBlocks

Next ==
    \/ \E b \in SignedBlocks : NewBlock(b)
    \/ Step
    \/ Tick
    \/ Restart

Spec == Init /\ [][Next]_vars

-----------------------------------------------------------------------------
(***************************************************************************)
(* Properties                                                              *)
(***************************************************************************)
TypeOK ==
    /\ anchor \in Anchors
    /\ headers \subseteq Blocks
    /\ signed \subseteq headers
    /\ states \subseteq Blocks
    /\ live \subseteq Blocks
    /\ head \in Blocks /\ justified \in Blocks /\ finalized \in Blocks
    /\ pending_blocks \in [Roots -> SUBSET Blocks]
    /\ DOMAIN pending_block_parents \subseteq Blocks
    /\ \A b \in DOMAIN pending_block_parents : pending_block_parents[b] \in Roots
    /\ pc \in {"idle", "stopped", "blocks", "loop", "lineage", "db", "import", "prune", "insert",
                "state", "head"}
    /\ queue \in Seq(Blocks)
    /\ block \in Roots /\ missing_root \in Roots
    /\ (pc \in {"idle", "stopped", "blocks", "loop"} \/ block \in Blocks)
    /\ requested \subseteq Roots /\ rejected \subseteq Blocks

(***************************************************************************)
(* No read of the fork choice finds a hole, at any commit a crash may      *)
(* follow: every block with a state, every entry of the LiveChain and      *)
(* every root of the metadata has its header, so the expects "head block   *)
(* exists" and its like cannot fail.  (As long as there are no more blocks *)
(* than BLOCKS_TO_KEEP.)                                                   *)
(***************************************************************************)
RowsHaveHeaders == states \cup live \cup {head, justified, finalized} \subseteq headers

(***************************************************************************)
(* No lost wake-up.  A block waits only on a parent that has no state: in  *)
(* whatever order blocks arrive, are found in the database of an earlier   *)
(* process or are imported, the import of a parent finds every child that  *)
(* was registered on it.  The one exception is the parent whose import is  *)
(* about to wake its children.                                             *)
(***************************************************************************)
NoLostWakeup ==
    \A r \in Roots :
        pending_blocks[r] # {} /\ has_state(r) => pc = "head" /\ block = r

(***************************************************************************)
(* The cached missing ancestor of a block is an ancestor of it, even after *)
(* it became stale, and a block with a cached ancestor is registered on    *)
(* its parent.  Hence the walks of process_or_pend_block go up the chain   *)
(* and end, and no wake-up misses a block that others wait for.            *)
(***************************************************************************)
registered(b) == b \in Blocks /\ b \in pending_blocks[ParentOf[b]]

LineageIsAncestry ==
    /\ \A b \in DOMAIN pending_block_parents :
           pending_block_parents[b] \in Ancestors[b] /\ registered(b)
    /\ pc \in {"lineage", "db"} => missing_root \in Ancestors[block]
    /\ \A r \in Roots : \A b \in pending_blocks[r] :
           ParentOf[b] = r /\ b \in DOMAIN pending_block_parents

(***************************************************************************)
(* No block waits for something nobody is going to bring.  Between two     *)
(* blocks, whatever a pending block waits for is itself pending, was       *)
(* requested and has not arrived, or failed.  (As long as prune_old_blocks *)
(* has not deleted a pending block.)                                       *)
(***************************************************************************)
NeverStranded ==
    pc = "idle" =>
        \A r \in Roots :
            pending_blocks[r] # {} => \/ registered(r)
                                     \/ r \in requested \ headers
                                     \/ r \in rejected

(***************************************************************************)
(* expect("header and parent state exist, so the full signed block must    *)
(* too"): the walk through the headers never reaches an anchor, which has  *)
(* no signature row, with the state of its parent present.                 *)
(***************************************************************************)
StoredBlockIsSigned ==
    pc = "db" /\ missing_root \in headers /\ has_state(ParentOf[missing_root])
        => missing_root \in signed

(***************************************************************************)
(* Store::head_state (storage/src/store.rs): "head state is always         *)
(* available".  The actor reads it at every tick, that is when it is idle. *)
(***************************************************************************)
HeadStateAvailable == pc = "idle" => has_state(head)
=============================================================================
