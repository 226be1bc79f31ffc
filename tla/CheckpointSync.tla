--------------------------- MODULE CheckpointSync ---------------------------
(***************************************************************************)
(* A node that starts from the finalized state of another one              *)
(* (bin/ethlambda/src/checkpoint_sync.rs, fetch_initial_state of main.rs,  *)
(* init_store of storage/src/store.rs).  The serving node runs the state   *)
(* transition of module StateTransition, keeps the post-state of every     *)
(* block and answers at /lean/v0/states/finalized.  The joining node       *)
(* downloads, verifies, writes its anchor and then imports the blocks that *)
(* follow.  Either node is idle between the steps of the other, so the     *)
(* serving node answers between blocks.                                    *)
(*                                                                         *)
(* Hashes.  The root of a state is the sequence holding just that state,   *)
(* <<>> the zero hash: equal roots are equal states.  A header hashes to   *)
(* the root of a block when it is the header of that block, state root     *)
(* included, and to NoBlock otherwise.                                     *)
(***************************************************************************)
EXTENDS StateTransition, Maps

CONSTANTS
    Keys,      \* public keys
    Networks,  \* configurations of serving nodes: [genesis_time, validators]
    Genesis,   \* the configuration of the joining node, one of them
    NoBlock    \* the hash of a header that is no block's

\* GenesisConfig::validators numbers the validators in the order of their keys.
ASSUME GenesisAssumption ==
    /\ Genesis \in Networks
    /\ Networks \subseteq [genesis_time : Nat, validators : Seq([index : Nat, pubkey : Keys])]
    /\ \A g \in Networks : /\ g.validators # <<>>
                           /\ \A i \in DOMAIN g.validators : g.validators[i].index = i - 1

ASSUME NoBlockAssumption == NoBlock \in Root /\ \A s \in Slots : BlockRoot[s] # NoBlock

VARIABLES
    network,         \* the configuration of the serving node
    rows,            \* its States table: slot -> post-state of the block there
    own_justified,   \* its KEY_LATEST_JUSTIFIED
    own_finalized,   \* its KEY_LATEST_FINALIZED
    node,            \* the joining node: "down", "running" or "exited"
    refused,         \* the slot of the state it has just refused, or -1
    states,          \* its States table: root -> state
    head,            \* its KEY_HEAD
    store_justified, \* its KEY_LATEST_JUSTIFIED
    store_finalized  \* its KEY_LATEST_FINALIZED

serving_vars == <<network, rows, own_justified, own_finalized>>
joining_vars == <<node, refused, states, head, store_justified, store_finalized>>
sync_vars == <<vars, serving_vars, joining_vars>>

zero_root == <<>>

\* The state of the transition as a value, its header with a zero state root.
CurrentState ==
    [config |-> network.genesis_time,
     validators |-> network.validators,
     slot |-> slot,
     latest_block_header |-> [slot |-> header_slot, state_root |-> zero_root],
     latest_justified |-> latest_justified,
     latest_finalized |-> latest_finalized,
     historical_block_hashes |-> historical_block_hashes,
     justified_slots |-> justified_slots,
     justifications |-> justifications]

with_state_root(state, root) == [state EXCEPT !.latest_block_header.state_root = root]

state_root_of(state) == <<with_state_root(state, zero_root)>>

header_root(header) ==
    IF header.slot \in DOMAIN rows /\ header = rows[header.slot].latest_block_header
    THEN BlockRoot[header.slot]
    ELSE NoBlock

\* "Cache the state root in the latest block header" (on_block, init_store).
stored(state) == with_state_root(state, state_root_of(state))

\* update_checkpoints as on_block calls it: only a higher slot replaces one.
later(checkpoint, candidate) ==
    IF candidate.slot > checkpoint.slot THEN candidate ELSE checkpoint

anchor_checkpoint(s) == [root |-> BlockRoot[s], slot |-> s]

SyncInit ==
    /\ Init
    /\ network \in Networks
    /\ rows = [s \in {0} |-> stored(CurrentState)]
    /\ own_justified = anchor_checkpoint(0)
    /\ own_finalized = anchor_checkpoint(0)
    /\ node = "down"
    /\ refused = -1
    /\ states = EmptyMap
    /\ head = ZERO
    /\ store_justified = [root |-> ZERO, slot |-> 0]
    /\ store_finalized = [root |-> ZERO, slot |-> 0]

-----------------------------------------------------------------------------
\* The serving node: on_block stores the post-state and raises its checkpoints.
ImportOwn ==
    /\ FinishBlock
    /\ rows' = Put(rows, slot, stored(CurrentState))
    /\ own_justified' = later(own_justified, latest_justified)
    /\ own_finalized' = later(own_finalized, latest_finalized)
    /\ UNCHANGED <<network, joining_vars>>

Transition ==
    /\ \/ \E block \in Blocks : ProcessBlock(block)
       \/ \E attestation \in Attestations :
              ProcessAttestation(attestation) \/ SkipOversizedAttestation(attestation)
    /\ UNCHANGED <<serving_vars, joining_vars>>

\* get_latest_finalized_state: the canonical form has a zero state root.
served_state == with_state_root(rows[own_finalized.slot], zero_root)

-----------------------------------------------------------------------------
validators_match(validators, expected) ==
    /\ Len(validators) = Len(expected)
    /\ \A i \in DOMAIN validators : validators[i].index = i - 1
    /\ \A i \in DOMAIN validators : validators[i].pubkey = expected[i].pubkey

header_agrees_before(header, checkpoint) ==
    header.slot >= checkpoint.slot => header_root(header) = checkpoint.root

\* A header at the slot of a checkpoint must hash to the checkpoint's root.
header_agrees(header, checkpoint) ==
    header.slot = checkpoint.slot => header_root(header) = checkpoint.root

verify_checkpoint_state(state, expected) ==
    /\ state.slot # 0
    /\ state.validators # <<>>
    /\ state.config = expected.genesis_time
    /\ validators_match(state.validators, expected.validators)
    /\ state.latest_finalized.slot <= state.slot
    /\ state.latest_justified.slot >= state.latest_finalized.slot
    /\ state.latest_justified.slot = state.latest_finalized.slot
           => state.latest_justified.root = state.latest_finalized.root
    /\ state.latest_block_header.slot <= state.slot
    /\ header_agrees(state.latest_block_header, state.latest_finalized)
    /\ header_agrees(state.latest_block_header, state.latest_justified)

\* fetch_checkpoint_state fails: the node logs the error and exits.
DownloadFails ==
    /\ node = "down"
    /\ node' = "exited"
    /\ UNCHANGED <<vars, serving_vars, refused, states, head, store_justified,
                   store_finalized>>

RefuseState ==
    /\ node = "down" /\ phase = "idle"
    /\ ~verify_checkpoint_state(served_state, Genesis)
    /\ node' = "exited"
    /\ refused' = served_state.slot
    /\ UNCHANGED <<vars, serving_vars, states, head, store_justified, store_finalized>>

(***************************************************************************)
(* init_store: the rows and the metadata of the anchor.  Both checkpoints  *)
(* become the anchor itself, whatever the state says.  The assertion on    *)
(* the state root is the first conjunct.                                   *)
(***************************************************************************)
init_store_as_served(state) ==
    LET anchor_block_root == header_root(state.latest_block_header)
        anchor == [root |-> anchor_block_root, slot |-> state.latest_block_header.slot]
    IN  /\ state.latest_block_header.state_root \in {zero_root, state_root_of(state)}
        /\ states' = Put(states, anchor_block_root, state)
        /\ head' = anchor_block_root
        /\ store_justified' = anchor
        /\ store_finalized' = anchor

init_store(state) ==
    LET anchor_state == stored(state)
        anchor_block_root == header_root(anchor_state.latest_block_header)
        anchor == [root |-> anchor_block_root, slot |-> state.latest_block_header.slot]
    IN  /\ state.latest_block_header.state_root \in {zero_root, state_root_of(state)}
        /\ states' = Put(states, anchor_block_root, anchor_state)
        /\ head' = anchor_block_root
        /\ store_justified' = anchor
        /\ store_finalized' = anchor

SyncFromCheckpoint ==
    /\ node = "down" /\ phase = "idle"
    /\ verify_checkpoint_state(served_state, Genesis)
    /\ init_store(served_state)
    /\ node' = "running"
    /\ refused' = -1
    /\ UNCHANGED <<vars, serving_vars>>

\* There is no automatic retry: the operator restarts the node.
RestartNode ==
    /\ node = "exited"
    /\ node' = "down"
    /\ refused' = -1
    /\ UNCHANGED <<vars, serving_vars, states, head, store_justified, store_finalized>>

(***************************************************************************)
(* The joining node imports the block at slot s, the child of its head:    *)
(* the same block on the same state has the post-state it has on the       *)
(* serving node.  It is the new head, as the only leaf.                    *)
(***************************************************************************)
parent_slot(s) == CHOOSE p \in DOMAIN rows :
    p < s /\ \A q \in DOMAIN rows : q < s => q <= p

ImportNext_replacing(s) ==
    /\ node = "running"
    /\ s \in DOMAIN rows \ {0}
    /\ head = BlockRoot[parent_slot(s)]
    /\ states[head] = rows[parent_slot(s)]
    /\ states' = Put(states, BlockRoot[s], rows[s])
    /\ head' = BlockRoot[s]
    /\ store_justified' = rows[s].latest_justified
    /\ store_finalized' = rows[s].latest_finalized
    /\ UNCHANGED <<vars, serving_vars, node, refused>>

ImportNext(s) ==
    /\ node = "running"
    /\ s \in DOMAIN rows \ {0}
    /\ head = BlockRoot[parent_slot(s)]
    /\ states[head] = rows[parent_slot(s)]
    /\ states' = Put(states, BlockRoot[s], rows[s])
    /\ head' = BlockRoot[s]
    /\ store_justified' = later(store_justified, rows[s].latest_justified)
    /\ store_finalized' = later(store_finalized, rows[s].latest_finalized)
    /\ UNCHANGED <<vars, serving_vars, node, refused>>

SyncNext ==
    \/ Transition
    \/ ImportOwn
    \/ DownloadFails
    \/ RefuseState
    \/ SyncFromCheckpoint
    \/ RestartNode
    \/ \E s \in Slots : ImportNext(s)

SyncSpec == SyncInit /\ [][SyncNext]_sync_vars

-----------------------------------------------------------------------------
(***************************************************************************)
(* verify_checkpoint_state refuses no finalized state of the node's own    *)
(* network, except the genesis state: whatever gaps, justifications and    *)
(* finalizations led to it, the checkpoints in it pass the comparisons.    *)
(* And a node never runs on the state of another network.                  *)
(***************************************************************************)
AcceptsOwnNetworkOnly ==
    /\ refused # -1 => refused = 0 \/ network # Genesis
    /\ node = "running" => network = Genesis

(***************************************************************************)
(* The anchor is stored under the root of the block the serving node       *)
(* finalized, although the state is served with a zero state root, and     *)
(* with every field as the serving node has it; so are the states the      *)
(* joining node computes from it, and every later block finds its parent.  *)
(***************************************************************************)
JoinsTheChain ==
    node = "running" =>
        /\ head \in DOMAIN states
        /\ \A r \in DOMAIN states :
               \E s \in DOMAIN rows \ {0} : BlockRoot[s] = r /\ states[r] = rows[s]

(***************************************************************************)
(* init_store takes the anchor for justified and finalized, although the   *)
(* anchor's own state does not say so.  Once the joining node has imported *)
(* what the serving node has, their checkpoints agree all the same.        *)
(***************************************************************************)
CheckpointsAgree ==
    node = "running" /\ phase = "idle" /\ head = BlockRoot[header_slot] =>
        /\ store_justified = own_justified
        /\ store_finalized = own_finalized
=============================================================================
