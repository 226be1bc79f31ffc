--------------------------- MODULE StateTransition --------------------------
(***************************************************************************)
(* The 3SF-mini state transition of one chain                              *)
(* (crates/blockchain/state_transition/src/lib.rs): the consensus `State`  *)
(* that blocks build on one another, with its justification and            *)
(* finalization bookkeeping.                                               *)
(*                                                                         *)
(* A block is processed in steps.  ProcessBlock is process_slots followed  *)
(* by process_block_header and the part of process_attestations before its *)
(* loop; each iteration of the loop is one ProcessAttestation; FinishBlock *)
(* is what follows the loop.  The state belongs to one caller, so nothing  *)
(* interleaves with these steps: the split only gives each loop iteration  *)
(* a step of its own.  A block the code rejects changes nothing, because   *)
(* the caller runs the transition on a clone of the parent's state and     *)
(* drops it on error; hence the error returns are guards.                  *)
(*                                                                         *)
(* Hashes are names.  A chain has at most one block per slot, so the root  *)
(* of the block this chain has at slot s is BlockRoot[s], for an arbitrary *)
(* injective BlockRoot: collision-free hashing.  The votes of a target     *)
(* live in a map between blocks as they do inside process_attestations;    *)
(* module JustificationsCodec has the flattened form.                      *)
(***************************************************************************)
EXTENDS JustifiedSlots, FiniteSets, Sequences

CONSTANTS
    N,                       \* the number of validators
    HISTORICAL_ROOTS_LIMIT,  \* capacity of historical_block_hashes
    Root,                    \* the hashes
    ZERO,                    \* H256::ZERO
    BlockRoot,               \* the root of this chain's block at each slot
    Blocks,                  \* headers offered to the transition
    Attestations             \* attestations the offered blocks may carry

Validators == 0 .. N - 1

Slots == 0 .. HISTORICAL_ROOTS_LIMIT

\* There is at least one validator (current_proposer rejects blocks otherwise).
ASSUME ValidatorsAssumption == N \in Nat \ {0}

ASSUME LimitAssumption == HISTORICAL_ROOTS_LIMIT \in Nat

\* Roots are collision free and no block hashes to the zero hash.
ASSUME BlockRootAssumption ==
    /\ ZERO \in Root
    /\ BlockRoot \in [Slots -> Root \ {ZERO}]
    /\ \A s, t \in Slots : BlockRoot[s] = BlockRoot[t] => s = t

ASSUME BlocksAssumption ==
    Blocks \subseteq [slot : Nat, proposer_index : Nat, parent_root : Root]

ASSUME AttestationsAssumption ==
    Attestations \subseteq [source : [root : Root, slot : Nat],
                            target : [root : Root, slot : Nat],
                            aggregation_bits : BitLists]

VARIABLES
    slot,                     \* state.slot
    header_slot,              \* state.latest_block_header.slot
    latest_justified,         \* state.latest_justified: [root, slot]
    latest_finalized,         \* state.latest_finalized: [root, slot]
    historical_block_hashes,  \* entry s + 1 is the root at slot s
    justified_slots,          \* the relative bit window
    justifications,           \* target root -> set of validators that voted for it
    phase,                    \* "idle" or "attestations": where in process_block
    scan_finalized_slot,      \* finalized slot when root_to_slot was built
    cast                      \* history: slot -> every vote accepted for it so far

vars == <<slot, header_slot, latest_justified, latest_finalized, historical_block_hashes,
          justified_slots, justifications, phase, scan_finalized_slot, cast>>

checkpoint_exists(checkpoint) ==
    /\ checkpoint.slot < Len(historical_block_hashes)
    /\ historical_block_hashes[checkpoint.slot + 1] = checkpoint.root

current_proposer(s) == s % N

\* State::from_genesis.
Init ==
    /\ slot = 0
    /\ header_slot = 0
    /\ latest_justified = [root |-> ZERO, slot |-> 0]
    /\ latest_finalized = [root |-> ZERO, slot |-> 0]
    /\ historical_block_hashes = <<>>
    /\ justified_slots = EmptyBitList
    /\ justifications = [r \in {} |-> {}]
    /\ phase = "idle"
    /\ scan_finalized_slot = 0
    /\ cast = [s \in Slots |-> {}]

\* process_slots: a state never moves to an earlier or to its own slot.
process_slots(target_slot) ==
    /\ slot < target_slot
    /\ slot' = target_slot

\* The parent's root, then one zero hash for every empty slot after it.
extended_hashes(parent_root, num_empty_slots) ==
    historical_block_hashes \o <<parent_root>> \o [i \in 1 .. num_empty_slots |-> ZERO]

\* The new entries must fit into the list; SlotGapTooLarge otherwise.
fits_history(num_empty_slots) ==
    Len(historical_block_hashes) + 1 + num_empty_slots <= HISTORICAL_ROOTS_LIMIT

\* The genesis checkpoints get their root from the first block's parent.
with_genesis_root_forgotten(checkpoint, parent_root) == checkpoint

with_genesis_root(checkpoint, parent_root) ==
    IF header_slot = 0 THEN [root |-> parent_root, slot |-> checkpoint.slot] ELSE checkpoint

process_block_header(block) ==
    LET parent_root == BlockRoot[header_slot]
        num_empty_slots == block.slot - header_slot - 1
    IN  /\ block.slot = slot'
        /\ block.slot > header_slot
        /\ block.proposer_index = current_proposer(block.slot)
        /\ block.parent_root = parent_root
        /\ fits_history(num_empty_slots)
        /\ latest_justified' = with_genesis_root(latest_justified, parent_root)
        /\ latest_finalized' = with_genesis_root(latest_finalized, parent_root)
        /\ historical_block_hashes' = extended_hashes(parent_root, num_empty_slots)
        /\ justified_slots' = extend_to_slot(justified_slots, latest_finalized.slot,
                                             block.slot - 1)
        /\ header_slot' = block.slot

\* Everything of state_transition up to the attestation loop.
ProcessBlock(block) ==
    /\ phase = "idle"
    /\ process_slots(block.slot)
    /\ process_block_header(block)
    /\ ZERO \notin DOMAIN justifications
    /\ scan_finalized_slot' = latest_finalized.slot
    /\ phase' = "attestations"
    /\ UNCHANGED <<justifications, cast>>

is_valid_vote_off_schedule(source, target) ==
    LET finalized_slot == latest_finalized.slot
    IN  /\ is_slot_justified(justified_slots, finalized_slot, source.slot)
        /\ ~is_slot_justified(justified_slots, finalized_slot, target.slot)
        /\ source.root # ZERO /\ target.root # ZERO
        /\ checkpoint_exists(source) /\ checkpoint_exists(target)
        /\ target.slot > source.slot

is_valid_vote(source, target) ==
    LET finalized_slot == latest_finalized.slot
    IN  /\ is_slot_justified(justified_slots, finalized_slot, source.slot)
        /\ ~is_slot_justified(justified_slots, finalized_slot, target.slot)
        /\ source.root # ZERO /\ target.root # ZERO
        /\ checkpoint_exists(source) /\ checkpoint_exists(target)
        /\ target.slot > source.slot
        /\ slot_is_justifiable_after(target.slot, finalized_slot)

\* The votes of a root in the map, or the fresh all-false list the code inserts.
votes_of(root) == IF root \in DOMAIN justifications THEN justifications[root] ELSE {}

with_votes(root, votes) ==
    [r \in DOMAIN justifications \cup {root} |->
        IF r = root THEN votes ELSE justifications[r]]

is_supermajority(votes) == 3 * Cardinality(votes) >= 2 * N

\* root_to_slot knows the root at some slot it scanned, past the given slot.
root_above_unpruned(root, finalized_slot) ==
    \E s \in (scan_finalized_slot + 1) .. (Len(historical_block_hashes) - 1) :
        historical_block_hashes[s + 1] = root

root_above(root, finalized_slot) ==
    \E s \in (scan_finalized_slot + 1) .. (Len(historical_block_hashes) - 1) :
        historical_block_hashes[s + 1] = root /\ s > finalized_slot

can_finalize(source, target) ==
    \A s \in (source.slot + 1) .. (target.slot - 1) :
        ~slot_is_justifiable_after(s, latest_finalized.slot)

(***************************************************************************)
(* try_finalize, given the window and the votes left by the justification. *)
(* The u64 subtraction of the old finalized slot is `delta`.               *)
(***************************************************************************)
try_finalize(source, target, slots, votes) ==
    IF can_finalize(source, target)
    THEN LET delta == source.slot - latest_finalized.slot
         IN  /\ latest_finalized' = source
             /\ justified_slots' = shift_window(slots, delta)
             /\ justifications' = [r \in {q \in DOMAIN votes : root_above(q, source.slot)}
                                      |-> votes[r]]
    ELSE /\ justified_slots' = slots
         /\ justifications' = votes
         /\ UNCHANGED latest_finalized

\* The branch of the loop body taken when the votes reach two thirds.
justify(source, target) ==
    /\ latest_justified' = target
    /\ try_finalize(source, target,
                    set_justified(justified_slots, latest_finalized.slot, target.slot),
                    [r \in DOMAIN justifications \ {target.root} |-> justifications[r]])

(***************************************************************************)
(* One iteration of the loop of process_attestations.  An attestation that *)
(* is not a valid vote is skipped and changes nothing.  One whose bit list *)
(* is longer than the registry is skipped after its target got an entry.   *)
(***************************************************************************)
SkipOversizedAttestation(attestation) ==
    LET target == attestation.target
    IN  /\ phase = "attestations"
        /\ is_valid_vote(attestation.source, target)
        /\ attestation.aggregation_bits.len > N
        /\ justifications' = with_votes(target.root, votes_of(target.root))
        /\ UNCHANGED <<slot, header_slot, latest_justified, latest_finalized,
                       historical_block_hashes, justified_slots, phase,
                       scan_finalized_slot, cast>>

ProcessAttestation(attestation) ==
    LET source == attestation.source
        target == attestation.target
        votes == votes_of(target.root) \cup attestation.aggregation_bits.bits
    IN  /\ phase = "attestations"
        /\ is_valid_vote(source, target)
        /\ attestation.aggregation_bits.len <= N
        /\ IF is_supermajority(votes)
           THEN justify(source, target)
           ELSE /\ justifications' = with_votes(target.root, votes)
                /\ UNCHANGED <<latest_justified, latest_finalized, justified_slots>>
        /\ cast' = [cast EXCEPT ![target.slot] = @ \cup attestation.aggregation_bits.bits]
        /\ UNCHANGED <<slot, header_slot, historical_block_hashes, phase,
                       scan_finalized_slot>>

\* serialize_justifications; the map survives it (module JustificationsCodec).
FinishBlock ==
    /\ phase = "attestations"
    /\ phase' = "idle"
    /\ UNCHANGED <<slot, header_slot, latest_justified, latest_finalized,
                   historical_block_hashes, justified_slots, justifications,
                   scan_finalized_slot, cast>>

Next ==
    \/ \E block \in Blocks : ProcessBlock(block)
    \/ \E attestation \in Attestations : ProcessAttestation(attestation)
    \/ \E attestation \in Attestations : SkipOversizedAttestation(attestation)
    \/ FinishBlock

Spec == Init /\ [][Next]_vars

-----------------------------------------------------------------------------
(***************************************************************************)
(* Properties                                                              *)
(***************************************************************************)
Checkpoints == [root : Root, slot : Slots]

justified(s) == is_slot_justified(justified_slots, latest_finalized.slot, s)

TypeOK ==
    /\ slot \in Slots
    /\ header_slot \in Slots
    /\ latest_justified \in Checkpoints
    /\ latest_finalized \in Checkpoints
    /\ historical_block_hashes \in Seq(Root)
    /\ justified_slots \in BitLists
    /\ DOMAIN justifications \subseteq Root
    /\ \A r \in DOMAIN justifications : justifications[r] \in SUBSET Validators
    /\ phase \in {"idle", "attestations"}
    /\ scan_finalized_slot \in Slots
    /\ cast \in [Slots -> SUBSET Validators]

(***************************************************************************)
(* The window covers exactly the slots between the finalized one and the   *)
(* block being processed, whatever gaps, justifications and finalizations  *)
(* came before; so for every attestation the loop accepts the bit that     *)
(* set_justified writes exists, and its expect("index out of bounds")      *)
(* cannot fail.                                                            *)
(***************************************************************************)
WindowCoversChain ==
    /\ justified_slots.len = IF header_slot = 0 THEN 0
                             ELSE header_slot - 1 - latest_finalized.slot
    /\ \A a \in Attestations :
           is_valid_vote(a.source, a.target)
               => set_justified_in_bounds(justified_slots, latest_finalized.slot, a.target.slot)

(***************************************************************************)
(* The justified and the finalized checkpoint name blocks of this chain,   *)
(* finalization never overtakes justification (latest_justified itself may *)
(* move back), and both checkpoints are on justified slots.                *)
(***************************************************************************)
CheckpointsOnChain ==
    /\ header_slot > 0 => /\ checkpoint_exists(latest_justified)
                          /\ checkpoint_exists(latest_finalized)
                          /\ latest_justified.root # ZERO
                          /\ latest_finalized.root # ZERO
    /\ latest_finalized.slot <= latest_justified.slot
    /\ justified(latest_justified.slot)

(***************************************************************************)
(* The tally is exact.  The roots that carry votes are roots of blocks     *)
(* past the finalized slot that are not justified yet, all of them known   *)
(* to root_to_slot (so the branch of try_finalize that warns of a missing  *)
(* root is dead), never the zero hash (so ZeroHashInJustificationRoots     *)
(* rejects no block), and each holds every vote ever accepted for it:      *)
(* pruning and re-indexing at finalization lose none.                      *)
(***************************************************************************)
TallyIsExact ==
    /\ \A r \in DOMAIN justifications :
           /\ r # ZERO
           /\ \E s \in (latest_finalized.slot + 1) .. (Len(historical_block_hashes) - 1) :
               /\ historical_block_hashes[s + 1] = r
               /\ s > scan_finalized_slot
               /\ ~justified(s)
    /\ \A s \in (latest_finalized.slot + 1) .. (Len(historical_block_hashes) - 1) :
           historical_block_hashes[s + 1] # ZERO /\ ~justified(s)
               => votes_of(historical_block_hashes[s + 1]) = cast[s]

(***************************************************************************)
(* No slot is justified, or finalized, without the votes of two thirds of  *)
(* the validators for that very slot, counted over all blocks so far; a    *)
(* bit shifted to the wrong place would credit a slot with another's votes.*)
(***************************************************************************)
JustifiedBySupermajority ==
    \A s \in Slots \ {0} :
        (s > latest_finalized.slot /\ justified(s)) \/ s = latest_finalized.slot
            => is_supermajority(cast[s])

(***************************************************************************)
(* Finalization only moves forward, so the u64 subtraction that yields the *)
(* shift of the window cannot underflow: a source behind the finalized     *)
(* slot is stopped because the finalized slot itself (delta 0) counts as a *)
(* justifiable slot between source and target.                             *)
(***************************************************************************)
FinalizedNeverRegresses ==
    [][latest_finalized'.slot >= latest_finalized.slot]_vars

(***************************************************************************)
(* The concrete window, with its re-indexing, implements the schedule and  *)
(* the finalization rule stated over absolute slots in module Finality.    *)
(***************************************************************************)
Abstract == INSTANCE Finality WITH
    Slot <- Slots,
    finalized <- latest_finalized.slot,
    justified_set <- {s \in Slots : justified(s)},
    latest <- latest_justified.slot

ImplementsFinality == Abstract!Spec

(***************************************************************************)
(* docs/3sf_mini.md on try_finalize: "The check uses                       *)
(* `original_finalized_slot` (the finalized slot at the start of block     *)
(* processing), not the current one".  Then no slot between the source and *)
(* the target of a finalization is justifiable after that slot.            *)
(***************************************************************************)
FinalizesByOriginalSlot ==
    [][ phase = "attestations" /\ latest_finalized' # latest_finalized
            => \A s \in (latest_finalized'.slot + 1) .. (latest_justified'.slot - 1) :
                   ~slot_is_justifiable_after(s, scan_finalized_slot) ]_vars
=============================================================================
