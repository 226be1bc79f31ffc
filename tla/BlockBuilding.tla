---------------------------- MODULE BlockBuilding ---------------------------
(***************************************************************************)
(* How a proposer chooses the attestations of its block                    *)
(* (produce_block_with_signatures, build_block and                         *)
(* select_aggregated_proofs of crates/blockchain/src/store.rs).            *)
(*                                                                         *)
(* build_block runs the state transition on a clone of the head's state    *)
(* over and over: each round processes a candidate block with the          *)
(* attestations included so far and then includes those that vote from the *)
(* justified checkpoint of its post-state.  The transition is that of      *)
(* module StateTransition, whose variables are the clone while a block is  *)
(* built and the state of the head otherwise.  Maps are iterated in no     *)
(* particular order: an attestation of the candidate is processed whenever *)
(* it is its turn in some order, which is a choice of the step.            *)
(***************************************************************************)
EXTENDS StateTransition, FiniteSetsExt

CONSTANTS
    Data,         \* attestation data of the votes: [slot, head, source, target]
    KnownHeads,   \* the roots of known_block_roots among their heads
    ProofSets,    \* what the buffer of known payloads may hold: sets of proofs
    BuildSlot     \* the slot of the proposal

Proofs == [data : Data, participants : SUBSET Validators]

\* The buffer has a capacity.
ASSUME ProofSetsAssumption ==
    \A known \in ProofSets : known \subseteq Proofs /\ IsFiniteSet(known)

\* No validator votes twice in a slot.
ASSUME DataAssumption ==
    /\ Data \subseteq [slot : Nat, head : Root, source : [root : Root, slot : Nat],
                       target : [root : Root, slot : Nat]]
    /\ \A c, d \in Data : c.slot = d.slot => c = d

VARIABLES
    stage,        \* where in build_block
    head_state,   \* the state of the head
    proofs,       \* aggregated_payloads
    included,     \* included_attestations: the validators whose vote is included
    todo,         \* attestations of the candidate, or data, still to go through
    remaining,    \* select_aggregated_proofs: [data, validators] being covered
    chosen,       \* results: the attestations of the block, in order
    processed     \* how many of them the post-state of the block has seen

build_vars ==
    <<stage, head_state, proofs, included, todo, remaining, chosen, processed>>
all_vars == <<vars, build_vars>>

\* SignatureKey: every proof is stored under each of its participants.
keys == UNION {{<<v, p.data>> : v \in p.participants} : p \in proofs}

\* extract_latest_attestations: the vote of the latest slot of each validator.
available ==
    [v \in {k[1] : k \in keys} |->
        CHOOSE d \in Data :
            /\ <<v, d>> \in keys
            /\ \A e \in Data : <<v, e>> \in keys => e.slot <= d.slot]

CloneOfHead ==
    [slot |-> slot, header_slot |-> header_slot, latest_justified |-> latest_justified,
     latest_finalized |-> latest_finalized,
     historical_block_hashes |-> historical_block_hashes,
     justified_slots |-> justified_slots, justifications |-> justifications,
     scan_finalized_slot |-> scan_finalized_slot, cast |-> cast]

BuildInit ==
    /\ Init
    /\ stage = "idle"
    /\ head_state = CloneOfHead
    /\ proofs = {}
    /\ included = {}
    /\ todo = {}
    /\ remaining = [data |-> CHOOSE d \in Data : TRUE, validators |-> {}]
    /\ chosen = <<>>
    /\ processed = 0

-----------------------------------------------------------------------------
\* Blocks of others, up to the slot of the proposal.
GrowChain ==
    /\ stage = "idle"
    /\ \/ \E block \in Blocks : block.slot < BuildSlot /\ ProcessBlock(block)
       \/ \E attestation \in Attestations : ProcessAttestation(attestation)
       \/ FinishBlock
    /\ UNCHANGED build_vars

\* produce_block_with_signatures reads the head's state and the known payloads.
StartBuilding(known) ==
    /\ stage = "idle" /\ phase = "idle"
    /\ slot < BuildSlot
    /\ stage' = "open"
    /\ head_state' = CloneOfHead
    /\ proofs' = known
    /\ UNCHANGED <<vars, included, todo, remaining, chosen, processed>>

own_block == [slot |-> BuildSlot, proposer_index |-> current_proposer(BuildSlot),
              parent_root |-> BlockRoot[header_slot]]

attestation_of(data, validators) ==
    [source |-> data.source, target |-> data.target,
     aggregation_bits |-> [len |-> Max(validators) + 1, bits |-> validators]]

\* aggregate_attestations_by_data.
grouped(validators) ==
    {[data |-> d, validators |-> {v \in validators : available[v] = d}] :
        d \in {available[v] : v \in validators}}

OpenCandidate ==
    /\ stage = "open"
    /\ ProcessBlock(own_block)
    /\ stage' = "candidate"
    /\ todo' = grouped(included)
    /\ UNCHANGED <<head_state, proofs, included, remaining, chosen, processed>>

\* process_attestations skips an attestation that is not a valid vote.
Process(attestation) ==
    \/ ProcessAttestation(attestation)
    \/ /\ ~is_valid_vote(attestation.source, attestation.target)
       /\ UNCHANGED vars

ProcessCandidate(group) ==
    /\ stage = "candidate"
    /\ Process(attestation_of(group.data, group.validators))
    /\ todo' = todo \ {group}
    /\ UNCHANGED <<stage, head_state, proofs, included, remaining, chosen, processed>>

(***************************************************************************)
(* The attestations that a round adds.  A validator has one vote here, so  *)
(* its key is in included_keys exactly if it is included; that a proof     *)
(* exists is what made its vote available.                                 *)
(***************************************************************************)
new_attestations_again ==
    {v \in DOMAIN available : /\ available[v].head \in KnownHeads
                              /\ available[v].source = latest_justified}

new_attestations_of_any_source ==
    {v \in DOMAIN available \ included : available[v].head \in KnownHeads}

new_attestations ==
    {v \in DOMAIN available \ included : /\ available[v].head \in KnownHeads
                                         /\ available[v].source = latest_justified}

\* The clone is dropped; the next round starts from the head's state again.
DropClone ==
    /\ phase' = "idle"
    /\ slot' = head_state.slot
    /\ header_slot' = head_state.header_slot
    /\ latest_justified' = head_state.latest_justified
    /\ latest_finalized' = head_state.latest_finalized
    /\ historical_block_hashes' = head_state.historical_block_hashes
    /\ justified_slots' = head_state.justified_slots
    /\ justifications' = head_state.justifications
    /\ scan_finalized_slot' = head_state.scan_finalized_slot
    /\ cast' = head_state.cast

\* The end of a round: another one, or the fixed point.
Collect ==
    /\ stage = "candidate" /\ todo = {}
    /\ included' = included \cup new_attestations
    /\ IF new_attestations # {}
       THEN stage' = "open" /\ UNCHANGED todo
       ELSE stage' = "select" /\ todo' = grouped(included)
    /\ DropClone
    /\ UNCHANGED <<head_state, proofs, remaining, chosen, processed>>

-----------------------------------------------------------------------------
\* select_aggregated_proofs goes through the data of the included votes.
NextData(group) ==
    /\ stage = "select" /\ remaining.validators = {}
    /\ remaining' = group
    /\ todo' = todo \ {group}
    /\ UNCHANGED <<vars, stage, head_state, proofs, included, chosen, processed>>

covered(proof) == proof.participants \cap remaining.validators

candidates(target_id) == {p \in proofs : p.data = remaining.data /\ target_id \in p.participants}

(***************************************************************************)
(* One iteration of the inner loop: some validator that remains, and among *)
(* the proofs stored under it one that covers the most of those remaining. *)
(* Every one covers that validator, so neither break of the loop is taken. *)
(***************************************************************************)
SelectProof_once(target_id, proof) ==
    /\ stage = "select" /\ target_id \in remaining.validators
    /\ proof \in candidates(target_id)
    /\ chosen' = Append(chosen, attestation_of(remaining.data, proof.participants))
    /\ remaining' = [remaining EXCEPT !.validators = {}]
    /\ UNCHANGED <<vars, stage, head_state, proofs, included, todo, processed>>

SelectProof(target_id, proof) ==
    /\ stage = "select" /\ target_id \in remaining.validators
    /\ proof \in candidates(target_id)
    /\ \A p \in candidates(target_id) :
           Cardinality(covered(p)) <= Cardinality(covered(proof))
    /\ chosen' = Append(chosen, attestation_of(remaining.data, proof.participants))
    /\ remaining' = [remaining EXCEPT !.validators = @ \ covered(proof)]
    /\ UNCHANGED <<vars, stage, head_state, proofs, included, todo, processed>>

\* "Recompute post-state with final block to get correct state root".
OpenFinalBlock ==
    /\ stage = "select" /\ todo = {} /\ remaining.validators = {}
    /\ ProcessBlock(own_block)
    /\ stage' = "final"
    /\ UNCHANGED <<head_state, proofs, included, todo, remaining, chosen, processed>>

ProcessFinal ==
    /\ stage = "final" /\ processed < Len(chosen)
    /\ Process(chosen[processed + 1])
    /\ processed' = processed + 1
    /\ UNCHANGED <<stage, head_state, proofs, included, todo, remaining, chosen>>

\* The block is done; the node imports it, and its post-state is the head's.
FinishBuilding ==
    /\ stage = "final" /\ processed = Len(chosen)
    /\ FinishBlock
    /\ stage' = "done"
    /\ UNCHANGED <<head_state, proofs, included, todo, remaining, chosen, processed>>

Build ==
    \/ OpenCandidate
    \/ \E group \in todo : ProcessCandidate(group)
    \/ Collect
    \/ \E group \in todo : NextData(group)
    \/ \E target_id \in remaining.validators, proof \in proofs : SelectProof(target_id, proof)
    \/ OpenFinalBlock
    \/ ProcessFinal
    \/ FinishBuilding

BuildNext ==
    \/ GrowChain
    \/ \E known \in ProofSets : StartBuilding(known)
    \/ Build

\* build_block runs without interruption once it has begun.
BuildSpec == BuildInit /\ [][BuildNext]_all_vars /\ WF_all_vars(Build)

-----------------------------------------------------------------------------
(***************************************************************************)
(* The proofs chosen for the block cover every vote that the rounds        *)
(* included, although the choice is greedy, depends on the order of a hash *)
(* set, and takes proofs that overlap.  And they are no more than there    *)
(* are validators with a vote, so try_into().expect("attestation count     *)
(* exceeds limit") holds: the limit of the list is that of the registry.   *)
(***************************************************************************)
VotesCoveredWithinLimit ==
    /\ Len(chosen) <= Cardinality(DOMAIN available)
    /\ stage = "final" => \A v \in included : \E i \in DOMAIN chosen :
           /\ chosen[i].source = available[v].source
           /\ chosen[i].target = available[v].target
           /\ v \in chosen[i].aggregation_bits.bits

(***************************************************************************)
(* A node's own block never moves its justified checkpoint back, although  *)
(* process_attestations sets latest_justified to whatever target reaches   *)
(* two thirds last, and the order of the attestations is arbitrary.        *)
(***************************************************************************)
NeverUnjustifies ==
    stage = "done" => latest_justified.slot >= head_state.latest_justified.slot

(***************************************************************************)
(* The rounds of build_block end: each adds a vote that was not included.  *)
(***************************************************************************)
BuildEnds == stage = "open" ~> stage = "done"

(***************************************************************************)
(* "Fixed-point loop: collect attestations until no new ones can be added" *)
(* (store.rs): no vote is left out that starts from the justified          *)
(* checkpoint of the block that was built.                                 *)
(***************************************************************************)
FixedPointReached == stage = "done" => new_attestations = {}
=============================================================================
