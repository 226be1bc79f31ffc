----------------------------- MODULE ForkChoice -----------------------------
(***************************************************************************)
(* Votes and fork choice in the blockchain actor                           *)
(* (crates/blockchain/src/store.rs, crates/blockchain/fork_choice and the  *)
(* vote tables of crates/storage/src/store.rs): how votes enter the store, *)
(* when they begin to count, which block LMD-GHOST makes the head or the   *)
(* safe target, and what the node's own validators vote for.               *)
(*                                                                         *)
(* Each handler of the actor is one action.  The state transition of a     *)
(* block is a function of the block (module StateTransition), and so are   *)
(* its votes; blocks arrive after their parents (module BlockImport has    *)
(* the rest).  A vote is known by its data, as hashes do not collide.      *)
(***************************************************************************)
EXTENDS JustifiedSlots, FiniteSets, Sequences

CONSTANTS
    N,                       \* number of validators
    Ours,                    \* the validators of this node
    is_aggregator,
    Blocks, Genesis,
    ParentOf, Ancestors,     \* block -> its parent, block -> all blocks before it
    SlotOf,
    Rank,                    \* block -> position of its root among all roots
    Post,                    \* block -> checkpoints after it: [justified, finalized]
    Body,                    \* block -> the aggregated votes in it
    ProposerVote,            \* block -> the vote of its proposer: <<validator, data>>
    Votes,                   \* votes that may be gossiped: <<validator, data>>
    Aggregates,              \* aggregated votes that may be: [data, participants]
    INTERVALS_PER_SLOT,
    JUSTIFICATION_LOOKBACK_SLOTS,
    NEW_PAYLOAD_CAP, AGGREGATED_PAYLOAD_CAP,
    StartTime,               \* where the first tick fast-forwards to (module Duties)
    MaxTime,                 \* bound: intervals
    MaxGossip                \* bound: gossiped messages

Validators == 0 .. N - 1

Checkpoint(b) == [root |-> b, slot |-> SlotOf[b]]

\* What a vote says: its slot and three checkpoints.
AttestationData == [slot : Nat, head : [root : Blocks, slot : Nat],
                    target : [root : Blocks, slot : Nat],
                    source : [root : Blocks, slot : Nat]]

SignatureKeys == Validators \X AttestationData

\* A vote of several validators.
AggregatedAttestation == [data : AttestationData, participants : SUBSET Validators]

ASSUME TreeAssumption ==
    /\ Genesis \in Blocks
    /\ SlotOf \in [Blocks -> Nat]
    /\ Rank \in [Blocks -> Nat]
    /\ Ancestors \in [Blocks -> SUBSET Blocks]
    /\ ParentOf \in [Blocks \ {Genesis} -> Blocks]
    /\ Ancestors[Genesis] = {}
    /\ \A b \in Blocks \ {Genesis} :
           /\ Ancestors[b] = {ParentOf[b]} \cup Ancestors[ParentOf[b]]
           /\ \A a \in Ancestors[b] : SlotOf[a] < SlotOf[b]

\* What StateTransition shows of the checkpoints of a state.
ASSUME CheckpointsAssumption ==
    \A b \in Blocks \ {Genesis} :
        /\ {Post[b].justified, Post[b].finalized} \subseteq Ancestors[b]
        /\ SlotOf[Post[b].finalized] <= SlotOf[Post[b].justified]

ASSUME VotesAssumption ==
    /\ N \in Nat \ {0}
    /\ Ours \subseteq Validators
    /\ Votes \subseteq SignatureKeys
    /\ Aggregates \subseteq AggregatedAttestation
    /\ \A b \in Blocks \ {Genesis} : /\ ProposerVote[b] \in SignatureKeys
                                     /\ Body[b] \in Seq(AggregatedAttestation)

ASSUME BoundsAssumption ==
    /\ INTERVALS_PER_SLOT \in Nat \ {0}
    /\ JUSTIFICATION_LOOKBACK_SLOTS \in Nat
    /\ NEW_PAYLOAD_CAP \in Nat /\ AGGREGATED_PAYLOAD_CAP \in Nat
    /\ StartTime \in Nat /\ MaxTime \in Nat /\ MaxGossip \in Nat
    /\ StartTime <= MaxTime

VARIABLES
    imported,            \* the blocks with a state
    live,                \* rows of LiveChain
    justified, finalized, head, safe_target,
    time,                \* in intervals
    attestation_data,    \* rows of AttestationDataByRoot
    gossip_signatures,   \* rows of GossipSignatures: <<validator, data>>
    gossip_signatures_count,
    new_payloads, known_payloads,  \* PayloadBuffers of <<validator, data>>
    gossiped             \* what is used up of MaxGossip

chain == <<imported, live, justified, finalized>>
votes == <<attestation_data, gossip_signatures, gossip_signatures_count, new_payloads,
           known_payloads>>
vars == <<chain, head, safe_target, time, votes, gossiped>>

Init ==
    /\ imported = {Genesis}
    /\ live = {Genesis}
    /\ justified = Genesis
    /\ finalized = Genesis
    /\ head = Genesis
    /\ safe_target = Genesis
    /\ time = StartTime
    /\ attestation_data = {}
    /\ gossip_signatures = {}
    /\ gossip_signatures_count = 0
    /\ new_payloads = <<>>
    /\ known_payloads = <<>>
    /\ gossiped = 0

-----------------------------------------------------------------------------
(***************************************************************************)
(* LMD-GHOST.                                                              *)
(***************************************************************************)
\* The blocks compute_block_weights visits for a vote: from its head back, up to
\* the start or to the first block that is not in the LiveChain.
walk(root, start_slot, blocks) ==
    {b \in blocks \cap ({root} \cup Ancestors[root]) :
        /\ SlotOf[b] > start_slot
        /\ \A c \in {root} \cup Ancestors[root] : b \in Ancestors[c] => c \in blocks}

weight_of_targets(b, start_slot, blocks, attestations) ==
    Cardinality({v \in DOMAIN attestations :
                    b \in walk(attestations[v].target.root, start_slot, blocks)})

weight(b, start_slot, blocks, attestations) ==
    Cardinality({v \in DOMAIN attestations :
                    b \in walk(attestations[v].head.root, start_slot, blocks)})

children(b, blocks, w, min_score) ==
    {c \in blocks \ {Genesis} : ParentOf[c] = b /\ w[c] >= min_score}

\* The child that max_by_key chooses: the most votes, then the highest root.
best_child(c, blocks, w, min_score) ==
    LET siblings == children(ParentOf[c], blocks, w, min_score)
    IN  /\ c \in siblings
        /\ \A d \in siblings : w[d] < w[c] \/ (w[d] = w[c] /\ Rank[d] <= Rank[c])

\* The descent from the start gets to b: every step of the way is to the best child.
reached(b, start, blocks, w, min_score) ==
    /\ b = start \/ start \in Ancestors[b]
    /\ \A c \in {b} \cup Ancestors[b] :
           start \in Ancestors[c] => best_child(c, blocks, w, min_score)

\* compute_lmd_ghost_head descends until no child is left.
compute_lmd_ghost_head(start, blocks, attestations, min_score) ==
    LET w == [b \in blocks |-> weight(b, SlotOf[start], blocks, attestations)]
    IN  IF start \notin blocks THEN start
        ELSE CHOOSE b \in blocks : /\ reached(b, start, blocks, w, min_score)
                                   /\ children(b, blocks, w, min_score) = {}

(***************************************************************************)
(* extract_latest_attestations: the latest data of each validator among    *)
(* the keys whose data is in the table.  Which of two votes for one slot   *)
(* wins depends on the order of a HashSet, so there may be several results.*)
(***************************************************************************)
extract_latest_attestations(keys, table) ==
    LET known == {k \in keys : k[2] \in table}
        latest == {k \in known : \A l \in known : l[1] = k[1] => l[2].slot <= k[2].slot}
        voters == {k[1] : k \in known}
        one_each == {c \in SUBSET latest : \A v \in voters : \E k \in c : {l \in c : l[1] = v} = {k}}
    IN  {[v \in voters |-> (CHOOSE k \in c : k[1] = v)[2]] : c \in one_each}

unique_keys(buffer) == {buffer[i] : i \in DOMAIN buffer}

\* update_head, over the state the action has produced.
update_head ==
    \E attestations \in extract_latest_attestations(unique_keys(known_payloads'),
                                                    attestation_data') :
        head' = compute_lmd_ghost_head(justified', live', attestations, 0)

min_target_score_rounded_down == (2 * N) \div 3

\* (num_validators * 2).div_ceil(3)
min_target_score == (2 * N + 2) \div 3

update_safe_target ==
    \E attestations \in extract_latest_attestations(unique_keys(known_payloads)
                                                        \cup unique_keys(new_payloads),
                                                    attestation_data) :
        safe_target' = compute_lmd_ghost_head(justified, live, attestations, min_target_score)

-----------------------------------------------------------------------------
(***************************************************************************)
(* How votes enter the store.                                              *)
(***************************************************************************)
\* PayloadBuffer::push_batch: the oldest entries make room.
push_batch(buffer, capacity, keys) ==
    LET all == buffer \o keys
        excess == Len(all) - capacity
    IN  IF excess > 0 THEN SubSeq(all, excess + 1, Len(all)) ELSE all

\* One entry per participant: the aggregates in their order, of each the participants
\* in the order of the bits.
keys_of(aggregates) ==
    LET entries == {e \in (DOMAIN aggregates) \X Validators :
                        e[2] \in aggregates[e[1]].participants}
        before(e, f) == e[1] < f[1] \/ (e[1] = f[1] /\ e[2] < f[2])
        nth(n) == CHOOSE e \in entries : Cardinality({f \in entries : before(f, e)}) = n - 1
    IN  [n \in 1 .. Cardinality(entries) |-> <<nth(n)[2], aggregates[nth(n)[1]].data>>]

promote_replacing == /\ known_payloads' = new_payloads
                     /\ new_payloads' = <<>>

\* promote_new_aggregated_payloads.
promote == /\ known_payloads' = push_batch(known_payloads, AGGREGATED_PAYLOAD_CAP, new_payloads)
           /\ new_payloads' = <<>>

validate_attestation_data(data) ==
    /\ {data.source.root, data.target.root, data.head.root} \subseteq imported
    /\ data.source.slot <= data.target.slot
    /\ data.target.slot <= data.head.slot
    /\ SlotOf[data.source.root] = data.source.slot
    /\ SlotOf[data.target.root] = data.target.slot
    /\ SlotOf[data.head.root] = data.head.slot
    /\ data.slot <= time \div INTERVALS_PER_SLOT + 1

\* compute_subnet_id: with one committee all validators are in one subnet.
in_our_subnet == Ours # {}

insert_gossip_signature(signatures, count, key) ==
    /\ gossip_signatures' = signatures \cup {key}
    /\ gossip_signatures_count' = IF key \in signatures THEN count ELSE count + 1

\* Only an aggregator takes single votes.  The signature is verified against the
\* key of the validator; one that is not valid is dropped, so Votes holds the others.
OnGossipAttestation(key) ==
    /\ is_aggregator
    /\ gossiped < MaxGossip
    /\ gossiped' = gossiped + 1
    /\ validate_attestation_data(key[2])
    /\ attestation_data' = attestation_data \cup {key[2]}
    /\ IF in_our_subnet
       THEN insert_gossip_signature(gossip_signatures, gossip_signatures_count, key)
       ELSE UNCHANGED <<gossip_signatures, gossip_signatures_count>>
    /\ UNCHANGED <<chain, head, safe_target, time, new_payloads, known_payloads>>

OnGossipAggregatedAttestation(aggregate) ==
    /\ gossiped < MaxGossip
    /\ gossiped' = gossiped + 1
    /\ validate_attestation_data(aggregate.data)
    /\ attestation_data' = attestation_data \cup {aggregate.data}
    /\ new_payloads' = push_batch(new_payloads, NEW_PAYLOAD_CAP, keys_of(<<aggregate>>))
    /\ UNCHANGED <<chain, head, safe_target, time, gossip_signatures, gossip_signatures_count,
                   known_payloads>>

\* prune_by_slot keeps what is newer than the finalized block.
prune_attestation_data(table, finalized_slot) == {d \in table : d.slot > finalized_slot}

prune_gossip_signatures_before(signatures, finalized_slot) ==
    {k \in signatures : k[2].slot >= finalized_slot}

prune_gossip_signatures(signatures, finalized_slot) ==
    {k \in signatures : k[2].slot > finalized_slot}

prune_live_chain(blocks, finalized_slot) == {b \in blocks : SlotOf[b] >= finalized_slot}

later(b, than) == IF SlotOf[b] > SlotOf[than] THEN b ELSE than

(***************************************************************************)
(* on_block_core: checkpoints (and what they prune), rows, votes, head,    *)
(* and last the vote of the proposer, which must not count for the head.   *)
(***************************************************************************)
OnBlock(b) ==
    LET slot == SlotOf[finalized']
        advanced == finalized' # finalized
        kept_data == IF advanced THEN prune_attestation_data(attestation_data, slot)
                                 ELSE attestation_data
        kept == IF advanced THEN prune_gossip_signatures(gossip_signatures, slot)
                            ELSE gossip_signatures
        count == gossip_signatures_count - Cardinality(gossip_signatures \ kept)
    IN  /\ b \notin imported
        /\ ParentOf[b] \in imported
        /\ justified' = later(Post[b].justified, justified)
        /\ finalized' = later(Post[b].finalized, finalized)
        /\ live' = {b} \cup (IF advanced THEN prune_live_chain(live, slot) ELSE live)
        /\ imported' = imported \cup {b}
        /\ attestation_data' = kept_data \cup {Body[b][i].data : i \in DOMAIN Body[b]}
                                         \cup {ProposerVote[b][2]}
        /\ known_payloads' = push_batch(known_payloads, AGGREGATED_PAYLOAD_CAP, keys_of(Body[b]))
        /\ update_head
        /\ IF in_our_subnet
           THEN insert_gossip_signature(kept, count, ProposerVote[b])
           ELSE gossip_signatures' = kept /\ gossip_signatures_count' = count
        /\ UNCHANGED <<safe_target, time, new_payloads, gossiped>>

-----------------------------------------------------------------------------
(***************************************************************************)
(* The intervals of a slot (store::on_tick; module Duties has the clock).  *)
(***************************************************************************)
\* The elements of a set in any order.
orders(S) == {s \in [1 .. Cardinality(S) -> S] : {s[i] : i \in DOMAIN s} = S}

\* The duty of an aggregator: signatures whose data is there become payloads, one
\* group per data, the groups in the order of a HashMap.  The signatures of a group
\* whose aggregation fails stay where they are.
aggregate_committee_signatures ==
    LET ready == {k[2] : k \in {l \in gossip_signatures : l[2] \in attestation_data}}
        group(data) == [data |-> data,
                        participants |-> {v \in Validators : <<v, data>> \in gossip_signatures}]
    IN  \E aggregated \in SUBSET ready :
            LET done == {k \in gossip_signatures : k[2] \in aggregated}
            IN  /\ \E order \in orders(aggregated) :
                       new_payloads' = push_batch(new_payloads, NEW_PAYLOAD_CAP,
                                           keys_of([i \in DOMAIN order |-> group(order[i])]))
                /\ gossip_signatures' = gossip_signatures \ done
                /\ gossip_signatures_count' = gossip_signatures_count - Cardinality(done)
                /\ UNCHANGED <<head, safe_target, attestation_data, known_payloads>>

accept_new_attestations ==
    /\ promote
    /\ UNCHANGED <<chain, safe_target, attestation_data, gossip_signatures, gossip_signatures_count>>
    /\ update_head

\* Only the last interval of a catch-up signals the proposal.
has_proposal(slot) == slot > 0 /\ slot % N \in Ours

\* get_proposal_head promotes once more before the block is built.  (The block itself
\* comes in through OnBlock.)
ProposeBlock ==
    /\ time % INTERVALS_PER_SLOT = 0
    /\ has_proposal(time \div INTERVALS_PER_SLOT)
    /\ accept_new_attestations
    /\ UNCHANGED <<time, gossiped>>

OnTick ==
    LET slot == time' \div INTERVALS_PER_SLOT
        interval == time' % INTERVALS_PER_SLOT
    IN  /\ time < MaxTime
        /\ time' = time + 1
        /\ UNCHANGED <<chain, gossiped>>
        /\ \/ interval = 0 /\ has_proposal(slot) /\ accept_new_attestations
           \/ interval = 2 /\ is_aggregator /\ aggregate_committee_signatures
           \/ interval = 3 /\ update_safe_target /\ UNCHANGED <<head, votes>>
           \/ interval = 4 /\ accept_new_attestations
           \/ /\ interval \in {0, 1} \/ (interval = 2 /\ ~is_aggregator)
              /\ UNCHANGED <<head, safe_target, votes>>

Next ==
    \/ \E b \in Blocks \ {Genesis} : OnBlock(b)
    \/ \E key \in Votes : OnGossipAttestation(key)
    \/ \E aggregate \in Aggregates : OnGossipAggregatedAttestation(aggregate)
    \/ ProposeBlock
    \/ OnTick

Spec == Init /\ [][Next]_vars

-----------------------------------------------------------------------------
(***************************************************************************)
(* What the validators of this node vote for in the present state.         *)
(***************************************************************************)
\* Back from the head towards the safe target, JUSTIFICATION_LOOKBACK_SLOTS at most.
towards_safe_target ==
    LET back == {head} \cup Ancestors[head]
        stops == {c \in back :
                     \/ SlotOf[c] <= SlotOf[safe_target]
                     \/ Cardinality({d \in back : c \in Ancestors[d]})
                            = JUSTIFICATION_LOOKBACK_SLOTS}
    IN  CHOOSE c \in stops : \A d \in stops : SlotOf[d] <= SlotOf[c]

\* Further back, to a slot that can be justified.
to_justifiable(b) ==
    LET stops == {c \in {b} \cup Ancestors[b] :
                     \/ SlotOf[c] <= SlotOf[finalized]
                     \/ slot_is_justifiable_after(SlotOf[c], SlotOf[finalized])}
    IN  CHOOSE c \in stops : \A d \in stops : SlotOf[d] <= SlotOf[c]

get_attestation_target_unclamped == to_justifiable(towards_safe_target)

get_attestation_target ==
    LET target == to_justifiable(towards_safe_target)
    IN  IF SlotOf[target] < SlotOf[justified] THEN justified ELSE target

produce_attestation_data(slot) ==
    [slot |-> slot, head |-> Checkpoint(head), target |-> Checkpoint(get_attestation_target),
     source |-> Checkpoint(justified)]

-----------------------------------------------------------------------------
(***************************************************************************)
(* Properties.                                                             *)
(***************************************************************************)
TypeOK ==
    /\ imported \subseteq Blocks
    /\ live \subseteq imported
    /\ {justified, finalized, head, safe_target} \subseteq imported
    /\ {justified, head} \subseteq live
    /\ time \in StartTime .. MaxTime
    /\ attestation_data \subseteq AttestationData
    /\ gossip_signatures \subseteq SignatureKeys
    /\ gossip_signatures_count \in Nat
    /\ unique_keys(new_payloads) \cup unique_keys(known_payloads) \subseteq SignatureKeys
    /\ Len(new_payloads) <= NEW_PAYLOAD_CAP
    /\ Len(known_payloads) <= AGGREGATED_PAYLOAD_CAP
    /\ gossiped \in 0 .. MaxGossip

OnChain(b, tip) == b = tip \/ b \in Ancestors[tip]

\* The validators whose latest vote is for b or for a block after it, of the blocks
\* that are there.
Support(b, blocks, attestations) ==
    {v \in DOMAIN attestations : /\ attestations[v].head.root \in blocks
                                 /\ OnChain(b, attestations[v].head.root)}

(***************************************************************************)
(* At any time the vote the node would cast (produce_attestation_data) is  *)
(* one its own validate_attestation_data accepts, with source and target   *)
(* on the chain of its head and a target that is the source or in a slot   *)
(* that can be justified - whatever the head, the safe target and the      *)
(* checkpoints did between two updates of each other.                      *)
(***************************************************************************)
VoteIsValid ==
    LET data == produce_attestation_data(time \div INTERVALS_PER_SLOT)
    IN  /\ validate_attestation_data(data)
        /\ OnChain(data.target.root, head)
        /\ OnChain(data.source.root, data.target.root)
        /\ \/ data.target = data.source
           \/ slot_is_justifiable_after(data.target.slot, SlotOf[finalized])

(***************************************************************************)
(* When votes or blocks enter fork choice, the new head is a leaf after    *)
(* the justified block, and no block on the way to it has a sibling with   *)
(* more support, counting for each validator its latest known vote only,   *)
(* and only votes for imported blocks (a block may carry others, which     *)
(* on_block does not check).  Support is defined on the tree, where        *)
(* update_head counts by walking the LiveChain, which finalization has     *)
(* pruned.                                                                 *)
(***************************************************************************)
HeadIsHeaviest ==
    [][ (known_payloads' # known_payloads \/ imported' # imported) =>
        /\ OnChain(justified', head')
        /\ \A b \in imported' \ {Genesis} : ParentOf[b] # head'
        /\ \E attestations \in extract_latest_attestations(unique_keys(known_payloads'),
                                                           attestation_data') :
               \A b \in live', c \in live' :
                   (/\ b # Genesis /\ c # Genesis
                    /\ ParentOf[b] = ParentOf[c]
                    /\ OnChain(b, head')
                    /\ OnChain(justified', ParentOf[b]))
                   => Cardinality(Support(c, imported', attestations))
                          <= Cardinality(Support(b, imported', attestations))
      ]_vars

(***************************************************************************)
(* update_safe_target moves the safe target to the justified block or to a *)
(* block after it that two thirds of all validators vote for.              *)
(***************************************************************************)
SafeTargetHasSupermajority ==
    [][ safe_target' # safe_target =>
        \/ safe_target' = justified
        \/ /\ OnChain(justified, safe_target')
           /\ \E attestations \in extract_latest_attestations(unique_keys(known_payloads)
                                                                 \cup unique_keys(new_payloads),
                                                             attestation_data) :
                  3 * Cardinality(Support(safe_target', imported, attestations)) >= 2 * N
      ]_vars

\* The slots v is known to have voted in.
KnownSlots(v) == {k[2].slot : k \in {l \in unique_keys(known_payloads) : /\ l[1] = v
                                                                        /\ l[2] \in attestation_data}}

(***************************************************************************)
(* A validator's latest known vote is not forgotten for an older one or    *)
(* for none: promotion, block import and aggregation keep it, unless it is *)
(* older than the finalized block or the known buffer is full and evicts.  *)
(***************************************************************************)
VotesNeverRegress ==
    [][ \A v \in Validators : \A s \in KnownSlots(v) :
           \/ \E t \in KnownSlots(v)' : t >= s
           \/ s <= SlotOf[finalized']
           \/ Len(known_payloads') = AGGREGATED_PAYLOAD_CAP
      ]_vars

(***************************************************************************)
(* The data of every gossip signature is in AttestationDataByRoot: without *)
(* it aggregate_committee_signatures would pass over the signature for     *)
(* good.  The two tables are filled by three handlers and pruned           *)
(* separately.                                                             *)
(***************************************************************************)
SignaturesHaveData == \A k \in gossip_signatures : k[2] \in attestation_data

(***************************************************************************)
(* Pruning leaves fork choice what it needs: every imported block from the *)
(* finalized slot on is in the LiveChain, and with it the justified block, *)
(* where compute_lmd_ghost_head starts.  Without its row the head would    *)
(* silently stay there.                                                    *)
(***************************************************************************)
LiveChainComplete ==
    /\ SlotOf[finalized] <= SlotOf[justified]
    /\ \A b \in imported : SlotOf[b] >= SlotOf[finalized] => b \in live

\* gossip_signatures_count, kept beside the table, stays equal to its size.
CounterIsExact == gossip_signatures_count = Cardinality(gossip_signatures)

(***************************************************************************)
(* docs/lmd_ghost.md: "Safe target is always at or behind the head".  It   *)
(* counts votes that are not promoted yet, which the head does not, and is *)
(* not recomputed when the head moves.                                     *)
(***************************************************************************)
SafeTargetBehindHead == SlotOf[safe_target] <= SlotOf[head]
=============================================================================
