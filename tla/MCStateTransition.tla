------------------------- MODULE MCStateTransition --------------------------
(***************************************************************************)
(* Instances of CheckpointSync, and with it of StateTransition, for TLC.   *)
(* Roots are numbers; their order is not the order of the slots.  Root 0   *)
(* is the zero hash, Foreign is the root of a block of another fork and    *)
(* NotABlock the root of no block.  The serving node may be of any of four *)
(* networks.                                                               *)
(***************************************************************************)
EXTENDS JustificationsCodec, CheckpointSync

CONSTANTS
    BlockSlots,  \* the slots at which a block may be produced
    VoteSlots,   \* the slots that votes cite as source or target
    SplitSlots   \* the targets that gather their votes one by one

\* Injective up to slot 12.
MCBlockRoot == [s \in Slots |-> 1 + ((5 * s) % 13)]

MCbefore(r, q) == r < q

Foreign == 14

NotABlock == 15

MCRoot == 0 .. NotABlock

\* Headers by every validator, on every block.
MCBlocks ==
    {[slot |-> s, proposer_index |-> p, parent_root |-> MCBlockRoot[q]] :
        s \in BlockSlots, p \in Validators, q \in ({0} \cup BlockSlots) \cap Slots}

chain_checkpoints(slots) == {[root |-> MCBlockRoot[s], slot |-> s] : s \in slots}

\* The votes of a supermajority for every pair of slots.  Votes for a split slot also
\* come one by one.  One vote has more bits than there are validators, and two cite
\* the zero hash and another fork.
MCAttestations ==
    [source : chain_checkpoints(VoteSlots), target : chain_checkpoints(VoteSlots),
     aggregation_bits : {[len |-> N, bits |-> 1 .. N - 1]}]
        \cup [source : chain_checkpoints({0}), target : chain_checkpoints(SplitSlots),
              aggregation_bits : {[len |-> N, bits |-> {0}]}]
        \cup [source : chain_checkpoints({0}), target : chain_checkpoints({1}),
              aggregation_bits : {[len |-> N + 1, bits |-> {0}]}]
        \cup [source : chain_checkpoints({0}), target : [root : {ZERO, Foreign}, slot : {1}],
              aggregation_bits : {[len |-> N, bits |-> {0}]}]

validator(index, pubkey) == [index |-> index, pubkey |-> pubkey]

MCRegistry == <<validator(0, "a"), validator(1, "b"), validator(2, "c")>>

MCGenesis == [genesis_time |-> 1000, validators |-> MCRegistry]

\* Another genesis time, a key replaced, one validator more.
MCNetworks ==
    {MCGenesis,
     [genesis_time |-> 2000, validators |-> MCRegistry],
     [genesis_time |-> 1000, validators |-> [MCRegistry EXCEPT ![2].pubkey = "d"]],
     [genesis_time |-> 1000, validators |-> Append(MCRegistry, validator(3, "d"))]}
=============================================================================

