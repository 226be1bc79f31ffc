-------------------------- MODULE MCBlockBuilding ---------------------------
(***************************************************************************)
(* Instances of BlockBuilding for TLC: four validators, three of which     *)
(* justify.  Some votes reach the chain with blocks of others; the rest    *)
(* are known to the proposer, in proofs of one, two or three validators.   *)
(***************************************************************************)
EXTENDS BlockBuilding

CONSTANTS
    BlockSlots,    \* the slots of blocks of others
    ChainVoters,   \* the sets of validators whose votes those blocks carry
    ProofVoters,   \* the participants of a proof
    Steps,         \* source and target slots of the votes, as pairs
    MaxProofs      \* the number of proofs known to the proposer

\* Votes that build on one another, with a target reached from two sources.
MCSteps == {<<0, 1>>, <<0, 2>>, <<1, 2>>}

MCBlockRoot == [s \in Slots |-> 1 + ((5 * s) % 13)]

MCRoot == 0 .. 14

MCBlocks ==
    {[slot |-> s, proposer_index |-> current_proposer(s), parent_root |-> MCBlockRoot[q]] :
        s \in BlockSlots, q \in {0} \cup BlockSlots}

at(s) == [root |-> MCBlockRoot[s], slot |-> s]

MCAttestations ==
    {[source |-> at(p[1]), target |-> at(p[2]), aggregation_bits |-> [len |-> N, bits |-> b]] :
        p \in Steps, b \in ChainVoters}

Unknown == 14

MCKnownHeads == MCRoot \ {Unknown}

\* A vote is made in the slot after its target; the last one has an unknown head.
MCData ==
    {[slot |-> 10 * p[2] + p[1], head |-> MCBlockRoot[p[2]], source |-> at(p[1]), target |-> at(p[2])] :
        p \in Steps}
      \cup {[slot |-> 1, head |-> Unknown, source |-> at(0), target |-> at(1)]}

MCProofSets ==
    UNION {kSubset(k, [data : MCData, participants : ProofVoters]) : k \in 0 .. MaxProofs}
=============================================================================
