----------------------- MODULE StateTransitionProofs ------------------------
(***************************************************************************)
(* Proofs about StateTransition, for every number of validators, every     *)
(* history limit and every set of blocks and attestations offered; and     *)
(* about JustificationsCodec, for every order of the roots.                *)
(***************************************************************************)
EXTENDS JustificationsCodec, FiniteSetTheorems, TLAPS

\* The time the provers have for a leaf; the leaves that are pure logic name Zenon.
USE SMTT(30), ZenonT(30)

-----------------------------------------------------------------------------
(***************************************************************************)
(* The bit window                                                          *)
(***************************************************************************)

\* Setting the bit of a slot in the window justifies that slot and no other.
LEMMA SetJustified ==
    ASSUME NEW b \in BitLists, NEW f \in Nat, NEW t \in Nat,
           t > f, t - f - 1 < b.len
    PROVE  /\ set_justified(b, f, t) \in BitLists
           /\ set_justified(b, f, t).len = b.len
           /\ \A s \in Nat : is_slot_justified(set_justified(b, f, t), f, s)
                                <=> (is_slot_justified(b, f, s) \/ s = t)
  BY DEF BitLists, set_justified, is_slot_justified, has_index, relative_index

\* Extending the window changes the status of no slot.
LEMMA ExtendToSlot ==
    ASSUME NEW b \in BitLists, NEW f \in Nat, NEW t \in Int
    PROVE  /\ extend_to_slot(b, f, t) \in BitLists
           /\ extend_to_slot(b, f, t).len = IF b.len < t - f THEN t - f ELSE b.len
           /\ \A s \in Nat : is_slot_justified(extend_to_slot(b, f, t), f, s)
                                <=> is_slot_justified(b, f, s)
  BY DEF BitLists, extend_to_slot, is_slot_justified, has_index, relative_index

\* Shifting by the advance of finalization keeps the status of every slot that
\* stays above the new finalized slot, under its new index.
LEMMA ShiftWindow ==
    ASSUME NEW b \in BitLists, NEW f \in Nat, NEW g \in Nat, f <= g
    PROVE  /\ shift_window(b, g - f) \in BitLists
           /\ shift_window(b, g - f).len = IF g - f <= b.len THEN b.len - (g - f) ELSE 0
           /\ \A s \in Nat : s > g => (is_slot_justified(shift_window(b, g - f), g, s)
                                            <=> is_slot_justified(b, f, s))
  BY DEF BitLists, EmptyBitList, shift_window, is_slot_justified, has_index, relative_index

\* The finalized slot is itself at distance 0, hence on the schedule.
LEMMA FinalizedSlotOnSchedule ==
    ASSUME NEW f \in Nat
    PROVE  slot_is_justifiable_after(f, f)
  BY DEF slot_is_justifiable_after

-----------------------------------------------------------------------------
\* What appending a parent and its empty slots does to the history.
LEMMA ExtendedHashes ==
    ASSUME historical_block_hashes \in Seq(Root), ZERO \in Root,
           NEW r \in Root, NEW n \in Nat
    PROVE  /\ extended_hashes(r, n) \in Seq(Root)
           /\ Len(extended_hashes(r, n)) = Len(historical_block_hashes) + 1 + n
           /\ \A i \in 1 .. Len(historical_block_hashes) :
                  extended_hashes(r, n)[i] = historical_block_hashes[i]
           /\ extended_hashes(r, n)[Len(historical_block_hashes) + 1] = r
           /\ \A i \in (Len(historical_block_hashes) + 2) ..
                       (Len(historical_block_hashes) + 1 + n) :
                  extended_hashes(r, n)[i] = ZERO
<1> DEFINE h == historical_block_hashes
           t == [i \in 1 .. n |-> ZERO]
           g == h \o <<r>>
           e == g \o t
<1>1. t \in Seq(Root) /\ Len(t) = n
  OBVIOUS
<1>2. /\ g \in Seq(Root) 
      /\ Len(g) = Len(h) + 1
      /\ \A i \in 1 .. Len(g) : g[i] = IF i <= Len(h) THEN h[i] ELSE r
  OBVIOUS
<1> HIDE DEF g, t
<1>3. /\ e \in Seq(Root)
      /\ Len(e) = Len(g) + Len(t)
      /\ \A i \in 1 .. Len(g) + Len(t) : e[i] = IF i <= Len(g) THEN g[i] ELSE t[i - Len(g)]
  BY <1>1, <1>2
<1> QED
  BY <1>1, <1>2, <1>3 DEF t, g, extended_hashes

-----------------------------------------------------------------------------
(***************************************************************************)
(* The inductive invariant: the properties of StateTransition and what     *)
(* they rest on.  Between two headers the state is at the slot of its      *)
(* latest block, the history holds for each earlier slot the root of this  *)
(* chain's block or the zero hash, genesis is final before the first       *)
(* block, and no vote is cast for a slot the history does not reach.       *)
(***************************************************************************)
ChainInv ==
    /\ slot = header_slot
    /\ Len(historical_block_hashes) = header_slot
    /\ \A s \in 0 .. (header_slot - 1) : historical_block_hashes[s + 1] \in {ZERO, BlockRoot[s]}
    /\ scan_finalized_slot <= latest_finalized.slot
    /\ header_slot = 0 => latest_finalized.slot = 0 /\ latest_justified.slot = 0
    /\ \A s \in Slots : s >= header_slot => cast[s] = {}

IInv ==
    /\ TypeOK
    /\ ChainInv
    /\ WindowCoversChain
    /\ CheckpointsOnChain
    /\ TallyIsExact
    /\ JustifiedBySupermajority

-----------------------------------------------------------------------------
\* What the loop may rely on for a vote that passes is_valid_vote.
LEMMA ValidVote ==
    ASSUME IInv, NEW a \in Attestations, is_valid_vote(a.source, a.target)
    PROVE  /\ a.source \in Checkpoints /\ a.target \in Checkpoints
           /\ a.source.slot < a.target.slot
           /\ a.target.slot < header_slot
           /\ a.target.slot > latest_finalized.slot
           /\ a.target.slot - latest_finalized.slot - 1 < justified_slots.len
           /\ a.source.root = BlockRoot[a.source.slot]
           /\ a.target.root = BlockRoot[a.target.slot]
           /\ checkpoint_exists(a.source) /\ checkpoint_exists(a.target)
           /\ a.source.root # ZERO /\ a.target.root # ZERO
           /\ justified(a.source.slot) /\ ~justified(a.target.slot)
           /\ slot_is_justifiable_after(a.target.slot, latest_finalized.slot)
           /\ votes_of(a.target.root) = cast[a.target.slot]
<1>1. /\ a.source.root \in Root /\ a.source.slot \in Nat
      /\ a.target.root \in Root /\ a.target.slot \in Nat
      /\ a.source = [root |-> a.source.root, slot |-> a.source.slot]
      /\ a.target = [root |-> a.target.root, slot |-> a.target.slot]
  BY AttestationsAssumption
<1>2. /\ justified(a.source.slot) /\ ~justified(a.target.slot)
      /\ a.source.root # ZERO /\ a.target.root # ZERO
      /\ checkpoint_exists(a.source) /\ checkpoint_exists(a.target)
      /\ a.source.slot < a.target.slot
      /\ slot_is_justifiable_after(a.target.slot, latest_finalized.slot)
  BY <1>1 DEF is_valid_vote, justified
<1>3. /\ latest_finalized.slot \in Nat /\ header_slot \in Slots
      /\ Len(historical_block_hashes) = header_slot
      /\ justified_slots.len = IF header_slot = 0 THEN 0
                               ELSE header_slot - 1 - latest_finalized.slot
  BY LimitAssumption DEF IInv, TypeOK, ChainInv, WindowCoversChain, Checkpoints, Slots
<1>4. /\ a.target.slot < header_slot /\ a.source.slot < header_slot
      /\ historical_block_hashes[a.source.slot + 1] = a.source.root
      /\ historical_block_hashes[a.target.slot + 1] = a.target.root
  BY <1>1, <1>2, <1>3, LimitAssumption DEF checkpoint_exists, Slots
<1>5. a.target.slot > latest_finalized.slot
  BY <1>1, <1>2, <1>3 DEF justified, is_slot_justified, has_index
<1>6. a.source.slot \in Slots /\ a.target.slot \in Slots
  BY <1>1, <1>3, <1>4, LimitAssumption DEF Slots
<1>7. a.source \in Checkpoints /\ a.target \in Checkpoints
  BY <1>1, <1>6 DEF Checkpoints
<1>8. /\ a.source.root = BlockRoot[a.source.slot]
      /\ a.target.root = BlockRoot[a.target.slot]
  <2>1. \A s \in 0 .. (header_slot - 1) : historical_block_hashes[s + 1] \in {ZERO, BlockRoot[s]}
    BY DEF IInv, ChainInv
  <2>2. /\ a.source.slot \in 0 .. (header_slot - 1)
        /\ a.target.slot \in 0 .. (header_slot - 1)
    BY <1>1, <1>3, <1>4, LimitAssumption DEF Slots
  <2> QED
    BY <1>2, <1>4, <2>1, <2>2
<1>9. votes_of(a.target.root) = cast[a.target.slot]
  <2>1. a.target.slot \in (latest_finalized.slot + 1) .. (Len(historical_block_hashes) - 1)
    BY <1>1, <1>3, <1>4, <1>5, LimitAssumption DEF Slots
  <2> QED
    BY <1>2, <1>4, <2>1 DEF IInv, TallyIsExact
<1>10. a.target.slot - latest_finalized.slot - 1 < justified_slots.len
  BY <1>1, <1>3, <1>4, <1>5, LimitAssumption DEF Slots
<1> QED
  BY <1>2, <1>4, <1>5, <1>7, <1>8, <1>9, <1>10

\* The numbers of a state.
LEMMA StateNumbers ==
    ASSUME IInv
    PROVE  /\ header_slot \in Slots /\ header_slot \in Nat
           /\ latest_finalized \in Checkpoints /\ latest_finalized.slot \in Nat
           /\ scan_finalized_slot \in Nat /\ scan_finalized_slot <= latest_finalized.slot
           /\ Len(historical_block_hashes) = header_slot
<1>1. /\ header_slot \in Slots /\ latest_finalized \in Checkpoints /\ scan_finalized_slot \in Slots
  BY DEF IInv, TypeOK
<1>2. /\ scan_finalized_slot <= latest_finalized.slot
      /\ Len(historical_block_hashes) = header_slot
  BY DEF IInv, ChainInv
<1> QED
  BY <1>1, <1>2, LimitAssumption DEF Checkpoints, Slots

\* The numbers of a vote that passes is_valid_vote, and the root it is for.
LEMMA VoteNumbers ==
    ASSUME IInv, NEW a \in Attestations, is_valid_vote(a.source, a.target)
    PROVE  /\ a.target.slot \in Slots /\ a.target.slot \in Nat /\ a.source.slot \in Nat
           /\ a.target.root \in Root
           /\ historical_block_hashes[a.target.slot + 1] = a.target.root
<1>1. a.source \in Checkpoints /\ a.target \in Checkpoints
  BY ValidVote
<1>2. checkpoint_exists(a.target)
  BY ValidVote
<1> QED
  BY <1>1, <1>2, LimitAssumption DEF Checkpoints, Slots, checkpoint_exists

(***************************************************************************)
(* A source behind the finalized slot finalizes nothing: the finalized     *)
(* slot lies strictly between source and target and is on the schedule.    *)
(***************************************************************************)
LEMMA SourceNotBehindFinalized ==
    ASSUME IInv, NEW a \in Attestations, is_valid_vote(a.source, a.target),
           can_finalize(a.source, a.target)
    PROVE  a.source.slot >= latest_finalized.slot
<1>1. /\ a.source.slot \in Nat /\ a.target.slot \in Nat
      /\ latest_finalized.slot \in Nat
      /\ a.target.slot > latest_finalized.slot
  BY ValidVote, LimitAssumption DEF IInv, TypeOK, Checkpoints, Slots
<1>2. SUFFICES ASSUME a.source.slot < latest_finalized.slot
               PROVE  FALSE
  BY <1>1
<1>3. latest_finalized.slot \in (a.source.slot + 1) .. (a.target.slot - 1)
  BY <1>1, <1>2
<1>4. ~slot_is_justifiable_after(latest_finalized.slot, latest_finalized.slot)
  BY <1>3 DEF can_finalize
<1> QED
  BY <1>1, <1>4, FinalizedSlotOnSchedule

\* What reaching two thirds does to the window and to the checkpoints.
LEMMA JustifyEffect ==
    ASSUME IInv, NEW a \in Attestations, is_valid_vote(a.source, a.target),
           justify(a.source, a.target)
    PROVE  /\ latest_justified' = a.target
           /\ latest_finalized' = IF can_finalize(a.source, a.target) THEN a.source
                                  ELSE latest_finalized
           /\ latest_finalized'.slot >= latest_finalized.slot
           /\ latest_finalized'.slot < a.target.slot
           /\ justified_slots' \in BitLists
           /\ justified_slots'.len = header_slot - 1 - latest_finalized'.slot
           /\ \A s \in Nat : justified(s)' <=> \/ s <= latest_finalized'.slot
                                               \/ justified(s)
                                               \/ s = a.target.slot
<1> DEFINE f == latest_finalized.slot
           t == a.target.slot
           g == a.source.slot
           w == set_justified(justified_slots, f, t)
<1>1. /\ f \in Nat /\ t \in Nat /\ g \in Nat /\ header_slot \in Nat
      /\ f < t /\ g < t /\ t < header_slot
      /\ t - f - 1 < justified_slots.len
      /\ justified_slots \in BitLists
      /\ justified_slots.len = header_slot - 1 - f
  <2>1. justified_slots \in BitLists
    BY DEF IInv, TypeOK
  <2>2. justified_slots.len = IF header_slot = 0 THEN 0 ELSE header_slot - 1 - f
    BY DEF IInv, WindowCoversChain
  <2> QED
    BY <2>1, <2>2, ValidVote, StateNumbers, VoteNumbers
<1>2. /\ w \in BitLists
      /\ w.len = header_slot - 1 - f
      /\ \A s \in Nat : is_slot_justified(w, f, s) <=> (justified(s) \/ s = t)
  BY <1>1, SetJustified DEF justified
<1>3. latest_justified' = a.target
  BY DEF justify
<1>4. CASE can_finalize(a.source, a.target)
  <2>1. /\ latest_finalized' = a.source
        /\ justified_slots' = shift_window(w, g - f)
    BY <1>4 DEF justify, try_finalize
  <2>2. f <= g
    BY <1>4, <1>1, SourceNotBehindFinalized
  <2> HIDE DEF w, f, g, t
  <2>3. /\ shift_window(w, g - f) \in BitLists
        /\ shift_window(w, g - f).len = header_slot - 1 - g
        /\ \A s \in Nat : s > g => (is_slot_justified(shift_window(w, g - f), g, s)
                                        <=> is_slot_justified(w, f, s))
    <3>1. g - f <= w.len /\ w.len - (g - f) = header_slot - 1 - g
      BY <1>1, <1>2, <2>2
    <3> QED
      BY ZenonT(30), <1>1, <1>2, <2>2, <3>1, ShiftWindow
  <2>4. \A s \in Nat : s <= g => is_slot_justified(shift_window(w, g - f), g, s)
    BY <1>1 DEF is_slot_justified, has_index
  <2>5. \A s \in Nat : justified(s)' <=> s <= g \/ justified(s) \/ s = t
    BY <1>1, <1>2, <2>1, <2>3, <2>4 DEF justified, g
  <2> QED
    BY ZenonT(30), <1>1, <1>3, <1>4, <2>1, <2>2, <2>3, <2>5 DEF f, g, t
<1>5. CASE ~can_finalize(a.source, a.target)
  <2>1. latest_finalized' = latest_finalized /\ justified_slots' = w
    BY <1>5 DEF justify, try_finalize
  <2>2. \A s \in Nat : s <= f => justified(s)
    BY <1>1 DEF justified, is_slot_justified, has_index
  <2>3. \A s \in Nat : justified(s)' <=> s <= f \/ justified(s) \/ s = t
    BY <1>2, <2>1, <2>2 DEF justified
  <2> QED
    BY <1>1, <1>2, <1>3, <1>5, <2>1, <2>3
<1> QED
  BY <1>4, <1>5

-----------------------------------------------------------------------------
(***************************************************************************)
(* Initial states                                                          *)
(***************************************************************************)
LEMMA InitIInv == Init => IInv
<1> SUFFICES ASSUME Init PROVE IInv
  OBVIOUS
<1> USE DEF Init
<1>1. 0 \in Slots
  BY LimitAssumption DEF Slots
<1>2. historical_block_hashes \in Seq(Root) /\ Len(historical_block_hashes) = 0
  OBVIOUS
<1>3. TypeOK
  BY <1>1, <1>2, BlockRootAssumption DEF TypeOK, Checkpoints, BitLists, EmptyBitList
<1>4. ChainInv
  BY <1>1, <1>2 DEF ChainInv
<1>5. \A a \in Attestations : ~is_valid_vote(a.source, a.target)
  BY <1>2, AttestationsAssumption DEF is_valid_vote, checkpoint_exists
<1>6. WindowCoversChain
  BY <1>5 DEF WindowCoversChain, EmptyBitList
<1>7. CheckpointsOnChain
  BY DEF CheckpointsOnChain, justified, is_slot_justified, has_index
<1>8. TallyIsExact
  BY <1>2 DEF TallyIsExact
<1>9. JustifiedBySupermajority
  BY ZenonT(30), LimitAssumption DEF JustifiedBySupermajority, justified, is_slot_justified, has_index,
     relative_index, EmptyBitList, Slots
<1> QED
  BY <1>3, <1>4, <1>6, <1>7, <1>8, <1>9 DEF IInv

-----------------------------------------------------------------------------
(***************************************************************************)
(* A new header                                                            *)
(***************************************************************************)

\* What ProcessBlock does to the history and to the window.
LEMMA HeaderEffect ==
    ASSUME IInv, NEW block \in Blocks, ProcessBlock(block)
    PROVE  /\ block.slot \in Slots /\ block.slot > header_slot
           /\ slot' = block.slot /\ header_slot' = block.slot
           /\ historical_block_hashes' \in Seq(Root)
           /\ Len(historical_block_hashes') = block.slot
           /\ \A s \in 0 .. (header_slot - 1) :
                  historical_block_hashes'[s + 1] = historical_block_hashes[s + 1]
           /\ historical_block_hashes'[header_slot + 1] = BlockRoot[header_slot]
           /\ \A s \in (header_slot + 1) .. (block.slot - 1) :
                  historical_block_hashes'[s + 1] = ZERO
           /\ latest_justified' \in Checkpoints /\ latest_finalized' \in Checkpoints
           /\ latest_justified'.slot = latest_justified.slot
           /\ latest_finalized'.slot = latest_finalized.slot
           /\ header_slot = 0 => /\ latest_justified'.root = BlockRoot[0]
                                 /\ latest_finalized'.root = BlockRoot[0]
           /\ header_slot > 0 => /\ latest_justified' = latest_justified
                                 /\ latest_finalized' = latest_finalized
           /\ justified_slots' \in BitLists
           /\ justified_slots'.len = block.slot - 1 - latest_finalized.slot
           /\ \A s \in Nat : justified(s)' <=> justified(s)
<1> DEFINE h == historical_block_hashes
           p == BlockRoot[header_slot]
           n == block.slot - header_slot - 1
<1>1. /\ block.slot \in Nat
      /\ header_slot \in Nat /\ header_slot \in Slots
      /\ h \in Seq(Root) /\ Len(h) = header_slot
      /\ latest_justified \in Checkpoints /\ latest_finalized \in Checkpoints
      /\ latest_finalized.slot \in Nat
      /\ justified_slots \in BitLists
  BY BlocksAssumption, LimitAssumption DEF IInv, TypeOK, ChainInv, Checkpoints, Slots
<1>2. /\ slot' = block.slot /\ header_slot' = block.slot
      /\ block.slot > header_slot
      /\ Len(h) + 1 + n <= HISTORICAL_ROOTS_LIMIT
      /\ latest_justified' = with_genesis_root(latest_justified, p)
      /\ latest_finalized' = with_genesis_root(latest_finalized, p)
      /\ h' = extended_hashes(p, n)
      /\ justified_slots' = extend_to_slot(justified_slots, latest_finalized.slot, block.slot - 1)
  BY DEF ProcessBlock, process_slots, process_block_header, fits_history
<1>3. block.slot \in Slots /\ n \in Nat
  BY <1>1, <1>2, LimitAssumption DEF Slots
<1>4. p \in Root /\ p # ZERO /\ ZERO \in Root
  BY <1>1, BlockRootAssumption
<1>5. /\ h' \in Seq(Root)
      /\ Len(h') = block.slot
      /\ \A i \in 1 .. Len(h) : h'[i] = h[i]
      /\ h'[Len(h) + 1] = p
      /\ \A i \in (Len(h) + 2) .. block.slot : h'[i] = ZERO
  <2>1. Len(h) + 1 + n = block.slot
    BY <1>1
  <2> HIDE DEF p, n
  <2> DEFINE e == extended_hashes(p, n)
  <2>2. /\ e \in Seq(Root)
        /\ Len(e) = Len(h) + 1 + n
        /\ \A i \in 1 .. Len(h) : e[i] = h[i]
        /\ e[Len(h) + 1] = p
        /\ \A i \in (Len(h) + 2) .. (Len(h) + 1 + n) : e[i] = ZERO
    BY Zenon, <1>1, <1>3, <1>4, ExtendedHashes
  <2> HIDE DEF e
  <2>3. h' = e
    BY <1>2 DEF e
  <2> QED
    BY <2>1, <2>2, <2>3
<1>6. /\ historical_block_hashes' \in Seq(Root)
      /\ Len(historical_block_hashes') = block.slot
      /\ \A s \in 0 .. (header_slot - 1) :
              historical_block_hashes'[s + 1] = historical_block_hashes[s + 1]
      /\ historical_block_hashes'[header_slot + 1] = p
      /\ \A s \in (header_slot + 1) .. (block.slot - 1) :
              historical_block_hashes'[s + 1] = ZERO
  <2>1. \A s \in 0 .. (header_slot - 1) : s + 1 \in 1 .. Len(h)
    BY <1>1
  <2>2. \A s \in (header_slot + 1) .. (block.slot - 1) : s + 1 \in (Len(h) + 2) .. block.slot
    BY <1>1
  <2> QED
    BY ZenonT(30), <1>1, <1>5, <2>1, <2>2
<1>7. /\ latest_justified' \in Checkpoints /\ latest_finalized' \in Checkpoints
      /\ latest_justified'.slot = latest_justified.slot
      /\ latest_finalized'.slot = latest_finalized.slot
      /\ header_slot = 0 => latest_justified'.root = p /\ latest_finalized'.root = p
      /\ header_slot > 0 => /\ latest_justified' = latest_justified
                            /\ latest_finalized' = latest_finalized
  BY <1>1, <1>2, <1>4 DEF with_genesis_root, Checkpoints
<1>8. /\ justified_slots.len = IF header_slot = 0 THEN 0
                               ELSE header_slot - 1 - latest_finalized.slot
      /\ header_slot = 0 => latest_finalized.slot = 0
      /\ block.slot - 1 \in Int
  BY <1>1 DEF IInv, WindowCoversChain, ChainInv
<1>9. /\ justified_slots' \in BitLists
      /\ justified_slots'.len = block.slot - 1 - latest_finalized.slot
      /\ \A s \in Nat : is_slot_justified(justified_slots', latest_finalized.slot, s)
                            <=> is_slot_justified(justified_slots, latest_finalized.slot, s)
  <2> DEFINE w == extend_to_slot(justified_slots, latest_finalized.slot, block.slot - 1)
  <2>1. /\ w \in BitLists
        /\ w.len = IF justified_slots.len < block.slot - 1 - latest_finalized.slot
                   THEN block.slot - 1 - latest_finalized.slot ELSE justified_slots.len
        /\ \A s \in Nat : is_slot_justified(w, latest_finalized.slot, s)
                              <=> is_slot_justified(justified_slots, latest_finalized.slot, s)
    BY Zenon, <1>1, <1>8, ExtendToSlot
  <2>2. justified_slots' = w /\ block.slot > header_slot
    BY <1>2
  <2> HIDE DEF w
  <2> QED
    BY <1>1, <1>8, <2>1, <2>2
<1> QED
  BY ZenonT(30), <1>2, <1>3, <1>6, <1>7, <1>9 DEF justified

\* The roots of the history name their slots.
LEMMA RootsUnique ==
    ASSUME IInv
    PROVE  \A s, u \in 0 .. (header_slot - 1) :
               /\ historical_block_hashes[s + 1] = historical_block_hashes[u + 1]
               /\ historical_block_hashes[s + 1] # ZERO
               => s = u
<1>1. \A s \in 0 .. (header_slot - 1) : s \in Slots
  BY LimitAssumption DEF IInv, TypeOK, Slots
<1>2. \A s \in 0 .. (header_slot - 1) : historical_block_hashes[s + 1] \in {ZERO, BlockRoot[s]}
  BY DEF IInv, ChainInv
<1> QED
  BY <1>1, <1>2, BlockRootAssumption

\* The length of the window alone makes the bit of every valid vote exist.
LEMMA WindowFromLength ==
    /\ TypeOK
    /\ ChainInv
    /\ justified_slots.len = IF header_slot = 0 THEN 0
                             ELSE header_slot - 1 - latest_finalized.slot
    => WindowCoversChain
<1> SUFFICES ASSUME TypeOK, ChainInv,
                    justified_slots.len = IF header_slot = 0 THEN 0
                                          ELSE header_slot - 1 - latest_finalized.slot,
                    NEW a \in Attestations, is_valid_vote(a.source, a.target)
             PROVE  set_justified_in_bounds(justified_slots, latest_finalized.slot,
                                            a.target.slot)
  BY DEF WindowCoversChain
<1>1. a.target.slot \in Nat /\ header_slot \in Nat /\ latest_finalized.slot \in Nat
  BY AttestationsAssumption, LimitAssumption DEF TypeOK, Checkpoints, Slots
<1>2. a.target.slot < header_slot
  BY <1>1 DEF is_valid_vote, checkpoint_exists, ChainInv
<1> QED
  BY <1>1, <1>2 DEF set_justified_in_bounds, has_index, relative_index

\* ProcessBlock: every vote in the map keeps its slot, the new slots have none.
LEMMA HeaderPreserves ==
    ASSUME IInv, NEW block \in Blocks, ProcessBlock(block)
    PROVE  IInv'
<1> DEFINE h == historical_block_hashes
           f == latest_finalized.slot
<1>1. /\ header_slot \in Nat /\ header_slot \in Slots
      /\ f \in Slots /\ f \in Nat
      /\ latest_justified.slot \in Nat
      /\ Len(h) = header_slot
      /\ block.slot \in Nat
      /\ DOMAIN justifications \subseteq Root
      /\ \A r \in DOMAIN justifications : justifications[r] \in SUBSET Validators
      /\ cast \in [Slots -> SUBSET Validators]
      /\ \A s \in 0 .. (header_slot - 1) : h[s + 1] \in {ZERO, BlockRoot[s]}
  BY BlocksAssumption, LimitAssumption DEF IInv, TypeOK, ChainInv, Checkpoints, Slots
<1>2. /\ phase' = "attestations" /\ scan_finalized_slot' = f
      /\ justifications' = justifications /\ cast' = cast
  BY DEF ProcessBlock
<1>3. TypeOK'
  BY ZenonT(30), <1>1, <1>2, HeaderEffect DEF TypeOK
<1>4. ChainInv'
  <2>1. \A s \in 0 .. (block.slot - 1) : h'[s + 1] \in {ZERO, BlockRoot[s]}
    <3> TAKE s \in 0 .. (block.slot - 1)
    <3>1. CASE s < header_slot
      BY <1>1, <3>1, HeaderEffect
    <3>2. CASE s = header_slot
      BY <1>1, <3>2, HeaderEffect
    <3>3. CASE s > header_slot
      BY <1>1, <3>3, HeaderEffect
    <3> QED
      BY <1>1, <3>1, <3>2, <3>3
  <2>2. \A s \in Slots : s >= block.slot => cast[s] = {}
    BY <1>1, HeaderEffect, LimitAssumption DEF IInv, ChainInv, Slots
  <2> QED
    BY <1>1, <1>2, <2>1, <2>2, HeaderEffect DEF ChainInv
<1>5. WindowCoversChain'
  <2>1. (justified_slots.len = IF header_slot = 0 THEN 0
                               ELSE header_slot - 1 - latest_finalized.slot)'
    BY <1>1, HeaderEffect
  <2> QED
    BY <1>3, <1>4, <2>1, WindowFromLength, PTL
<1>6. CheckpointsOnChain'
  <2>1. /\ f <= latest_justified.slot
        /\ justified(latest_justified.slot)
        /\ header_slot > 0 => /\ checkpoint_exists(latest_justified)
                              /\ checkpoint_exists(latest_finalized)
                              /\ latest_justified.root # ZERO
                              /\ latest_finalized.root # ZERO
        /\ header_slot = 0 => f = 0 /\ latest_justified.slot = 0
    BY DEF IInv, CheckpointsOnChain, ChainInv
  <2>2. f <= latest_justified.slot /\ justified(latest_justified.slot)'
    BY ZenonT(30), <1>1, <2>1, HeaderEffect DEF justified
  <2>3. CASE header_slot = 0
    <3>1. BlockRoot[0] # ZERO /\ h'[1] = BlockRoot[0] /\ Len(h') > 0
      BY <1>1, <2>3, HeaderEffect, BlockRootAssumption
    <3> QED
      BY ZenonT(30), <2>1, <2>2, <2>3, <3>1, HeaderEffect DEF CheckpointsOnChain, checkpoint_exists
  <2>4. CASE header_slot > 0
    <3>1. /\ latest_justified.slot \in 0 .. (header_slot - 1)
          /\ f \in 0 .. (header_slot - 1)
          /\ h[latest_justified.slot + 1] = latest_justified.root
          /\ h[f + 1] = latest_finalized.root
      BY <1>1, <2>1, <2>4 DEF checkpoint_exists
    <3>2. /\ h'[latest_justified.slot + 1] = latest_justified.root
          /\ h'[f + 1] = latest_finalized.root
          /\ Len(h') > latest_justified.slot /\ Len(h') > f
          /\ latest_justified' = latest_justified /\ latest_finalized' = latest_finalized
      <4>1. latest_justified.slot < block.slot /\ f < block.slot
        BY <1>1, <3>1, HeaderEffect
      <4> QED
        BY ZenonT(30), <2>4, <3>1, <4>1, HeaderEffect
    <3> QED
      BY ZenonT(30), <2>1, <2>2, <2>4, <3>2 DEF CheckpointsOnChain, checkpoint_exists
  <2> QED
    BY <1>1, <2>3, <2>4
<1>7. TallyIsExact'
  <2>1. ASSUME NEW r \in DOMAIN justifications
        PROVE  /\ r # ZERO
               /\ \E s \in (f + 1) .. (header_slot - 1) : h[s + 1] = r /\ ~justified(s)
    BY ZenonT(30), <1>1 DEF IInv, TallyIsExact
  <2>2. ASSUME NEW r \in DOMAIN justifications
        PROVE  \E s \in (f + 1) .. (block.slot - 1) :
                   h'[s + 1] = r /\ s > f /\ ~justified(s)'
    <3>1. PICK s \in (f + 1) .. (header_slot - 1) : h[s + 1] = r /\ ~justified(s)
      BY <2>1
    <3>2. s \in 0 .. (header_slot - 1) /\ s \in Nat /\ s \in (f + 1) .. (block.slot - 1) /\ s > f
      BY <1>1, <3>1, HeaderEffect
    <3>3. h'[s + 1] = r /\ ~justified(s)'
      BY <3>1, <3>2, HeaderEffect
    <3> QED
      BY <3>2, <3>3
  <2>3. ASSUME NEW s \in (f + 1) .. (block.slot - 1), h'[s + 1] # ZERO, ~justified(s)'
        PROVE  votes_of(h'[s + 1]) = cast[s]
    <3>1. s \in Nat /\ ~justified(s)
      BY <1>1, <2>3, HeaderEffect
    <3>2. CASE s < header_slot
      <4>1. s \in (f + 1) .. (Len(h) - 1) /\ h'[s + 1] = h[s + 1]
        BY <1>1, <3>2, HeaderEffect
      <4> QED
        BY ZenonT(30), <2>3, <3>1, <4>1 DEF IInv, TallyIsExact
    <3>3. CASE s = header_slot
      <4>1. h'[s + 1] = BlockRoot[header_slot]
        BY ZenonT(30), <3>3, HeaderEffect
      <4>2. cast[s] = {}
        BY <1>1, <3>3 DEF IInv, ChainInv
      <4>3. ASSUME BlockRoot[header_slot] \in DOMAIN justifications
            PROVE  FALSE
        <5>1. PICK u \in (f + 1) .. (header_slot - 1) : h[u + 1] = BlockRoot[header_slot]
          BY <2>1, <4>3
        <5>2. u \in 0 .. (header_slot - 1) /\ u \in Slots /\ u # header_slot
          BY <1>1, <5>1, LimitAssumption DEF Slots
        <5>3. BlockRoot[header_slot] # BlockRoot[u] /\ BlockRoot[header_slot] # ZERO
          BY ZenonT(30), <1>1, <5>2, BlockRootAssumption
        <5> QED
          BY <1>1, <5>1, <5>2, <5>3
      <4> QED
        BY ZenonT(30), <4>1, <4>2, <4>3 DEF votes_of
    <3>4. CASE s > header_slot
      BY <1>1, <2>3, <3>4, HeaderEffect
    <3> QED
      BY <1>1, <3>1, <3>2, <3>3, <3>4
  <2>4. \A r : votes_of(r)' = votes_of(r)
    BY <1>2 DEF votes_of
  <2> QED
    BY Zenon, <1>1, <1>2, <2>1, <2>2, <2>3, <2>4, HeaderEffect DEF TallyIsExact, votes_of
<1>8. JustifiedBySupermajority'
  <2>1. \A s \in Slots : justified(s)' <=> justified(s)
    BY HeaderEffect, LimitAssumption DEF Slots
  <2>2. latest_finalized'.slot = f
    BY HeaderEffect
  <2> QED
    BY ZenonT(30), <1>2, <2>1, <2>2 DEF IInv, JustifiedBySupermajority, is_supermajority
<1> QED
  BY ZenonT(30), <1>3, <1>4, <1>5, <1>6, <1>7, <1>8 DEF IInv

-----------------------------------------------------------------------------
(***************************************************************************)
(* One vote of the attestation loop                                        *)
(***************************************************************************)

\* Votes that stay below two thirds are added to their target's entry.
LEMMA RecordPreserves ==
    ASSUME IInv, NEW a \in Attestations, is_valid_vote(a.source, a.target),
           NEW v \in SUBSET Validators,
           justifications' = with_votes(a.target.root, v),
           cast' \in [Slots -> SUBSET Validators],
           \A s \in Slots : cast'[s] = IF s = a.target.slot THEN v ELSE cast[s],
           UNCHANGED <<slot, header_slot, latest_justified, latest_finalized,
                       historical_block_hashes, justified_slots, phase, scan_finalized_slot>>
    PROVE  IInv'
<1> DEFINE h == historical_block_hashes
           f == latest_finalized.slot
           t == a.target.slot
<1>1. /\ t \in Slots /\ t \in Nat /\ f \in Nat /\ header_slot \in Nat
      /\ f < t /\ t < header_slot
      /\ Len(h) = header_slot
      /\ a.target.root \in Root /\ a.target.root # ZERO
      /\ h[t + 1] = a.target.root
      /\ ~justified(t)
      /\ scan_finalized_slot <= f /\ scan_finalized_slot \in Nat
  BY ZenonT(30), ValidVote, StateNumbers, VoteNumbers
<1>2. /\ DOMAIN justifications' = DOMAIN justifications \cup {a.target.root}
      /\ \A r : votes_of(r)' = IF r = a.target.root THEN v ELSE votes_of(r)
      /\ \A r \in DOMAIN justifications' : justifications'[r] = votes_of(r)'
  BY ZenonT(30) DEF with_votes, votes_of
<1>3. \A s : justified(s)' <=> justified(s)
  BY ZenonT(30) DEF justified
<1>4. TypeOK'
  <2>1. \A r \in DOMAIN justifications' : justifications'[r] \in SUBSET Validators
    BY ZenonT(30), <1>2 DEF IInv, TypeOK, votes_of
  <2> QED
    BY ZenonT(30), <1>1, <1>2, <2>1 DEF IInv, TypeOK
<1>5. ChainInv'
  BY <1>1, LimitAssumption DEF IInv, ChainInv, Slots
<1>6. WindowCoversChain'
  <2>1. (justified_slots.len = IF header_slot = 0 THEN 0
                               ELSE header_slot - 1 - latest_finalized.slot)'
    BY DEF IInv, WindowCoversChain
  <2> QED
    BY <1>4, <1>5, <2>1, WindowFromLength, PTL
<1>7. CheckpointsOnChain'
  BY ZenonT(30), <1>3 DEF IInv, CheckpointsOnChain, checkpoint_exists
<1>8. TallyIsExact'
  <2>1. \A r \in DOMAIN justifications' :
            /\ r # ZERO
            /\ \E s \in (f + 1) .. (Len(h) - 1) :
                   h[s + 1] = r /\ s > scan_finalized_slot /\ ~justified(s)
    <3> TAKE r \in DOMAIN justifications'
    <3>1. CASE r \in DOMAIN justifications
      BY ZenonT(30), <3>1 DEF IInv, TallyIsExact
    <3>2. CASE r = a.target.root
      <4>1. t \in (f + 1) .. (Len(h) - 1) /\ t > scan_finalized_slot
        BY <1>1
      <4> QED
        BY ZenonT(30), <1>1, <3>2, <4>1
    <3> QED
      BY <1>2, <3>1, <3>2
  <2>2. ASSUME NEW s \in (f + 1) .. (Len(h) - 1), h[s + 1] # ZERO, ~justified(s)
        PROVE  votes_of(h[s + 1])' = cast'[s]
    <3>1. /\ s \in Slots /\ s \in 0 .. (header_slot - 1) /\ t \in 0 .. (header_slot - 1)
      BY <1>1, LimitAssumption DEF IInv, TypeOK, Slots
    <3>2. votes_of(h[s + 1]) = cast[s]
      BY ZenonT(30), <2>2 DEF IInv, TallyIsExact
    <3>3. h[s + 1] = a.target.root <=> s = t
      BY ZenonT(30), <1>1, <3>1, RootsUnique
    <3>4. votes_of(h[s + 1])' = IF h[s + 1] = a.target.root THEN v ELSE votes_of(h[s + 1])
      BY <1>2 DEF votes_of
    <3> QED
      BY ZenonT(30), <3>1, <3>2, <3>3, <3>4
  <2> QED
    BY ZenonT(30), <1>3, <2>1, <2>2 DEF TallyIsExact
<1>9. JustifiedBySupermajority'
  BY <1>1, <1>3 DEF IInv, JustifiedBySupermajority, is_supermajority
<1> QED
  BY ZenonT(30), <1>4, <1>5, <1>6, <1>7, <1>8, <1>9 DEF IInv

(***************************************************************************)
(* Votes that reach two thirds justify their target, drop its entry, and   *)
(* finalize the source when nothing justifiable lies between; then the     *)
(* entries at or below the new finalized slot are dropped too.             *)
(***************************************************************************)
LEMMA JustifyPreserves ==
    ASSUME IInv, NEW a \in Attestations, is_valid_vote(a.source, a.target),
           justify(a.source, a.target),
           NEW v \in SUBSET Validators, is_supermajority(v),
           cast' \in [Slots -> SUBSET Validators],
           \A s \in Slots : cast'[s] = IF s = a.target.slot THEN v ELSE cast[s],
           UNCHANGED <<slot, header_slot, historical_block_hashes, phase,
                       scan_finalized_slot>>
    PROVE  IInv'
<1> DEFINE h == historical_block_hashes
           f == latest_finalized.slot
           g == latest_finalized'.slot
           t == a.target.slot
           kept(r) == can_finalize(a.source, a.target) => root_above(r, a.source.slot)
<1>1. /\ t \in Slots /\ t \in Nat /\ f \in Nat /\ header_slot \in Nat
      /\ f < t /\ t < header_slot
      /\ Len(h) = header_slot
      /\ a.target \in Checkpoints /\ a.source \in Checkpoints
      /\ a.source.slot \in Nat /\ a.source.slot < t
      /\ a.source.root # ZERO /\ a.target.root # ZERO
      /\ checkpoint_exists(a.source) /\ checkpoint_exists(a.target)
      /\ h[t + 1] = a.target.root
      /\ justified(a.source.slot) /\ ~justified(t)
      /\ scan_finalized_slot <= f /\ scan_finalized_slot \in Nat
      /\ latest_finalized \in Checkpoints
      /\ header_slot \in Slots
  BY ZenonT(30), ValidVote, StateNumbers, VoteNumbers
<1>2. /\ latest_justified' = a.target
      /\ latest_finalized' = IF can_finalize(a.source, a.target) THEN a.source
                             ELSE latest_finalized
      /\ f <= g /\ g < t
      /\ justified_slots' \in BitLists
      /\ justified_slots'.len = header_slot - 1 - g
      /\ \A s \in Nat : justified(s)' <=> s <= g \/ justified(s) \/ s = t
  BY ZenonT(30), JustifyEffect
<1>3. /\ DOMAIN justifications' = {r \in DOMAIN justifications : r # a.target.root /\ kept(r)}
      /\ \A r \in DOMAIN justifications' : justifications'[r] = justifications[r]
  <2> DEFINE votes == [r \in DOMAIN justifications \ {a.target.root} |-> justifications[r]]
  <2>1. CASE can_finalize(a.source, a.target)
    <3>1. justifications' = [r \in {q \in DOMAIN votes : root_above(q, a.source.slot)} |-> votes[r]]
      BY ZenonT(30), <2>1 DEF justify, try_finalize
    <3> HIDE DEF votes
    <3>2. /\ DOMAIN justifications' = {q \in DOMAIN votes : root_above(q, a.source.slot)}
          /\ \A r \in DOMAIN justifications' : justifications'[r] = votes[r]
      BY ZenonT(30), <3>1
    <3> QED
      BY Zenon, <2>1, <3>2 DEF votes
  <2>2. CASE ~can_finalize(a.source, a.target)
    BY ZenonT(30), <2>2 DEF justify, try_finalize
  <2> QED
    BY <2>1, <2>2
<1>4. g \in Nat /\ latest_finalized' \in Checkpoints
  BY ZenonT(30), <1>1, <1>2, LimitAssumption DEF Checkpoints, Slots
\* The order of the slots, all that the arithmetic below needs.
<1>order. /\ f \in Nat /\ g \in Nat /\ t \in Nat /\ header_slot \in Nat /\ scan_finalized_slot \in Nat
       /\ scan_finalized_slot <= f /\ f <= g /\ g < t /\ t < header_slot
       /\ Len(h) = header_slot
  BY ZenonT(30), <1>1, <1>2, <1>4
<1>5. TypeOK'
  <2>1. /\ DOMAIN justifications' \subseteq Root
        /\ \A r \in DOMAIN justifications' : justifications'[r] \in SUBSET Validators
    BY ZenonT(30), <1>3 DEF IInv, TypeOK
  <2> QED
    BY ZenonT(30), <1>1, <1>2, <1>4, <2>1 DEF IInv, TypeOK
<1>6. ChainInv'
  <2>1. scan_finalized_slot <= g /\ header_slot # 0
    BY <1>order
  <2>2. \A s \in Slots : s >= header_slot => cast'[s] = {}
    <3>1. \A s \in Slots : s >= header_slot => cast[s] = {}
      BY DEF IInv, ChainInv
    <3>2. ~(t >= header_slot)
      BY <1>order
    <3> QED
      BY ZenonT(30), <3>1, <3>2
  <2> QED
    BY ZenonT(30), <2>1, <2>2 DEF IInv, ChainInv
<1>7. WindowCoversChain'
  <2>1. (justified_slots.len = IF header_slot = 0 THEN 0
                               ELSE header_slot - 1 - latest_finalized.slot)'
    <3>1. header_slot' = header_slot /\ header_slot # 0
      BY <1>order
    <3>2. justified_slots'.len = header_slot - 1 - g
      BY ZenonT(30), <1>2
    <3> QED
      BY ZenonT(30), <3>1, <3>2
  <2> QED
    BY <1>5, <1>6, <2>1, WindowFromLength, PTL
<1>8. CheckpointsOnChain'
  <2>1. /\ latest_finalized'.root # ZERO /\ checkpoint_exists(latest_finalized)'
    <3>1. latest_finalized.root # ZERO /\ checkpoint_exists(latest_finalized)
      BY <1>1 DEF IInv, CheckpointsOnChain
    <3> QED
      BY ZenonT(30), <1>1, <1>2, <3>1 DEF checkpoint_exists
  <2>2. checkpoint_exists(latest_justified)'
    BY ZenonT(30), <1>1, <1>2 DEF checkpoint_exists
  <2>3. justified(latest_justified.slot)'
    <3>1. justified(t)' /\ latest_justified'.slot = t
      BY ZenonT(30), <1>1, <1>2
    <3> QED
      BY ZenonT(30), <3>1 DEF justified
  <2>4. latest_finalized'.slot <= latest_justified'.slot
    <3>1. latest_justified'.slot = t
      BY ZenonT(30), <1>2
    <3> QED
      BY <1>order, <3>1
  <2>5. latest_justified'.root # ZERO
    BY ZenonT(30), <1>1, <1>2
  <2> QED
    BY ZenonT(30), <2>1, <2>2, <2>3, <2>4, <2>5 DEF CheckpointsOnChain
<1>9. TallyIsExact'
  <2>1. ASSUME NEW r \in DOMAIN justifications'
        PROVE  /\ r # ZERO
               /\ \E s \in (g + 1) .. (Len(h) - 1) :
                      h[s + 1] = r /\ s > scan_finalized_slot /\ ~justified(s)'
    <3>1. PICK s \in (f + 1) .. (Len(h) - 1) :
              h[s + 1] = r /\ s > scan_finalized_slot /\ ~justified(s)
      BY ZenonT(30), <1>3 DEF IInv, TallyIsExact
    <3>2. r # ZERO /\ r # a.target.root /\ kept(r)
      BY ZenonT(30), <1>3 DEF IInv, TallyIsExact
    <3>3. s \in Nat /\ s \in 0 .. (header_slot - 1)
      BY <1>1
    <3>4. s # t
      BY ZenonT(30), <1>1, <3>1, <3>2
    <3>5. s > g
      <4>1. CASE can_finalize(a.source, a.target)
        <5>1. PICK u \in (scan_finalized_slot + 1) .. (Len(h) - 1) :
                  h[u + 1] = r /\ u > a.source.slot
          BY ZenonT(30), <3>2, <4>1 DEF root_above
        <5>2. u \in 0 .. (header_slot - 1)
          BY <1>1
        <5>3. s = u
          BY ZenonT(30), <3>1, <3>2, <3>3, <5>1, <5>2, RootsUnique
        <5> QED
          BY ZenonT(30), <1>2, <4>1, <5>1, <5>3
      <4>2. CASE ~can_finalize(a.source, a.target)
        BY <1>1, <1>2, <4>2
      <4> QED
        BY ZenonT(30), <4>1, <4>2
    <3>6. s \in (g + 1) .. (Len(h) - 1) /\ ~justified(s)'
      <4>1. s \in (g + 1) .. (Len(h) - 1)
        BY <1>order, <3>3, <3>5
      <4>2. ~justified(s)'
        BY <1>2, <1>order, <3>1, <3>3, <3>4, <3>5
      <4> QED
        BY ZenonT(30), <4>1, <4>2
    <3> QED
      BY ZenonT(30), <3>1, <3>2, <3>6
  <2>2. ASSUME NEW s \in (g + 1) .. (Len(h) - 1), h[s + 1] # ZERO, ~justified(s)'
        PROVE  votes_of(h[s + 1])' = cast'[s]
    <3>1. /\ s \in Nat /\ s \in Slots /\ s > g /\ s # t /\ ~justified(s)
          /\ s \in (f + 1) .. (Len(h) - 1)
          /\ s \in 0 .. (header_slot - 1) /\ t \in 0 .. (header_slot - 1)
      <4>1. /\ s \in Nat /\ s \in Slots /\ s > g
            /\ s \in (f + 1) .. (Len(h) - 1)
            /\ s \in 0 .. (header_slot - 1) /\ t \in 0 .. (header_slot - 1)
        <5>1. header_slot <= HISTORICAL_ROOTS_LIMIT
          BY <1>1, LimitAssumption DEF Slots
        <5> QED
          BY <1>order, <5>1, LimitAssumption DEF Slots
      <4>2. s # t /\ ~justified(s)
        BY ZenonT(30), <1>2, <2>2, <4>1
      <4> QED
        BY ZenonT(30), <4>1, <4>2
    <3>2. votes_of(h[s + 1]) = cast[s] /\ cast'[s] = cast[s]
      BY ZenonT(30), <2>2, <3>1 DEF IInv, TallyIsExact
    <3>3. h[s + 1] # a.target.root
      BY ZenonT(30), <1>1, <2>2, <3>1, RootsUnique
    <3>4. kept(h[s + 1])
      <4>1. can_finalize(a.source, a.target) => s > a.source.slot
        BY ZenonT(30), <1>2, <3>1
      <4>2. s \in (scan_finalized_slot + 1) .. (Len(h) - 1)
        BY <1>order, <3>1
      <4> QED
        BY <4>1, <4>2 DEF root_above
    <3>5. votes_of(h[s + 1])' = votes_of(h[s + 1])
      BY ZenonT(30), <1>3, <3>3, <3>4 DEF votes_of
    <3> QED
      BY ZenonT(30), <3>2, <3>5
  <2> QED
    BY ZenonT(30), <2>1, <2>2 DEF TallyIsExact
<1>10. JustifiedBySupermajority'
  <2> SUFFICES ASSUME NEW s \in Slots \ {0},
                      (s > g /\ justified(s)') \/ s = g
               PROVE  is_supermajority(cast'[s])
    BY ZenonT(30) DEF JustifiedBySupermajority, is_supermajority
  <2>1. s \in Nat
    BY LimitAssumption DEF Slots
  <2>2. CASE s = t
    BY ZenonT(30), <2>2
  <2>3. CASE s # t
    <3>1. \/ s > f /\ justified(s)
          \/ s = f
      <4>1. CASE s > g
        BY <1>1, <1>2, <1>4, <2>1, <2>3, <4>1
      <4>2. CASE s = g
        <5>1. g = f \/ justified(g)
          BY ZenonT(30), <1>1, <1>2
        <5> QED
          BY <1>order, <4>2, <5>1
      <4> QED
        BY ZenonT(30), <4>1, <4>2
    <3>2. is_supermajority(cast[s])
      BY ZenonT(30), <3>1 DEF IInv, JustifiedBySupermajority
    <3> QED
      BY ZenonT(30), <2>3, <3>2
  <2> QED
    BY ZenonT(30), <2>2, <2>3
<1> QED
  BY ZenonT(30), <1>5, <1>6, <1>7, <1>8, <1>9, <1>10 DEF IInv

\* The votes an attestation adds to its target, as a set of validators.
LEMMA AddedVotes ==
    ASSUME IInv, NEW a \in Attestations, is_valid_vote(a.source, a.target),
           a.aggregation_bits.len <= N
    PROVE  votes_of(a.target.root) \cup a.aggregation_bits.bits \in SUBSET Validators
<1>1. a.aggregation_bits \in BitLists
  BY AttestationsAssumption
<1>2. a.aggregation_bits.bits \subseteq Validators
  BY <1>1, ValidatorsAssumption DEF BitLists, Validators
<1>3. votes_of(a.target.root) \subseteq Validators
  BY DEF IInv, TypeOK, votes_of
<1> QED
  BY <1>2, <1>3

\* ProcessAttestation: below two thirds the votes are recorded, else justified.
LEMMA AttestationPreserves ==
    ASSUME IInv, NEW a \in Attestations, ProcessAttestation(a)
    PROVE  IInv'
<1> DEFINE v == votes_of(a.target.root) \cup a.aggregation_bits.bits
<1>1. is_valid_vote(a.source, a.target) /\ a.aggregation_bits.len <= N
  BY ZenonT(30) DEF ProcessAttestation
<1>2. v \in SUBSET Validators
  BY ZenonT(30), <1>1, AddedVotes
<1>3. /\ cast' \in [Slots -> SUBSET Validators]
      /\ \A s \in Slots : cast'[s] = IF s = a.target.slot THEN v ELSE cast[s]
  <2>1. cast \in [Slots -> SUBSET Validators] /\ a.target.slot \in Slots
    BY ZenonT(30), <1>1, ValidVote DEF IInv, TypeOK, Checkpoints
  <2>2. votes_of(a.target.root) = cast[a.target.slot]
    BY ZenonT(30), <1>1, ValidVote
  <2>3. cast' = [cast EXCEPT ![a.target.slot] = v]
    BY ZenonT(30), <2>2 DEF ProcessAttestation
  <2> QED
    BY ZenonT(30), <1>2, <2>1, <2>3
<1>4. UNCHANGED <<slot, header_slot, historical_block_hashes, phase, scan_finalized_slot>>
  BY ZenonT(30) DEF ProcessAttestation
<1>5. CASE is_supermajority(v)
  <2>1. justify(a.source, a.target)
    BY ZenonT(30), <1>5 DEF ProcessAttestation
  <2> HIDE DEF v
  <2> QED
    BY ZenonT(30), <1>1, <1>2, <1>3, <1>4, <1>5, <2>1, JustifyPreserves
<1>6. CASE ~is_supermajority(v)
  <2>1. /\ justifications' = with_votes(a.target.root, v)
        /\ UNCHANGED <<latest_justified, latest_finalized, justified_slots>>
    BY <1>6 DEF ProcessAttestation
  <2> HIDE DEF v
  <2> QED
    BY ZenonT(30), <1>1, <1>2, <1>3, <1>4, <2>1, RecordPreserves
<1> QED
  BY ZenonT(30), <1>5, <1>6

\* An attestation with too long a bit list adds an empty set of votes.
LEMMA SkipPreserves ==
    ASSUME IInv, NEW a \in Attestations, SkipOversizedAttestation(a)
    PROVE  IInv'
<1> DEFINE v == votes_of(a.target.root)
<1>1. /\ is_valid_vote(a.source, a.target)
      /\ justifications' = with_votes(a.target.root, v)
      /\ cast' = cast
      /\ UNCHANGED <<slot, header_slot, latest_justified, latest_finalized,
                     historical_block_hashes, justified_slots, phase, scan_finalized_slot>>
  BY ZenonT(30) DEF SkipOversizedAttestation
<1>2. cast \in [Slots -> SUBSET Validators] /\ v = cast[a.target.slot]
  BY <1>1, ValidVote DEF IInv, TypeOK
<1>3. v \in SUBSET Validators
  BY DEF IInv, TypeOK, votes_of
<1>4. \A s \in Slots : cast'[s] = IF s = a.target.slot THEN v ELSE cast[s]
  BY <1>1, <1>2
<1> HIDE DEF v
<1> QED
  BY ZenonT(30), <1>1, <1>2, <1>3, <1>4, RecordPreserves

\* FinishBlock touches only the phase.
LEMMA FinishPreserves ==
    ASSUME IInv, FinishBlock \/ UNCHANGED vars
    PROVE  IInv'
<1>1. UNCHANGED <<slot, header_slot, latest_justified, latest_finalized,
                  historical_block_hashes, justified_slots, justifications,
                  scan_finalized_slot, cast>>
  BY DEF FinishBlock, vars
<1>2. TypeOK'
  BY ZenonT(30), <1>1 DEF IInv, TypeOK, FinishBlock, vars
<1>3. ChainInv'
  BY <1>1 DEF IInv, ChainInv
<1>4. WindowCoversChain'
  <2>1. (justified_slots.len = IF header_slot = 0 THEN 0
                               ELSE header_slot - 1 - latest_finalized.slot)'
    BY ZenonT(30), <1>1 DEF IInv, WindowCoversChain
  <2> QED
    BY <1>2, <1>3, <2>1, WindowFromLength, PTL
<1>5. CheckpointsOnChain'
  BY ZenonT(30), <1>1 DEF IInv, CheckpointsOnChain, checkpoint_exists, justified
<1>6. TallyIsExact'
  BY <1>1 DEF IInv, TallyIsExact, justified, votes_of
<1>7. JustifiedBySupermajority'
  BY <1>1 DEF IInv, JustifiedBySupermajority, is_supermajority, justified
<1> QED
  BY ZenonT(30), <1>2, <1>3, <1>4, <1>5, <1>6, <1>7 DEF IInv

-----------------------------------------------------------------------------
(***************************************************************************)
(* Theorems                                                                *)
(***************************************************************************)

\* Every step of the transition preserves the inductive invariant.
THEOREM StepPreserves == IInv /\ [Next]_vars => IInv'
<1> SUFFICES ASSUME IInv, [Next]_vars PROVE IInv'
  OBVIOUS
<1>1. ASSUME NEW block \in Blocks, ProcessBlock(block) PROVE IInv'
  BY <1>1, HeaderPreserves
<1>2. ASSUME NEW a \in Attestations, ProcessAttestation(a) PROVE IInv'
  BY <1>2, AttestationPreserves
<1>3. ASSUME NEW a \in Attestations, SkipOversizedAttestation(a) PROVE IInv'
  BY <1>3, SkipPreserves
<1>4. CASE FinishBlock \/ UNCHANGED vars
  BY <1>4, FinishPreserves
<1> QED
  BY <1>1, <1>2, <1>3, <1>4 DEF Next

\* The inductive invariant holds of every state a chain of blocks can reach.
THEOREM Invariance == Spec => []IInv
  BY InitIInv, StepPreserves, PTL DEF Spec

\* The state always has its type (struct State and the capacities of its lists).
THEOREM TypeCorrect == Spec => []TypeOK
<1>1. IInv => TypeOK
  BY DEF IInv
<1> QED
  BY <1>1, Invariance, PTL

\* The window of process_block_header and try_finalize covers the chain, so
\* set_justified never indexes out of bounds.
THEOREM WindowTheorem == Spec => []WindowCoversChain
<1>1. IInv => WindowCoversChain
  BY DEF IInv
<1> QED
  BY <1>1, Invariance, PTL

\* The checkpoints of process_attestations stay on the chain and in order.
THEOREM CheckpointsTheorem == Spec => []CheckpointsOnChain
<1>1. IInv => CheckpointsOnChain
  BY DEF IInv
<1> QED
  BY <1>1, Invariance, PTL

\* The pruning of try_finalize loses no vote and keeps no stale one.
THEOREM TallyTheorem == Spec => []TallyIsExact
<1>1. IInv => TallyIsExact
  BY DEF IInv
<1> QED
  BY <1>1, Invariance, PTL

\* Whatever process_attestations justifies or finalizes has two thirds of the votes.
THEOREM SupermajorityTheorem == Spec => []JustifiedBySupermajority
<1>1. IInv => JustifiedBySupermajority
  BY DEF IInv
<1> QED
  BY <1>1, Invariance, PTL

\* No step moves the finalized slot back: every `delta` of try_finalize is >= 0.
THEOREM FinalizedTheorem == Spec => FinalizedNeverRegresses
<1>1. IInv /\ [Next]_vars => latest_finalized'.slot >= latest_finalized.slot
  <2> SUFFICES ASSUME IInv, [Next]_vars
               PROVE  latest_finalized'.slot >= latest_finalized.slot
    OBVIOUS
  <2>1. latest_finalized.slot \in Nat
    BY LimitAssumption DEF IInv, TypeOK, Checkpoints, Slots
  <2>2. ASSUME NEW block \in Blocks, ProcessBlock(block)
        PROVE  latest_finalized'.slot = latest_finalized.slot
    BY ZenonT(30), <2>2, HeaderEffect
  <2>3. ASSUME NEW a \in Attestations, ProcessAttestation(a)
        PROVE  latest_finalized'.slot >= latest_finalized.slot
    <3>1. CASE justify(a.source, a.target)
      BY <2>3, <3>1, JustifyEffect DEF ProcessAttestation
    <3>2. CASE latest_finalized' = latest_finalized
      BY <2>1, <3>2
    <3> QED
      BY ZenonT(30), <2>3, <3>1, <3>2 DEF ProcessAttestation
  <2>4. ASSUME NEW a \in Attestations, SkipOversizedAttestation(a)
        PROVE  latest_finalized' = latest_finalized
    BY <2>4 DEF SkipOversizedAttestation
  <2>5. CASE FinishBlock \/ UNCHANGED vars
    BY <2>1, <2>5 DEF FinishBlock, vars
  <2> QED
    BY <2>1, <2>2, <2>3, <2>4, <2>5 DEF Next
<1> QED
  BY <1>1, Invariance, PTL DEF Spec, FinalizedNeverRegresses

(***************************************************************************)
(* The transition implements Finality: a vote that reaches two thirds is   *)
(* one Justify of the abstract specification, every other step stutters.   *)
(***************************************************************************)
LEMMA JustifyRefines ==
    ASSUME IInv, NEW a \in Attestations, is_valid_vote(a.source, a.target),
           justify(a.source, a.target)
    PROVE  Abstract!Next
<1> DEFINE f == latest_finalized.slot
           g == a.source.slot
           t == a.target.slot
           js == {s \in Slots : justified(s)}
<1>1. /\ g \in Slots /\ t \in Slots /\ g < t
      /\ g \in js /\ t \notin js
      /\ slot_is_justifiable_after(t, f)
  BY ZenonT(30), ValidVote DEF Checkpoints
<1>2. latest_justified'.slot = t
  BY JustifyEffect
<1>3. \A s \in Slots : s \in Nat
  BY LimitAssumption DEF Slots
<1>4. \A s \in Slots : justified(s)' <=> \/ s <= latest_finalized'.slot
                                         \/ justified(s)
                                         \/ s = t
  BY <1>3, JustifyEffect
<1>5. Abstract!Justify(g, t)
  <2>1. can_finalize(a.source, a.target) <=> Abstract!Consecutive(g, t)
    BY ZenonT(30) DEF can_finalize, Abstract!Consecutive, slot_is_justifiable_after,
           Abstract!slot_is_justifiable_after, is_square, Abstract!is_square,
           isqrt, Abstract!isqrt
  <2>2. slot_is_justifiable_after(t, f) <=> Abstract!slot_is_justifiable_after(t, f)
    BY DEF slot_is_justifiable_after, Abstract!slot_is_justifiable_after,
           is_square, Abstract!is_square, isqrt, Abstract!isqrt
  <2>3. CASE can_finalize(a.source, a.target)
    <3>1. latest_finalized' = a.source
      BY ZenonT(30), <2>3, JustifyEffect
    <3>2. {s \in Slots : justified(s)'} = js \cup {t} \cup (0 .. g)
      BY <1>1, <1>3, <1>4, <3>1, LimitAssumption DEF Slots
    <3> QED
      BY ZenonT(30), <1>1, <1>2, <2>1, <2>2, <2>3, <3>1, <3>2 DEF Abstract!Justify, justified
  <2>4. CASE ~can_finalize(a.source, a.target)
    <3>1. latest_finalized' = latest_finalized
      BY ZenonT(30), <2>4, JustifyEffect
    <3>2. \A s \in Slots : s <= f => justified(s)
      BY <1>3, LimitAssumption
         DEF justified, is_slot_justified, has_index, IInv, TypeOK, Checkpoints, Slots
    <3>3. {s \in Slots : justified(s)'} = js \cup {t}
      BY <1>1, <1>4, <3>1, <3>2
    <3> QED
      BY ZenonT(30), <1>1, <1>2, <2>1, <2>2, <2>4, <3>1, <3>3 DEF Abstract!Justify, justified
  <2> QED
    BY ZenonT(30), <2>3, <2>4
<1> QED
  BY ZenonT(30), <1>1, <1>5 DEF Abstract!Next

\* Every step of the transition is a step of Finality or stutters.
LEMMA StepRefines == IInv /\ [Next]_vars => [Abstract!Next]_(Abstract!vars)
<1> SUFFICES ASSUME IInv, [Next]_vars
             PROVE  [Abstract!Next]_(Abstract!vars)
  OBVIOUS
<1>1. ASSUME NEW block \in Blocks, ProcessBlock(block)
      PROVE  UNCHANGED Abstract!vars
  <2>1. \A s \in Slots : s \in Nat
    BY LimitAssumption DEF Slots
  <2>2. /\ \A s \in Slots : justified(s)' <=> justified(s)
        /\ latest_finalized'.slot = latest_finalized.slot
        /\ latest_justified'.slot = latest_justified.slot
    BY ZenonT(30), <1>1, <2>1, HeaderEffect
  <2> QED
    BY <2>2 DEF Abstract!vars, justified
<1>2. ASSUME NEW a \in Attestations, ProcessAttestation(a)
      PROVE  [Abstract!Next]_(Abstract!vars)
  <2>1. CASE justify(a.source, a.target)
    BY <1>2, <2>1, JustifyRefines DEF ProcessAttestation
  <2>2. CASE UNCHANGED <<latest_justified, latest_finalized, justified_slots>>
    BY ZenonT(30), <2>2 DEF Abstract!vars, justified
  <2> QED
    BY ZenonT(30), <1>2, <2>1, <2>2 DEF ProcessAttestation
<1>3. ASSUME NEW a \in Attestations, SkipOversizedAttestation(a)
      PROVE  UNCHANGED Abstract!vars
  BY <1>3 DEF SkipOversizedAttestation, Abstract!vars, justified
<1>4. CASE FinishBlock \/ UNCHANGED vars
  BY <1>4 DEF FinishBlock, vars, Abstract!vars, justified
<1> QED
  BY <1>1, <1>2, <1>3, <1>4 DEF Next

\* The genesis state is an initial state of Finality.
LEMMA InitRefines == Init => Abstract!Init
  BY LimitAssumption
     DEF Init, Abstract!Init, justified, is_slot_justified, has_index, relative_index,
         EmptyBitList, Slots

\* The windowed state machine implements the one over absolute slots.
THEOREM Refinement == Spec => ImplementsFinality
  BY InitRefines, StepRefines, Invariance, PTL DEF Spec, ImplementsFinality, Abstract!Spec

-----------------------------------------------------------------------------
(***************************************************************************)
(* JustificationsCodec.                                                    *)
(***************************************************************************)
\* How many roots of D come before r: its place in the sorted list.
Place(D, r) == Cardinality({q \in D : before(q, r)})

\* The places are those of a list: each below the length, each taken once.
LEMMA Places ==
    ASSUME NEW D \in SUBSET Root, IsFiniteSet(D)
    PROVE  /\ Cardinality(D) \in Nat
           /\ \A r \in D : Place(D, r) \in 0 .. Cardinality(D) - 1
           /\ \A q, r \in D : Place(D, q) = Place(D, r) => q = r
           /\ \A i \in 1 .. Cardinality(D) : \E r \in D : Place(D, r) = i - 1
<1> DEFINE P(r) == {q \in D : before(q, r)}
           size == Cardinality(D)
           T == 0 .. size - 1
           place == [r \in D |-> Cardinality(P(r))]
<1>1. size \in Nat
  BY FS_CardinalityType
<1>2. ASSUME NEW r \in D
      PROVE  IsFiniteSet(P(r)) /\ Cardinality(P(r)) \in T
  <2>1. P(r) \in SUBSET D /\ r \notin P(r)
    BY OrderAssumption
  <2> HIDE DEF P
  <2>2. IsFiniteSet(P(r)) /\ Cardinality(P(r)) <= size /\ size # Cardinality(P(r))
    BY <2>1, FS_Subset
  <2>3. Cardinality(P(r)) \in Nat
    BY <2>2, FS_CardinalityType
  <2> QED
    BY <1>1, <2>2, <2>3
<1>3. ASSUME NEW q \in D, NEW r \in D, before(q, r)
      PROVE  Cardinality(P(q)) # Cardinality(P(r))
  <2>1. P(q) \in SUBSET P(r) /\ q \in P(r) /\ q \notin P(q)
    BY <1>3, OrderAssumption
  <2>2. IsFiniteSet(P(r))
    BY <1>2
  <2> HIDE DEF P
  <2> QED
    BY ZenonT(30), <2>1, <2>2, FS_Subset
<1>4. \A q, r \in D : q # r => before(q, r) \/ before(r, q)
  BY OrderAssumption
<1>5. place \in Injection(D, T)
  <2>1. place \in [D -> T]
    BY ZenonT(30), <1>2
  <2>2. \A q, r \in D : place[q] = place[r] => q = r
    BY <1>3, <1>4
  <2> HIDE DEF place
  <2> QED
    BY ZenonT(30), <2>1, <2>2 DEF Injection, IsInjective
<1>6. IsFiniteSet(T) /\ Cardinality(T) = size
  <2> HIDE DEF size
  <2>1. size - 1 \in Int /\ 0 \in Int
    BY <1>1
  <2>2. IsFiniteSet(T) /\ Cardinality(T) = IF 0 > size - 1 THEN 0 ELSE (size - 1) - 0 + 1
    BY <2>1, FS_Interval
  <2> QED
    BY <1>1, <2>2
<1>7. \A r \in D : place[r] = Place(D, r)
  BY ZenonT(30) DEF Place
<1> HIDE DEF place, T
<1>8. place \in Surjection(D, T)
  BY ZenonT(30), <1>5, <1>6, FS_Injection DEF size
<1>9. \A i \in 1 .. size : \E r \in D : place[r] = i - 1
  <2>1. \A i \in 1 .. size : i - 1 \in T
    BY <1>1 DEF T
  <2> QED
    BY <1>8, <2>1 DEF Surjection
<1>10. \A r \in D : place[r] \in T
  BY <1>8 DEF Surjection
<1>11. \A q, r \in D : place[q] = place[r] => q = r
  BY ZenonT(30), <1>5 DEF Injection, IsInjective
<1> QED
  BY ZenonT(30), <1>1, <1>7, <1>9, <1>10, <1>11 DEF T

\* The sorted list holds every root once.
LEMMA SortedRoots ==
    ASSUME NEW D \in SUBSET Root, IsFiniteSet(D)
    PROVE  /\ sorted(D) \in Seq(D) /\ Len(sorted(D)) = Cardinality(D)
           /\ DOMAIN sorted(D) = 1 .. Cardinality(D) /\ Cardinality(D) \in Nat
           /\ \A i, j \in 1 .. Cardinality(D) : sorted(D)[i] = sorted(D)[j] => i = j
           /\ \A r \in D : \E i \in 1 .. Cardinality(D) : sorted(D)[i] = r
<1> DEFINE nth(i) == CHOOSE r \in D : Place(D, r) = i - 1
<1>1. \A i \in 1 .. Cardinality(D) : nth(i) \in D /\ Place(D, nth(i)) = i - 1
  BY Places
<1>2. sorted(D) = [i \in 1 .. Cardinality(D) |-> nth(i)]
  BY DEF sorted, Place
<1> HIDE DEF nth
<1>3. Cardinality(D) \in Nat
  BY Places
<1>4. sorted(D) \in Seq(D) /\ Len(sorted(D)) = Cardinality(D)
  BY <1>1, <1>2, <1>3
<1>5. ASSUME NEW i \in 1 .. Cardinality(D), NEW j \in 1 .. Cardinality(D), nth(i) = nth(j)
      PROVE  i = j
  <2>1. i - 1 = j - 1
    BY ZenonT(30), <1>1, <1>5
  <2> QED
    BY <2>1
<1>6. ASSUME NEW r \in D PROVE \E i \in 1 .. Cardinality(D) : nth(i) = r
  <2>1. Place(D, r) \in 0 .. Cardinality(D) - 1
    BY Places
  <2>2. PICK i \in 1 .. Cardinality(D) : Place(D, r) = i - 1
    BY <1>3, <2>1
  <2>3. nth(i) \in D /\ Place(D, nth(i)) = Place(D, r)
    BY ZenonT(30), <1>1, <2>2
  <2> QED
    BY <2>3, Places
<1> QED
  BY <1>2, <1>3, <1>4, <1>5, <1>6

\* N bits for each root do not overlap and fill the list.
LEMMA FlatIndex ==
    ASSUME NEW c \in Nat, NEW i \in 1 .. c, NEW j \in 1 .. c,
           NEW v \in Validators, NEW w \in Validators
    PROVE  /\ flat_index(i, v) \in Nat /\ c * N \in Nat
           /\ flat_index(i, v) < c * N
           /\ flat_index(i, v) = flat_index(j, w) => i = j /\ v = w
<1>1. N \in Nat /\ v \in Nat /\ v < N /\ w \in Nat /\ w < N
  BY ValidatorsAssumption DEF Validators
<1>2. \A a, b \in Nat : a < b => a * N + N <= b * N
  <2> SUFFICES ASSUME NEW a \in Nat, NEW b \in Nat, a < b PROVE a * N + N <= b * N
    OBVIOUS
  <2>1. PICK d \in Nat : b = a + 1 + d
    <3>1. b - a - 1 \in Nat /\ b = a + 1 + (b - a - 1)
      OBVIOUS
    <3> QED
      BY <3>1
  <2>2. b * N = a * N + N + d * N
    BY <1>1, <2>1
  <2>3. d * N \in Nat /\ a * N \in Nat
    BY <1>1
  <2> QED
    BY <1>1, <2>2, <2>3
<1>3. i - 1 \in Nat /\ j - 1 \in Nat /\ i - 1 < c /\ j - 1 < c
  OBVIOUS
<1>4. (i - 1) * N \in Nat /\ (j - 1) * N \in Nat /\ c * N \in Nat
  BY <1>1, <1>3
<1>5. (i - 1) * N + N <= c * N
  BY ZenonT(30), <1>2, <1>3
<1>6. ASSUME (i - 1) * N + v = (j - 1) * N + w PROVE i = j /\ v = w
  <2>1. ~(i - 1 < j - 1)
    BY <1>1, <1>2, <1>3, <1>4, <1>6
  <2>2. ~(j - 1 < i - 1)
    BY <1>1, <1>2, <1>3, <1>4, <1>6
  <2>3. i = j
    BY <2>1, <2>2
  <2> QED
    BY <1>1, <1>4, <1>6, <2>3
<1> QED
  BY <1>1, <1>4, <1>5, <1>6 DEF flat_index

\* serialize_justifications and the start of process_attestations are inverse.
LEMMA RoundTrip ==
    ASSUME NEW D \in SUBSET Root, IsFiniteSet(D), NEW votes \in [D -> SUBSET Validators]
    PROVE  LET lists == serialize_justifications(votes)
           IN  /\ lists.justifications_validators \in BitLists
               /\ deserialize_justifications(lists) = votes
<1> DEFINE roots == sorted(DOMAIN votes)
           c == Cardinality(D)
           bits == UNION {{flat_index(i, v) : v \in votes[roots[i]]} : i \in 1 .. c}
           chunk(i) == {v \in Validators : i * N + v \in bits}
           index(r) == CHOOSE i \in 1 .. c : roots[i] = r
<1>1. /\ roots \in Seq(D) /\ Len(roots) = c
      /\ DOMAIN roots = 1 .. c /\ c \in Nat
      /\ \A i, j \in 1 .. c : roots[i] = roots[j] => i = j
      /\ \A r \in D : \E i \in 1 .. c : roots[i] = r
  <2>1. D = DOMAIN votes
    OBVIOUS
  <2> QED
    BY ZenonT(30), <2>1, SortedRoots
<1>2. \A i \in 1 .. c : roots[i] \in D /\ votes[roots[i]] \in SUBSET Validators
  BY <1>1
<1>3. serialize_justifications(votes) =
          [justifications_roots |-> roots,
           justifications_validators |-> [len |-> c * N, bits |-> bits]]
  <2>3. DOMAIN roots = 1 .. c /\ Len(roots) = c
    BY ZenonT(30), <1>1
  <2>4. serialize_justifications(votes) =
            [justifications_roots |-> roots,
             justifications_validators |->
                [len  |-> Len(roots) * N,
                 bits |-> UNION {{flat_index(i, v) : v \in votes[roots[i]]} : i \in DOMAIN roots}]]
    BY ZenonT(30) DEF serialize_justifications
  <2> HIDE DEF roots, c
  <2>5. UNION {{flat_index(i, v) : v \in votes[roots[i]]} : i \in DOMAIN roots} = bits
    BY ZenonT(30), <2>3
  <2> HIDE DEF bits
  <2> QED
    BY ZenonT(30), <2>3, <2>4, <2>5
<1>4. [len |-> c * N, bits |-> bits] \in BitLists
  <2>1. ASSUME NEW b \in bits PROVE b \in Nat /\ b < c * N
    <3>1. PICK i \in 1 .. c : b \in {flat_index(i, v) : v \in votes[roots[i]]}
      OBVIOUS
    <3>2. PICK v \in votes[roots[i]] : b = flat_index(i, v)
      BY <3>1
    <3>3. v \in Validators
      BY ZenonT(30), <1>2, <3>2
    <3> QED
      BY ZenonT(30), <1>1, <3>2, <3>3, FlatIndex
  <2> HIDE DEF bits
  <2>2. c * N \in Nat
    BY <1>1, ValidatorsAssumption
  <2> QED
    BY ZenonT(30), <2>1, <2>2 DEF BitLists
<1>5. ASSUME NEW r \in D PROVE chunk(index(r) - 1) = votes[r]
  <2>1. index(r) \in 1 .. c /\ roots[index(r)] = r
    BY <1>1
  <2> DEFINE k == index(r)
  <2> HIDE DEF index, roots, c, bits
  <2>2. ASSUME NEW v \in Validators PROVE (k - 1) * N + v \in bits <=> v \in votes[r]
    <3>1. ASSUME v \in votes[r] PROVE flat_index(k, v) \in bits
      BY <2>1, <3>1 DEF bits
    <3>2. ASSUME flat_index(k, v) \in bits PROVE v \in votes[r]
      <4>1. PICK i \in 1 .. c : flat_index(k, v) \in {flat_index(i, w) : w \in votes[roots[i]]}
        BY <3>2 DEF bits
      <4>2. PICK w \in votes[roots[i]] : flat_index(k, v) = flat_index(i, w)
        BY ZenonT(30), <4>1
      <4>3. w \in Validators
        BY ZenonT(30), <1>2, <4>2
      <4>4. i = k /\ v = w
        BY <1>1, <2>1, <4>2, <4>3, FlatIndex
      <4> QED
        BY ZenonT(30), <2>1, <4>2, <4>4
    <3> QED
      BY ZenonT(30), <3>1, <3>2 DEF flat_index
  <2> QED
    BY ZenonT(30), <2>2
<1>6. deserialize_justifications(serialize_justifications(votes)) =
          [r \in {roots[i] : i \in 1 .. c} |-> chunk(index(r) - 1)]
  <2> DEFINE lists == serialize_justifications(votes)
  <2> HIDE DEF bits, roots, c
  <2>1. lists.justifications_roots = roots /\ lists.justifications_validators.bits = bits
    BY <1>3
  <2> HIDE DEF lists
  <2>2. DOMAIN roots = 1 .. c
    BY ZenonT(30), <1>1
  <2>3. deserialize_justifications(lists) =
            [r \in {roots[i] : i \in 1 .. c} |-> chunk(index(r) - 1)]
    BY ZenonT(30), <2>1, <2>2 DEF deserialize_justifications
  <2> QED
    BY ZenonT(30), <2>3 DEF lists
<1>7. {roots[i] : i \in 1 .. c} = D
  BY <1>1, <1>2
<1> HIDE DEF bits, roots, c, chunk, index
<1>8. deserialize_justifications(serialize_justifications(votes)) = votes
  BY ZenonT(30), <1>5, <1>6, <1>7
<1> QED
  BY <1>3, <1>4, <1>8

\* The votes are a function, on the finitely many roots of the chain.
VotesAreAMap == justifications = [r \in DOMAIN justifications |-> justifications[r]]

LEMMA VotesStayAMap ==
    /\ Init => VotesAreAMap
    /\ VotesAreAMap /\ [Next]_vars => VotesAreAMap'
<1>1. Init => VotesAreAMap
  BY DEF Init, VotesAreAMap
<1>2. ASSUME VotesAreAMap, [Next]_vars PROVE VotesAreAMap'
  <2>1. CASE UNCHANGED justifications
    BY ZenonT(30), <1>2, <2>1 DEF VotesAreAMap
  <2>2. ASSUME NEW a \in Attestations, ProcessAttestation(a) PROVE VotesAreAMap'
    <3>1. CASE is_supermajority(votes_of(a.target.root) \cup a.aggregation_bits.bits)
      BY ZenonT(30), <2>2, <3>1 DEF ProcessAttestation, justify, try_finalize, VotesAreAMap
    <3>2. CASE ~is_supermajority(votes_of(a.target.root) \cup a.aggregation_bits.bits)
      BY ZenonT(30), <2>2, <3>2 DEF ProcessAttestation, with_votes, VotesAreAMap
    <3> QED
      BY ZenonT(30), <3>1, <3>2
  <2>3. ASSUME NEW a \in Attestations, SkipOversizedAttestation(a) PROVE VotesAreAMap'
    BY <2>3 DEF SkipOversizedAttestation, with_votes, VotesAreAMap
  <2> QED
    BY ZenonT(30), <1>2, <2>1, <2>2, <2>3 DEF Next, vars, ProcessBlock, FinishBlock
<1> QED
  BY ZenonT(30), <1>1, <1>2

LEMMA TallyIsFinite ==
    ASSUME IInv
    PROVE  IsFiniteSet(DOMAIN justifications)
<1> DEFINE h == historical_block_hashes
           n == Len(h)
           S == {h[i] : i \in 1 .. n}
<1>1. n \in Nat /\ h \in Seq(Root) /\ latest_finalized.slot \in Nat
  BY LimitAssumption DEF IInv, TypeOK, Checkpoints, Slots
<1>2. ASSUME NEW r \in DOMAIN justifications PROVE r \in S
  <2>1. PICK s \in (latest_finalized.slot + 1) .. (n - 1) : h[s + 1] = r
    BY ZenonT(30) DEF IInv, TallyIsExact
  <2>2. s + 1 \in 1 .. n
    BY <1>1, <2>1
  <2> QED
    BY ZenonT(30), <2>1, <2>2
<1>3. IsFiniteSet(S)
  <2>1. IsFiniteSet(1 .. n)
    BY <1>1, FS_Interval
  <2> DEFINE f == [i \in 1 .. n |-> h[i]]
  <2>2. f \in [1 .. n -> S] /\ \A x \in S : \E i \in 1 .. n : f[i] = x
    OBVIOUS
  <2>3. f \in Surjection(1 .. n, S)
    BY <2>2 DEF Surjection
  <2> HIDE DEF f, S, n
  <2> QED
    BY ZenonT(30), <2>1, <2>3, FS_Surjection
<1> QED
  BY ZenonT(30), <1>2, <1>3, FS_Subset

(***************************************************************************)
(* For any number of validators and any tally that blocks build up, what   *)
(* serialize_justifications writes at the end of a block is read back      *)
(* unchanged by process_attestations of the next one.                      *)
(***************************************************************************)
THEOREM VotesSurviveTheorem == Spec => []VotesSurviveBlocks
<1>1. IInv /\ VotesAreAMap => VotesSurviveBlocks
  <2> SUFFICES ASSUME IInv, VotesAreAMap PROVE VotesSurviveBlocks
    BY ZenonT(30)
  <2> DEFINE D == DOMAIN justifications
  <2>1. D \in SUBSET Root /\ \A r \in D : justifications[r] \in SUBSET Validators
    BY DEF IInv, TypeOK
  <2>2. IsFiniteSet(D)
    BY TallyIsFinite
  <2>3. justifications \in [D -> SUBSET Validators]
    BY <2>1 DEF VotesAreAMap
  <2> HIDE DEF D
  <2> QED
    BY ZenonT(30), <2>1, <2>2, <2>3, RoundTrip DEF VotesSurviveBlocks
<1> QED
  BY <1>1, VotesStayAMap, Invariance, PTL DEF Spec
=============================================================================
