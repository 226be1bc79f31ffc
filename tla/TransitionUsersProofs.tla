----------------------- MODULE TransitionUsersProofs ------------------------
(***************************************************************************)
(* Proofs about the nodes that use the state transition: one that joins    *)
(* from the finalized state of another (CheckpointSync), and the proposer  *)
(* that runs it on candidate blocks (BlockBuilding).                       *)
(***************************************************************************)
EXTENDS StateTransitionProofs, CheckpointSync, BlockBuilding, FiniteSetTheorems

USE SMTT(30), ZenonT(30)

\* A finite set of numbers has a greatest one.  (Inclusion is well founded on finite
\* sets; the least of the sets {k \in S : k >= m} belongs to the greatest m.)
LEMMA GreatestMember ==
    ASSUME NEW S \in SUBSET Nat, IsFiniteSet(S), S # {}
    PROVE  \E m \in S : \A k \in S : k <= m
<1> DEFINE R == StrictSubsetOrdering(Nat)
           above(m) == {k \in S : k >= m}
           T == {above(m) : m \in S}
<1>1. IsWellFoundedOn(R, FiniteSubsetsOf(Nat))
  BY ZenonT(30), FS_StrictSubsetOrderingWellFounded
<1>2. ASSUME NEW m \in S PROVE above(m) \in FiniteSubsetsOf(Nat)
  <2>1. IsFiniteSet(above(m))
    BY ZenonT(30), FS_Subset
  <2> QED
    BY ZenonT(30), <2>1 DEF FiniteSubsetsOf
<1> HIDE DEF above
<1>3. T \subseteq FiniteSubsetsOf(Nat) /\ T # {}
  BY ZenonT(30), <1>2
<1> HIDE DEF R
<1>4. PICK X \in T : \A Y \in T : ~(<<Y, X>> \in R)
  BY ZenonT(30), <1>1, <1>3, WFMin
<1>5. PICK m \in S : X = above(m)
  BY ZenonT(30), <1>4
<1>6. ASSUME NEW k \in S, k > m PROVE FALSE
  <2>1. above(k) \subseteq above(m) /\ m \in above(m) /\ m \notin above(k)
    <3>1. m \in Nat /\ k \in Nat /\ k > m /\ m \in S /\ ~(m >= k) /\ m >= m
      BY <1>6
    <3>2. \A j \in S : j >= k => j >= m
      BY <3>1
    <3> QED
      BY ZenonT(30), <3>1, <3>2 DEF above
  <2>2. above(m) \subseteq Nat
    BY ZenonT(30) DEF above
  <2>3. <<above(k), above(m)>> \in R
    BY ZenonT(30), <2>1, <2>2 DEF R, StrictSubsetOrdering
  <2> QED
    BY ZenonT(30), <1>4, <1>5, <2>3
<1> QED
  BY <1>6

-----------------------------------------------------------------------------
(***************************************************************************)
(* The inductive invariant of CheckpointSync.  A row holds the post-state  *)
(* of the block at its slot: it differs from the state that is served only *)
(* in the state root of its header, its checkpoints are blocks of the      *)
(* chain below it, and it carries the configuration of the network.        *)
(***************************************************************************)
RowInv(s) ==
    LET row == rows[s]
        served == with_state_root(row, zero_root)
    IN  /\ stored(served) = row
        /\ served.slot = s
        /\ served.config = network.genesis_time
        /\ served.validators = network.validators
        /\ served.latest_block_header.slot = s
        /\ served.latest_justified = row.latest_justified
        /\ served.latest_finalized = row.latest_finalized
        /\ row.latest_block_header.slot = s
        /\ row.latest_justified.slot \in Nat /\ row.latest_finalized.slot \in Nat
        /\ row.latest_finalized.slot <= row.latest_justified.slot
        /\ s = 0 => row.latest_justified.slot = 0
        /\ s > 0 => /\ row.latest_justified.slot < s
                    /\ row.latest_justified = anchor_checkpoint(row.latest_justified.slot)
                    /\ row.latest_finalized = anchor_checkpoint(row.latest_finalized.slot)

\* Between two blocks every block of the chain has its row, the latest included.
RowsOfChain ==
    /\ DOMAIN rows \subseteq 0 .. header_slot
    /\ 0 \in DOMAIN rows
    /\ phase = "idle" <=> header_slot \in DOMAIN rows
    /\ \A s \in 0 .. (header_slot - 1) : historical_block_hashes[s + 1] # ZERO => s \in DOMAIN rows
    /\ \A s \in DOMAIN rows : RowInv(s)

\* The checkpoints of the serving node are the highest of its rows.
OwnCheckpoints ==
    /\ own_justified = anchor_checkpoint(own_justified.slot)
    /\ own_finalized = anchor_checkpoint(own_finalized.slot)
    /\ \E t \in DOMAIN rows : rows[t].latest_justified.slot = own_justified.slot
    /\ \E t \in DOMAIN rows : rows[t].latest_finalized.slot = own_finalized.slot
    /\ own_finalized.slot \in DOMAIN rows
    /\ \A t \in DOMAIN rows : /\ rows[t].latest_justified.slot <= own_justified.slot
                              /\ rows[t].latest_finalized.slot <= own_finalized.slot

\* A joining node whose head is the block at slot h is at least as far as the rows
\* up to h, and no further than the serving node.
Joined(h) ==
    /\ head = BlockRoot[h]
    /\ store_justified = anchor_checkpoint(store_justified.slot)
    /\ store_finalized = anchor_checkpoint(store_finalized.slot)
    /\ store_justified.slot \in Nat /\ store_finalized.slot \in Nat
    /\ store_justified.slot <= own_justified.slot
    /\ store_finalized.slot <= own_finalized.slot
    /\ \A t \in DOMAIN rows :
           t <= h => /\ rows[t].latest_justified.slot <= store_justified.slot
                     /\ rows[t].latest_finalized.slot <= store_finalized.slot

JoinInv ==
    /\ node \in {"down", "running", "exited"}
    /\ node # "running" => states = EmptyMap
    /\ node = "running" => \E h \in DOMAIN rows \ {0} : Joined(h)

SyncInv ==
    /\ IInv
    /\ network \in Networks
    /\ RowsOfChain
    /\ OwnCheckpoints
    /\ JoinInv
    /\ AcceptsOwnNetworkOnly
    /\ JoinsTheChain

-----------------------------------------------------------------------------
\* Storing a state and clearing its state root again gives the state back.
LEMMA CurrentRow ==
    LET row == stored(CurrentState)
    IN  /\ with_state_root(row, zero_root) = CurrentState
        /\ row.latest_block_header.slot = header_slot
        /\ row.latest_justified = latest_justified
        /\ row.latest_finalized = latest_finalized
<1> DEFINE cs == CurrentState
           row(root) == [config |-> cs.config,
                         validators |-> cs.validators,
                         slot |-> cs.slot,
                         latest_block_header |-> [slot |-> header_slot, state_root |-> root],
                         latest_justified |-> latest_justified,
                         latest_finalized |-> latest_finalized,
                         historical_block_hashes |-> cs.historical_block_hashes,
                         justified_slots |-> cs.justified_slots,
                         justifications |-> cs.justifications]
<1>1. row(zero_root) = cs
  BY DEF CurrentState
<1>2. ASSUME NEW q, NEW root PROVE with_state_root(row(q), root) = row(root)
  BY DEF with_state_root
<1>3. stored(cs) = row(<<cs>>)
  <2>1. state_root_of(cs) = <<cs>>
    <3> HIDE DEF cs
    <3> QED
      BY ZenonT(30), <1>1, <1>2 DEF state_root_of
  <2> HIDE DEF cs, row
  <2> QED
    BY ZenonT(30), <1>1, <1>2, <2>1 DEF stored
<1>4. with_state_root(stored(cs), zero_root) = cs
  <2> HIDE DEF cs, row
  <2> QED
    BY ZenonT(30), <1>1, <1>2, <1>3
<1> QED
  <2> HIDE DEF cs
  <2>1. /\ row(<<cs>>).latest_block_header.slot = header_slot
        /\ row(<<cs>>).latest_justified = latest_justified
        /\ row(<<cs>>).latest_finalized = latest_finalized
    OBVIOUS
  <2> HIDE DEF row
  <2> QED
    BY ZenonT(30), <1>3, <1>4, <2>1 DEF cs

\* The checkpoints of the transition are blocks of the chain.
LEMMA CheckpointsOfChain ==
    ASSUME IInv, header_slot > 0
    PROVE  /\ latest_justified = anchor_checkpoint(latest_justified.slot)
           /\ latest_finalized = anchor_checkpoint(latest_finalized.slot)
           /\ latest_justified.slot \in Nat /\ latest_justified.slot < header_slot
           /\ latest_finalized.slot \in Nat /\ latest_finalized.slot < header_slot
           /\ latest_finalized.slot <= latest_justified.slot
           /\ historical_block_hashes[latest_finalized.slot + 1] # ZERO
<1>1. /\ latest_justified \in Checkpoints /\ latest_finalized \in Checkpoints
      /\ latest_finalized.slot <= latest_justified.slot
      /\ checkpoint_exists(latest_justified) /\ checkpoint_exists(latest_finalized)
      /\ latest_justified.root # ZERO /\ latest_finalized.root # ZERO
  BY DEF IInv, TypeOK, CheckpointsOnChain
<1>2. header_slot \in Nat /\ Len(historical_block_hashes) = header_slot
  BY ZenonT(30), StateNumbers
<1>3. ASSUME NEW c \in Checkpoints, checkpoint_exists(c), c.root # ZERO
      PROVE  /\ c = anchor_checkpoint(c.slot)
             /\ c.slot \in Nat /\ c.slot < header_slot
             /\ historical_block_hashes[c.slot + 1] = c.root
  <2>1. c.slot \in Nat /\ c.slot < header_slot
    BY <1>2, <1>3, LimitAssumption DEF Checkpoints, Slots, checkpoint_exists
  <2>2. historical_block_hashes[c.slot + 1] = c.root
    BY ZenonT(30), <1>3 DEF checkpoint_exists
  <2>3. c.slot \in 0 .. (header_slot - 1)
    BY <1>2, <2>1
  <2>4. historical_block_hashes[c.slot + 1] \in {ZERO, BlockRoot[c.slot]}
    BY ZenonT(30), <2>3 DEF IInv, ChainInv
  <2>5. c.root = BlockRoot[c.slot]
    BY ZenonT(30), <1>3, <2>2, <2>4
  <2>6. c = [root |-> c.root, slot |-> c.slot]
    BY DEF Checkpoints
  <2> QED
    BY ZenonT(30), <2>1, <2>2, <2>5, <2>6 DEF anchor_checkpoint
<1> QED
  BY ZenonT(30), <1>1, <1>3

\* The steps of the two nodes are steps of the transition, or leave it alone.
LEMMA SyncStepsTransition ==
    ASSUME SyncInv, [SyncNext]_sync_vars
    PROVE  IInv'
<1>1. [Next]_vars
  BY ZenonT(30) DEF SyncNext, sync_vars, Next, Transition, ImportOwn, DownloadFails, RefuseState,
       SyncFromCheckpoint, RestartNode, ImportNext
<1> QED
  BY ZenonT(30), <1>1, StepPreserves DEF SyncInv

\* What depends on the tables alone stays with them.
LEMMA TablesUnchanged ==
    ASSUME SyncInv, UNCHANGED <<serving_vars, joining_vars>>
    PROVE  /\ network' \in Networks
           /\ \A s \in DOMAIN rows' : RowInv(s)'
           /\ OwnCheckpoints'
           /\ JoinInv'
           /\ AcceptsOwnNetworkOnly'
           /\ JoinsTheChain'
<1>1. /\ network' = network /\ rows' = rows /\ own_justified' = own_justified
      /\ own_finalized' = own_finalized /\ node' = node /\ refused' = refused
      /\ states' = states /\ head' = head /\ store_justified' = store_justified
      /\ store_finalized' = store_finalized
  BY DEF serving_vars, joining_vars
<1>2. \A s \in DOMAIN rows' : RowInv(s)'
  BY ZenonT(30), <1>1 DEF SyncInv, RowsOfChain, RowInv
<1>3. OwnCheckpoints'
  BY ZenonT(30), <1>1 DEF SyncInv, OwnCheckpoints
<1>4. JoinInv'
  BY ZenonT(30), <1>1 DEF SyncInv, JoinInv, Joined
<1> QED
  BY ZenonT(30), <1>1, <1>2, <1>3, <1>4 DEF SyncInv, AcceptsOwnNetworkOnly, JoinsTheChain

LEMMA SyncTransition ==
    ASSUME SyncInv, Transition
    PROVE  SyncInv'
<1>1. IInv'
  BY ZenonT(30), SyncStepsTransition DEF SyncNext
<1>2. UNCHANGED <<serving_vars, joining_vars>> /\ rows' = rows
  BY DEF Transition, serving_vars
<1>3. \A s \in DOMAIN rows' : RowInv(s)'
  BY ZenonT(30), <1>2, TablesUnchanged
<1>4. RowsOfChain'
  <2>1. /\ header_slot \in Nat
        /\ DOMAIN rows \subseteq 0 .. header_slot
        /\ 0 \in DOMAIN rows
        /\ phase = "idle" <=> header_slot \in DOMAIN rows
        /\ \A s \in 0 .. (header_slot - 1) :
               historical_block_hashes[s + 1] # ZERO => s \in DOMAIN rows
    BY ZenonT(30), StateNumbers DEF SyncInv, RowsOfChain
  <2>2. ASSUME NEW block \in Blocks, ProcessBlock(block) PROVE RowsOfChain'
    <3>1. /\ block.slot \in Slots /\ block.slot > header_slot /\ header_slot' = block.slot
          /\ \A s \in 0 .. (header_slot - 1) :
                 historical_block_hashes'[s + 1] = historical_block_hashes[s + 1]
          /\ \A s \in (header_slot + 1) .. (block.slot - 1) :
                 historical_block_hashes'[s + 1] = ZERO
      BY ZenonT(30), <2>2, HeaderEffect DEF SyncInv
    <3>2. block.slot \in Nat
      BY <3>1, LimitAssumption DEF Slots
    <3>3. phase = "idle" /\ phase' = "attestations"
      BY ZenonT(30), <2>2 DEF ProcessBlock
    <3>4. \A s \in 0 .. (header_slot' - 1) :
              historical_block_hashes'[s + 1] # ZERO => s \in DOMAIN rows
      <4> SUFFICES ASSUME NEW s \in 0 .. (block.slot - 1), historical_block_hashes'[s + 1] # ZERO
                   PROVE  s \in DOMAIN rows
        BY ZenonT(30), <3>1
      <4>1. CASE s < header_slot
        BY <2>1, <3>1, <3>2, <4>1
      <4>2. CASE s = header_slot
        BY ZenonT(30), <2>1, <3>3, <4>2
      <4>3. CASE s > header_slot
        <5>1. s \in (header_slot + 1) .. (block.slot - 1)
          BY <2>1, <3>2, <4>3
        <5> QED
          BY ZenonT(30), <3>1, <5>1
      <4> QED
        BY <2>1, <3>2, <4>1, <4>2, <4>3
    <3>5. DOMAIN rows \subseteq 0 .. block.slot /\ block.slot \notin DOMAIN rows
      BY <2>1, <3>1, <3>2
    <3> QED
      BY ZenonT(30), <1>2, <1>3, <2>1, <3>1, <3>3, <3>4, <3>5 DEF RowsOfChain
  <2>3. ASSUME UNCHANGED <<header_slot, historical_block_hashes, phase>> PROVE RowsOfChain'
    BY ZenonT(30), <1>2, <1>3, <2>1, <2>3 DEF RowsOfChain
  <2> QED
    BY ZenonT(30), <2>2, <2>3 DEF Transition, ProcessAttestation, SkipOversizedAttestation
<1> QED
  BY ZenonT(30), <1>1, <1>2, <1>4, TablesUnchanged DEF SyncInv

\* on_block of the serving node: the post-state gets its row, and the checkpoints follow.
LEMMA SyncImportOwn ==
    ASSUME SyncInv, ImportOwn
    PROVE  SyncInv'
<1> DEFINE h == header_slot
           row == stored(CurrentState)
<1>1. IInv'
  BY ZenonT(30), SyncStepsTransition DEF SyncNext
<1>2. /\ IInv
      /\ RowsOfChain
      /\ h \in Nat /\ slot = h
      /\ phase = "attestations" /\ h \notin DOMAIN rows /\ h > 0
  <2>1. IInv /\ RowsOfChain /\ phase = "attestations"
    BY DEF SyncInv, ImportOwn, FinishBlock
  <2>2. h \in Nat /\ slot = h
    BY ZenonT(30), <2>1, StateNumbers DEF IInv, ChainInv
  <2>3. h \notin DOMAIN rows /\ h # 0
    BY ZenonT(30), <2>1 DEF RowsOfChain
  <2> QED
    BY <2>1, <2>2, <2>3
<1>3. /\ DOMAIN rows' = DOMAIN rows \cup {h}
      /\ rows'[h] = row
      /\ \A t \in DOMAIN rows : rows'[t] = rows[t]
  <2>1. rows' = Put(rows, h, row)
    BY ZenonT(30), <1>2 DEF ImportOwn
  <2> HIDE DEF row, h
  <2> QED
    BY ZenonT(30), <1>2, <2>1 DEF Put
<1>4. /\ UNCHANGED <<header_slot, historical_block_hashes>>
      /\ UNCHANGED <<network, node, refused, states, head, store_justified, store_finalized>>
      /\ phase' = "idle"
      /\ own_justified' = later(own_justified, latest_justified)
      /\ own_finalized' = later(own_finalized, latest_finalized)
  BY DEF ImportOwn, FinishBlock, joining_vars
<1>5. /\ latest_justified = anchor_checkpoint(latest_justified.slot)
      /\ latest_finalized = anchor_checkpoint(latest_finalized.slot)
      /\ latest_justified.slot \in Nat /\ latest_justified.slot < h
      /\ latest_finalized.slot \in Nat /\ latest_finalized.slot < h
      /\ latest_finalized.slot <= latest_justified.slot
      /\ historical_block_hashes[latest_finalized.slot + 1] # ZERO
  BY ZenonT(30), <1>2, CheckpointsOfChain
<1>6. /\ with_state_root(row, zero_root) = CurrentState
      /\ row.latest_block_header.slot = h
      /\ row.latest_justified = latest_justified
      /\ row.latest_finalized = latest_finalized
  BY ZenonT(30), CurrentRow
<1>7. /\ CurrentState.slot = h
      /\ CurrentState.config = network.genesis_time
      /\ CurrentState.validators = network.validators
      /\ CurrentState.latest_block_header.slot = h
      /\ CurrentState.latest_justified = latest_justified
      /\ CurrentState.latest_finalized = latest_finalized
  BY ZenonT(30), <1>2 DEF CurrentState
<1>8. ASSUME NEW t, t = h PROVE RowInv(t)'
  <2>1. stored(with_state_root(row, zero_root)) = row
    BY ZenonT(30), <1>6
  <2> HIDE DEF row, h
  <2>2. rows'[t] = row /\ network' = network /\ t > 0 /\ t # 0 /\ t \in Nat
    BY <1>2, <1>3, <1>4, <1>8
  <2>3. /\ row.latest_justified.slot \in Nat /\ row.latest_finalized.slot \in Nat
        /\ row.latest_finalized.slot <= row.latest_justified.slot
        /\ row.latest_justified.slot < t
        /\ row.latest_justified = anchor_checkpoint(row.latest_justified.slot)
        /\ row.latest_finalized = anchor_checkpoint(row.latest_finalized.slot)
    BY ZenonT(30), <1>5, <1>6, <1>8
  <2>4. LET served == with_state_root(row, zero_root)
        IN  /\ served.slot = t
            /\ served.config = network.genesis_time
            /\ served.validators = network.validators
            /\ served.latest_block_header.slot = t
            /\ served.latest_justified = row.latest_justified
            /\ served.latest_finalized = row.latest_finalized
            /\ row.latest_block_header.slot = t
    BY ZenonT(30), <1>6, <1>7, <1>8
  <2> QED
    BY ZenonT(30), <2>1, <2>2, <2>3, <2>4 DEF RowInv
<1> HIDE DEF row
<1>9. ASSUME NEW t \in DOMAIN rows PROVE RowInv(t)'
  BY ZenonT(90), <1>2, <1>3, <1>4, <1>9 DEF RowInv, RowsOfChain
<1>10. RowsOfChain'
  <2>1. DOMAIN rows' \subseteq 0 .. header_slot' /\ 0 \in DOMAIN rows' /\ header_slot' \in DOMAIN rows'
    BY <1>2, <1>3, <1>4 DEF RowsOfChain
  <2>2. \A s \in 0 .. (header_slot' - 1) : historical_block_hashes'[s + 1] # ZERO => s \in DOMAIN rows'
    BY ZenonT(30), <1>2, <1>3, <1>4 DEF RowsOfChain
  <2>3. \A t \in DOMAIN rows' : RowInv(t)'
    BY ZenonT(30), <1>3, <1>8, <1>9
  <2> QED
    BY ZenonT(30), <1>4, <2>1, <2>2, <2>3 DEF RowsOfChain
<1>11. /\ own_justified.slot \in Nat /\ own_finalized.slot \in Nat
       /\ own_justified'.slot \in Nat /\ own_finalized'.slot \in Nat
       /\ own_justified'.slot >= own_justified.slot /\ own_justified'.slot >= latest_justified.slot
       /\ own_finalized'.slot >= own_finalized.slot /\ own_finalized'.slot >= latest_finalized.slot
       /\ own_justified' \in {own_justified, latest_justified}
       /\ own_finalized' \in {own_finalized, latest_finalized}
  <2>1. \A t \in DOMAIN rows : rows[t].latest_justified.slot \in Nat /\ rows[t].latest_finalized.slot \in Nat
    BY <1>2 DEF RowsOfChain, RowInv
  <2>2. own_justified.slot \in Nat /\ own_finalized.slot \in Nat
    BY <2>1 DEF SyncInv, OwnCheckpoints
  <2> QED
    BY <1>4, <1>5, <2>2 DEF later
<1>12. OwnCheckpoints'
  <2>1. OwnCheckpoints
    BY DEF SyncInv
  <2>2. /\ own_justified' = anchor_checkpoint(own_justified'.slot)
        /\ own_finalized' = anchor_checkpoint(own_finalized'.slot)
    BY ZenonT(30), <1>5, <1>11, <2>1 DEF OwnCheckpoints
  <2>3. \E t \in DOMAIN rows' : rows'[t].latest_justified.slot = own_justified'.slot
    <3>1. CASE own_justified' = own_justified
      BY ZenonT(30), <1>3, <2>1, <3>1 DEF OwnCheckpoints
    <3>2. CASE own_justified' = latest_justified
      BY ZenonT(30), <1>3, <1>6, <3>2
    <3> QED
      BY <1>11, <3>1, <3>2
  <2>4. \E t \in DOMAIN rows' : rows'[t].latest_finalized.slot = own_finalized'.slot
    <3>1. CASE own_finalized' = own_finalized
      BY ZenonT(30), <1>3, <2>1, <3>1 DEF OwnCheckpoints
    <3>2. CASE own_finalized' = latest_finalized
      BY ZenonT(30), <1>3, <1>6, <3>2
    <3> QED
      BY ZenonT(30), <1>11, <3>1, <3>2
  <2>5. own_finalized'.slot \in DOMAIN rows'
    <3>1. latest_finalized.slot \in DOMAIN rows
      BY <1>2, <1>5 DEF RowsOfChain
    <3> QED
      BY ZenonT(30), <1>3, <1>11, <2>1, <3>1 DEF OwnCheckpoints
  <2>6. ASSUME NEW t \in DOMAIN rows'
        PROVE  /\ rows'[t].latest_justified.slot <= own_justified'.slot
               /\ rows'[t].latest_finalized.slot <= own_finalized'.slot
    <3>1. CASE t = h
      BY ZenonT(30), <1>3, <1>5, <1>6, <1>11, <3>1
    <3>2. CASE t \in DOMAIN rows
      <4>1. /\ rows[t].latest_justified.slot \in Nat /\ rows[t].latest_finalized.slot \in Nat
        BY ZenonT(30), <1>2, <3>2 DEF RowsOfChain, RowInv
      <4>2. /\ rows[t].latest_justified.slot <= own_justified.slot
            /\ rows[t].latest_finalized.slot <= own_finalized.slot
        BY ZenonT(30), <2>1, <3>2 DEF OwnCheckpoints
      <4> QED
        BY <1>3, <1>11, <3>2, <4>1, <4>2
    <3> QED
      BY ZenonT(30), <1>3, <3>1, <3>2
  <2> QED
    BY <2>2, <2>3, <2>4, <2>5, <2>6 DEF OwnCheckpoints
<1>13. JoinInv'
  <2>1. ASSUME NEW g \in DOMAIN rows \ {0}, Joined(g) PROVE g \in DOMAIN rows' \ {0} /\ Joined(g)'
    <3>1. g <= h /\ g # h /\ g \in Nat
      BY <1>2 DEF RowsOfChain
    <3>2. \A t \in DOMAIN rows' : t <= g => t \in DOMAIN rows
      BY <1>2, <1>3, <3>1
    <3>3. /\ store_justified.slot <= own_justified'.slot
          /\ store_finalized.slot <= own_finalized'.slot
      BY <1>11, <2>1 DEF Joined
    <3>4. \A t \in DOMAIN rows' :
              t <= g => /\ rows'[t].latest_justified.slot <= store_justified.slot
                        /\ rows'[t].latest_finalized.slot <= store_finalized.slot
      BY ZenonT(30), <1>3, <2>1, <3>2 DEF Joined
    <3> QED
      BY ZenonT(30), <1>3, <1>4, <2>1, <3>3, <3>4 DEF Joined
  <2> QED
    BY ZenonT(30), <1>4, <2>1 DEF JoinInv, SyncInv
<1>14. AcceptsOwnNetworkOnly'
  BY ZenonT(30), <1>4 DEF SyncInv, AcceptsOwnNetworkOnly
<1>15. JoinsTheChain'
  <2>1. ASSUME NEW r, \E s \in DOMAIN rows \ {0} : BlockRoot[s] = r /\ states[r] = rows[s]
        PROVE  \E s \in DOMAIN rows' \ {0} : BlockRoot[s] = r /\ states[r] = rows'[s]
    BY ZenonT(30), <1>3, <2>1
  <2> QED
    BY ZenonT(90), <1>4, <2>1 DEF SyncInv, JoinsTheChain
<1> QED
  BY ZenonT(30), <1>1, <1>4, <1>10, <1>12, <1>13, <1>14, <1>15 DEF SyncInv

-----------------------------------------------------------------------------
\* The serving node answers with a row of its chain.
LEMMA ServedRow ==
    ASSUME SyncInv
    PROVE  LET f == own_finalized.slot
           IN  /\ f \in DOMAIN rows /\ f \in Slots /\ f \in Nat
               /\ served_state = with_state_root(rows[f], zero_root)
               /\ RowInv(f)
               /\ own_justified.slot \in Nat /\ f <= own_justified.slot
<1>1. RowsOfChain /\ OwnCheckpoints /\ header_slot \in Slots /\ header_slot \in Nat
  BY StateNumbers DEF SyncInv
<1>2. own_finalized.slot \in DOMAIN rows /\ RowInv(own_finalized.slot)
  BY ZenonT(30), <1>1 DEF OwnCheckpoints, RowsOfChain
<1>3. own_finalized.slot \in Slots /\ own_finalized.slot \in Nat
  BY <1>1, <1>2, LimitAssumption DEF RowsOfChain, Slots
<1>4. own_justified.slot \in Nat /\ own_finalized.slot <= own_justified.slot
  <2>1. PICK t \in DOMAIN rows : rows[t].latest_finalized.slot = own_finalized.slot
    BY <1>1 DEF OwnCheckpoints
  <2>2. rows[t].latest_justified.slot <= own_justified.slot
    BY <1>1 DEF OwnCheckpoints
  <2>3. /\ rows[t].latest_finalized.slot <= rows[t].latest_justified.slot
        /\ rows[t].latest_justified.slot \in Nat
    BY <1>1 DEF RowsOfChain, RowInv
  <2>4. \E u \in DOMAIN rows : rows[u].latest_justified.slot = own_justified.slot
    BY <1>1 DEF OwnCheckpoints
  <2>5. own_justified.slot \in Nat
    BY <1>1, <2>4 DEF RowsOfChain, RowInv
  <2> QED
    BY <1>3, <2>1, <2>2, <2>3, <2>5
<1> QED
  BY ZenonT(30), <1>2, <1>3, <1>4 DEF served_state

\* verify_checkpoint_state accepts a finalized state of the network, except genesis ...
LEMMA AcceptsOwn ==
    ASSUME SyncInv, network = Genesis, served_state.slot # 0
    PROVE  verify_checkpoint_state(served_state, Genesis)
<1> DEFINE f == own_finalized.slot
           st == served_state
<1>1. f \in DOMAIN rows /\ f \in Nat /\ RowInv(f) /\ st = with_state_root(rows[f], zero_root)
  BY ServedRow
<1>2. /\ st.slot = f
      /\ st.config = Genesis.genesis_time
      /\ st.validators = Genesis.validators
      /\ st.latest_block_header.slot = f
      /\ st.latest_justified.slot \in Nat /\ st.latest_finalized.slot \in Nat
      /\ st.latest_finalized.slot <= st.latest_justified.slot
      /\ f > 0 => /\ st.latest_justified.slot < f
                  /\ st.latest_justified = anchor_checkpoint(st.latest_justified.slot)
                  /\ st.latest_finalized = anchor_checkpoint(st.latest_finalized.slot)
  BY ZenonT(30), <1>1 DEF RowInv
<1> HIDE DEF f, st
<1>3. f > 0
  BY <1>1, <1>2 DEF st
<1>4. /\ Genesis.validators # <<>>
      /\ \A i \in DOMAIN Genesis.validators : Genesis.validators[i].index = i - 1
  BY GenesisAssumption
<1>5. validators_match(st.validators, Genesis.validators)
  BY ZenonT(30), <1>2, <1>4 DEF validators_match
<1>6. st.latest_justified.slot = st.latest_finalized.slot
          => st.latest_justified.root = st.latest_finalized.root
  BY ZenonT(30), <1>2, <1>3
<1>7. /\ header_agrees(st.latest_block_header, st.latest_finalized)
      /\ header_agrees(st.latest_block_header, st.latest_justified)
  BY <1>1, <1>2, <1>3 DEF header_agrees
<1>8. verify_checkpoint_state(st, Genesis)
  BY <1>1, <1>2, <1>3, <1>4, <1>5, <1>6, <1>7 DEF verify_checkpoint_state
<1> QED
  BY <1>8 DEF st

\* ... and no state of another network.
LEMMA RefusesOthers ==
    ASSUME SyncInv, verify_checkpoint_state(served_state, Genesis)
    PROVE  network = Genesis
<1>1. /\ served_state.config = network.genesis_time
      /\ served_state.validators = network.validators
  BY ServedRow, ZenonT(30) DEF RowInv
<1>2. /\ network.genesis_time = Genesis.genesis_time
      /\ validators_match(network.validators, Genesis.validators)
  BY ZenonT(30), <1>1 DEF verify_checkpoint_state
<1>3. network \in Networks /\ Genesis \in Networks
  BY ZenonT(30), GenesisAssumption DEF SyncInv
<1> DEFINE V == [index : Nat, pubkey : Keys]
           v == network.validators
           w == Genesis.validators
<1>4. /\ network \in [genesis_time : Nat, validators : Seq(V)]
      /\ Genesis \in [genesis_time : Nat, validators : Seq(V)]
      /\ \A i \in DOMAIN w : w[i].index = i - 1
  BY ZenonT(30), <1>3, GenesisAssumption
<1>5. v \in Seq(V) /\ w \in Seq(V)
  BY ZenonT(30), <1>4
<1>6. /\ Len(v) = Len(w)
      /\ \A i \in DOMAIN v : v[i].index = i - 1 /\ v[i].pubkey = w[i].pubkey
  BY ZenonT(30), <1>2 DEF validators_match
<1> HIDE DEF v, w, V
<1>7. ASSUME NEW i \in 1 .. Len(v) PROVE v[i] = w[i]
  <2>1. v[i] \in V /\ w[i] \in V
    BY <1>5, <1>6
  <2>2. i \in DOMAIN v /\ i \in DOMAIN w
    BY <1>5, <1>6
  <2>3. v[i].index = w[i].index /\ v[i].pubkey = w[i].pubkey
    BY ZenonT(30), <1>4, <1>6, <2>2 DEF w
  <2> QED
    BY <2>1, <2>3 DEF V
<1>8. v = w
  <2>1. v \in [1 .. Len(v) -> V] /\ w \in [1 .. Len(v) -> V]
    BY <1>5, <1>6
  <2> QED
    BY <1>7, <2>1
<1>9. /\ network = [genesis_time |-> network.genesis_time, validators |-> v]
      /\ Genesis = [genesis_time |-> Genesis.genesis_time, validators |-> w]
  BY ZenonT(30), <1>4 DEF v, w
<1> QED
  BY ZenonT(30), <1>2, <1>8, <1>9

-----------------------------------------------------------------------------
\* Steps after which the joining node does not run.
LEMMA SyncNotRunning ==
    ASSUME SyncInv, node # "running", node' \in {"down", "exited"},
           refused' # -1 => refused' = 0 \/ network # Genesis,
           UNCHANGED <<vars, serving_vars, states, head, store_justified, store_finalized>>
    PROVE  SyncInv'
<1>1. IInv'
  <2>1. UNCHANGED vars
    BY ZenonT(30)
  <2> QED
    BY ZenonT(30), <2>1, StepPreserves DEF SyncInv
<1>2. /\ network' = network /\ rows' = rows /\ own_justified' = own_justified
      /\ own_finalized' = own_finalized /\ states' = states
      /\ header_slot' = header_slot /\ phase' = phase
      /\ historical_block_hashes' = historical_block_hashes
  BY ZenonT(30) DEF vars, serving_vars
<1>3. RowsOfChain'
  BY ZenonT(30), <1>2 DEF SyncInv, RowsOfChain, RowInv
<1>4. OwnCheckpoints'
  BY ZenonT(30), <1>2 DEF SyncInv, OwnCheckpoints
<1>5. node' # "running" /\ node' \in {"down", "running", "exited"}
  OBVIOUS
<1>6. JoinInv'
  BY ZenonT(30), <1>2, <1>5 DEF SyncInv, JoinInv
<1> QED
  BY ZenonT(30), <1>1, <1>2, <1>3, <1>4, <1>5, <1>6 DEF SyncInv, AcceptsOwnNetworkOnly, JoinsTheChain

\* init_store puts the anchor where the serving node has it.
LEMMA SyncJoin ==
    ASSUME SyncInv, SyncFromCheckpoint
    PROVE  SyncInv'
<1> DEFINE f == own_finalized.slot
           st == served_state
<1>1. IInv'
  BY ZenonT(30), SyncStepsTransition DEF SyncNext
<1>2. /\ network' = network /\ rows' = rows /\ own_justified' = own_justified
      /\ own_finalized' = own_finalized
      /\ header_slot' = header_slot /\ phase' = phase
      /\ historical_block_hashes' = historical_block_hashes
      /\ node = "down" /\ node' = "running" /\ refused' = -1
      /\ verify_checkpoint_state(st, Genesis) /\ init_store(st)
  BY ZenonT(30) DEF SyncFromCheckpoint, vars, serving_vars
<1>3. /\ f \in DOMAIN rows /\ f \in Slots /\ f \in Nat
      /\ st = with_state_root(rows[f], zero_root)
      /\ RowInv(f)
      /\ own_justified.slot \in Nat /\ f <= own_justified.slot
  BY ZenonT(30), ServedRow
<1>4. network = Genesis
  BY ZenonT(30), <1>2, RefusesOthers
<1>5. /\ st.slot = f /\ st.latest_block_header.slot = f
      /\ stored(st) = rows[f] /\ rows[f].latest_block_header.slot = f
  BY ZenonT(30), <1>3 DEF RowInv
<1>6. f # 0
  BY ZenonT(30), <1>2, <1>5 DEF verify_checkpoint_state
<1>7. header_root(rows[f].latest_block_header) = BlockRoot[f]
  BY ZenonT(30), <1>3, <1>5 DEF header_root
<1> HIDE DEF f, st
<1>8. /\ states' = Put(states, BlockRoot[f], rows[f])
      /\ head' = BlockRoot[f]
      /\ store_justified' = anchor_checkpoint(f)
      /\ store_finalized' = anchor_checkpoint(f)
  BY ZenonT(30), <1>2, <1>5, <1>7 DEF init_store, anchor_checkpoint
<1>9. states = EmptyMap
  BY ZenonT(30), <1>2 DEF SyncInv, JoinInv
<1>10. DOMAIN states' = {BlockRoot[f]} /\ states'[BlockRoot[f]] = rows[f]
  BY ZenonT(30), <1>8, <1>9 DEF Put, EmptyMap
<1>11. RowsOfChain'
  BY ZenonT(30), <1>2 DEF SyncInv, RowsOfChain, RowInv
<1>12. OwnCheckpoints'
  BY ZenonT(30), <1>2 DEF SyncInv, OwnCheckpoints
<1>13. /\ store_justified'.slot = f /\ store_finalized'.slot = f
       /\ store_justified' = anchor_checkpoint(store_justified'.slot)
       /\ store_finalized' = anchor_checkpoint(store_finalized'.slot)
  BY <1>8 DEF anchor_checkpoint
<1>14. ASSUME NEW t \in DOMAIN rows, t <= f
       PROVE  rows[t].latest_justified.slot <= f /\ rows[t].latest_finalized.slot <= f
  <2>1. RowInv(t) /\ t \in Nat
    BY StateNumbers DEF SyncInv, RowsOfChain
  <2>2. /\ rows[t].latest_justified.slot \in Nat /\ rows[t].latest_finalized.slot \in Nat
        /\ rows[t].latest_finalized.slot <= rows[t].latest_justified.slot
        /\ t = 0 => rows[t].latest_justified.slot = 0
        /\ t > 0 => rows[t].latest_justified.slot < t
    BY ZenonT(30), <2>1 DEF RowInv
  <2> QED
    BY <1>3, <1>14, <2>1, <2>2
<1>15. ASSUME NEW h, h = f PROVE Joined(h)'
  <2>1. head' = BlockRoot[h]
    BY ZenonT(30), <1>8, <1>15
  <2>2. /\ store_justified'.slot \in Nat /\ store_finalized'.slot \in Nat
        /\ store_justified'.slot <= own_justified'.slot
        /\ store_finalized'.slot <= own_finalized'.slot
    BY <1>2, <1>3, <1>13 DEF f
  <2>3. \A t \in DOMAIN rows' :
            t <= h => /\ rows'[t].latest_justified.slot <= store_justified'.slot
                      /\ rows'[t].latest_finalized.slot <= store_finalized'.slot
    BY ZenonT(30), <1>2, <1>13, <1>14, <1>15
  <2> QED
    BY ZenonT(30), <1>13, <2>1, <2>2, <2>3 DEF Joined
<1>16. f \in DOMAIN rows' \ {0}
  BY ZenonT(30), <1>2, <1>3, <1>6
<1>17. JoinInv'
  BY ZenonT(30), <1>2, <1>15, <1>16 DEF JoinInv
<1>18. JoinsTheChain'
  BY ZenonT(30), <1>2, <1>8, <1>10, <1>16 DEF JoinsTheChain
<1>19. AcceptsOwnNetworkOnly'
  BY ZenonT(30), <1>2, <1>4 DEF AcceptsOwnNetworkOnly
<1> QED
  BY ZenonT(30), <1>1, <1>2, <1>11, <1>12, <1>17, <1>18, <1>19 DEF SyncInv

-----------------------------------------------------------------------------
\* Every block past genesis has a parent: the latest row below it.
LEMMA ParentRow ==
    ASSUME SyncInv, NEW s \in DOMAIN rows \ {0}
    PROVE  /\ parent_slot(s) \in DOMAIN rows
           /\ parent_slot(s) < s
           /\ \A q \in DOMAIN rows : q < s => q <= parent_slot(s)
<1> DEFINE S == {p \in DOMAIN rows : p < s}
<1>1. DOMAIN rows \subseteq Nat /\ 0 \in DOMAIN rows
  BY StateNumbers DEF SyncInv, RowsOfChain
<1>2. S \in SUBSET Nat /\ S # {} /\ s \in Nat /\ S \subseteq 0 .. s
  BY <1>1
<1> HIDE DEF S
<1>3. PICK m \in S : \A k \in S : k <= m
  <2>1. IsFiniteSet(0 .. s)
    BY <1>2, FS_Interval
  <2>2. IsFiniteSet(S)
    BY ZenonT(30), <1>2, <2>1, FS_Subset
  <2> QED
    BY ZenonT(30), <1>2, <2>2, GreatestMember
<1>4. m \in DOMAIN rows /\ m < s /\ \A q \in DOMAIN rows : q < s => q <= m
  BY ZenonT(30), <1>3 DEF S
<1> QED
  BY ZenonT(30), <1>4 DEF parent_slot

\* The next block of the joining node has the post-state that the serving node has.
LEMMA SyncImportNext ==
    ASSUME SyncInv, NEW s \in Slots, ImportNext(s)
    PROVE  SyncInv'
<1> DEFINE p == parent_slot(s)
           row == rows[s]
<1>1. IInv'
  BY ZenonT(30), SyncStepsTransition DEF SyncNext
<1>2. /\ network' = network /\ rows' = rows /\ own_justified' = own_justified
      /\ own_finalized' = own_finalized
      /\ header_slot' = header_slot /\ phase' = phase
      /\ historical_block_hashes' = historical_block_hashes
      /\ node = "running" /\ node' = node /\ refused' = refused
      /\ s \in DOMAIN rows \ {0}
      /\ head = BlockRoot[p] /\ head' = BlockRoot[s]
      /\ states' = Put(states, BlockRoot[s], row)
      /\ store_justified' = later(store_justified, row.latest_justified)
      /\ store_finalized' = later(store_finalized, row.latest_finalized)
  BY DEF ImportNext, vars, serving_vars
<1>3. DOMAIN rows \subseteq Slots /\ DOMAIN rows \subseteq Nat
  <2>1. header_slot \in Slots /\ header_slot \in Nat /\ DOMAIN rows \subseteq 0 .. header_slot
    BY ZenonT(30), StateNumbers DEF SyncInv, RowsOfChain
  <2> QED
    BY <2>1, LimitAssumption DEF Slots
<1>4. p \in DOMAIN rows /\ \A q \in DOMAIN rows : q < s => q <= p
  BY ZenonT(30), <1>2, ParentRow
<1>5. PICK h \in DOMAIN rows \ {0} : Joined(h)
  BY ZenonT(30), <1>2 DEF SyncInv, JoinInv
<1> HIDE DEF p
<1>6. h = p
  <2>1. BlockRoot[h] = BlockRoot[p]
    BY ZenonT(30), <1>2, <1>5 DEF Joined
  <2> QED
    BY ZenonT(30), <1>3, <1>4, <2>1, BlockRootAssumption
<1>7. /\ RowInv(s)
      /\ row.latest_justified.slot \in Nat /\ row.latest_finalized.slot \in Nat
      /\ row.latest_justified = anchor_checkpoint(row.latest_justified.slot)
      /\ row.latest_finalized = anchor_checkpoint(row.latest_finalized.slot)
      /\ row.latest_justified.slot <= own_justified.slot
      /\ row.latest_finalized.slot <= own_finalized.slot
  <2>1. RowInv(s) /\ s > 0
    BY <1>2, <1>3 DEF SyncInv, RowsOfChain
  <2> QED
    BY ZenonT(30), <1>2, <2>1 DEF SyncInv, OwnCheckpoints, RowInv
<1> HIDE DEF row
<1>8. /\ store_justified' \in {store_justified, row.latest_justified}
      /\ store_finalized' \in {store_finalized, row.latest_finalized}
      /\ store_justified.slot \in Nat /\ store_finalized.slot \in Nat
      /\ store_justified'.slot \in Nat /\ store_finalized'.slot \in Nat
      /\ store_justified'.slot >= store_justified.slot
      /\ store_justified'.slot >= row.latest_justified.slot
      /\ store_finalized'.slot >= store_finalized.slot
      /\ store_finalized'.slot >= row.latest_finalized.slot
  BY <1>2, <1>5, <1>7 DEF later, Joined
<1>9. ASSUME NEW t \in DOMAIN rows, t <= s
      PROVE  /\ rows[t].latest_justified.slot <= store_justified'.slot
             /\ rows[t].latest_finalized.slot <= store_finalized'.slot
  <2>1. CASE t = s
    BY ZenonT(30), <1>8, <2>1 DEF row
  <2>2. CASE t # s
    <3>1. t <= h
      BY <1>2, <1>3, <1>4, <1>6, <1>9, <2>2
    <3>2. /\ rows[t].latest_justified.slot <= store_justified.slot
          /\ rows[t].latest_finalized.slot <= store_finalized.slot
      BY ZenonT(30), <1>5, <3>1 DEF Joined
    <3>3. rows[t].latest_justified.slot \in Nat /\ rows[t].latest_finalized.slot \in Nat
      BY DEF SyncInv, RowsOfChain, RowInv
    <3> QED
      BY <1>8, <3>2, <3>3
  <2> QED
    BY ZenonT(30), <2>1, <2>2
<1>10. Joined(s)'
  <2>1. /\ store_justified' = anchor_checkpoint(store_justified'.slot)
        /\ store_finalized' = anchor_checkpoint(store_finalized'.slot)
    BY ZenonT(30), <1>5, <1>7, <1>8 DEF Joined
  <2>2. /\ store_justified'.slot <= own_justified'.slot
        /\ store_finalized'.slot <= own_finalized'.slot
    BY ZenonT(30), <1>2, <1>5, <1>7, <1>8 DEF Joined
  <2> QED
    BY ZenonT(30), <1>2, <1>8, <1>9, <2>1, <2>2 DEF Joined
<1>11. RowsOfChain'
  BY ZenonT(30), <1>2 DEF SyncInv, RowsOfChain, RowInv
<1>12. OwnCheckpoints'
  BY ZenonT(30), <1>2 DEF SyncInv, OwnCheckpoints
<1>13. JoinInv'
  BY ZenonT(30), <1>2, <1>10 DEF JoinInv, SyncInv
<1>14. JoinsTheChain'
  <2>1. /\ DOMAIN states' = DOMAIN states \cup {BlockRoot[s]}
        /\ states'[BlockRoot[s]] = row
        /\ \A r \in DOMAIN states \ {BlockRoot[s]} : states'[r] = states[r]
    BY <1>2 DEF Put
  <2>2. ASSUME NEW r \in DOMAIN states'
        PROVE  \E t \in DOMAIN rows \ {0} : BlockRoot[t] = r /\ states'[r] = rows[t]
    <3>1. CASE r = BlockRoot[s]
      BY ZenonT(30), <1>2, <2>1, <3>1 DEF row
    <3>2. CASE r # BlockRoot[s]
      BY ZenonT(30), <1>2, <2>1, <3>2 DEF SyncInv, JoinsTheChain
    <3> QED
      BY <3>1, <3>2
  <2> QED
    BY ZenonT(90), <1>2, <2>1, <2>2 DEF JoinsTheChain
<1> QED
  BY ZenonT(30), <1>1, <1>2, <1>11, <1>12, <1>13, <1>14 DEF SyncInv, AcceptsOwnNetworkOnly

-----------------------------------------------------------------------------
\* Genesis: one row, the genesis state, and no joining node.
LEMMA InitSync == SyncInit => SyncInv
<1> SUFFICES ASSUME SyncInit PROVE SyncInv
  OBVIOUS
<1> DEFINE row == stored(CurrentState)
<1>1. IInv /\ network \in Networks
  BY ZenonT(30), InitIInv DEF SyncInit
<1>2. /\ header_slot = 0 /\ slot = 0 /\ phase = "idle"
      /\ latest_justified.slot = 0 /\ latest_finalized.slot = 0
  BY ZenonT(30) DEF SyncInit, Init
<1>3. DOMAIN rows = {0} /\ rows[0] = row
  BY ZenonT(30) DEF SyncInit
<1>4. /\ with_state_root(row, zero_root) = CurrentState
      /\ row.latest_block_header.slot = header_slot
      /\ row.latest_justified = latest_justified
      /\ row.latest_finalized = latest_finalized
  BY ZenonT(30), CurrentRow
<1>5. /\ CurrentState.slot = 0
      /\ CurrentState.config = network.genesis_time
      /\ CurrentState.validators = network.validators
      /\ CurrentState.latest_block_header.slot = 0
      /\ CurrentState.latest_justified = latest_justified
      /\ CurrentState.latest_finalized = latest_finalized
  BY ZenonT(30), <1>2 DEF CurrentState
<1>6. stored(with_state_root(row, zero_root)) = row
  BY ZenonT(30), <1>4
<1> HIDE DEF row
<1>7. row.latest_justified.slot = 0 /\ row.latest_finalized.slot = 0
  BY ZenonT(30), <1>2, <1>4
<1>8. RowInv(0)
  <2>1. /\ row.latest_justified.slot \in Nat /\ row.latest_finalized.slot \in Nat
        /\ row.latest_finalized.slot <= row.latest_justified.slot
        /\ ~(0 > 0)
    BY <1>7
  <2> QED
    BY ZenonT(30), <1>2, <1>3, <1>4, <1>5, <1>6, <1>7, <2>1 DEF RowInv
<1>9. RowsOfChain
  BY <1>2, <1>3, <1>8 DEF RowsOfChain
<1>10. /\ own_justified = anchor_checkpoint(0) /\ own_finalized = anchor_checkpoint(0)
       /\ own_justified.slot = 0 /\ own_finalized.slot = 0
  BY ZenonT(30) DEF SyncInit, anchor_checkpoint
<1>11. OwnCheckpoints
  BY <1>3, <1>7, <1>10 DEF OwnCheckpoints
<1>12. node = "down" /\ refused = -1 /\ states = EmptyMap
  BY DEF SyncInit
<1> QED
  BY <1>1, <1>9, <1>11, <1>12 DEF SyncInv, JoinInv, AcceptsOwnNetworkOnly, JoinsTheChain

LEMMA StepSync == SyncInv /\ [SyncNext]_sync_vars => SyncInv'
<1> SUFFICES ASSUME SyncInv, [SyncNext]_sync_vars PROVE SyncInv'
  BY ZenonT(30)
<1>1. CASE Transition
  BY ZenonT(30), <1>1, SyncTransition
<1>2. CASE ImportOwn
  BY ZenonT(30), <1>2, SyncImportOwn
<1>3. CASE DownloadFails
  <2>1. /\ node # "running" /\ node' \in {"down", "exited"}
        /\ refused' = refused
        /\ UNCHANGED <<vars, serving_vars, states, head, store_justified, store_finalized>>
    BY ZenonT(30), <1>3 DEF DownloadFails
  <2>2. refused' # -1 => refused' = 0 \/ network # Genesis
    BY ZenonT(30), <2>1 DEF SyncInv, AcceptsOwnNetworkOnly
  <2> QED
    BY ZenonT(30), <2>1, <2>2, SyncNotRunning
<1>4. CASE RefuseState
  <2>1. /\ node # "running" /\ node' \in {"down", "exited"}
        /\ ~verify_checkpoint_state(served_state, Genesis)
        /\ refused' = served_state.slot
        /\ UNCHANGED <<vars, serving_vars, states, head, store_justified, store_finalized>>
    BY ZenonT(30), <1>4 DEF RefuseState
  <2>2. refused' = 0 \/ network # Genesis
    BY ZenonT(30), <2>1, AcceptsOwn
  <2> QED
    BY ZenonT(30), <2>1, <2>2, SyncNotRunning
<1>5. CASE SyncFromCheckpoint
  BY ZenonT(30), <1>5, SyncJoin
<1>6. CASE RestartNode
  <2>1. /\ node # "running" /\ node' \in {"down", "exited"}
        /\ refused' = -1
        /\ UNCHANGED <<vars, serving_vars, states, head, store_justified, store_finalized>>
    BY ZenonT(30), <1>6 DEF RestartNode
  <2> QED
    BY ZenonT(30), <2>1, SyncNotRunning
<1>7. ASSUME NEW s \in Slots, ImportNext(s) PROVE SyncInv'
  BY ZenonT(30), <1>7, SyncImportNext
<1>8. CASE UNCHANGED sync_vars
  <2>1. UNCHANGED vars /\ UNCHANGED <<serving_vars, joining_vars>> /\ rows' = rows
    BY ZenonT(30), <1>8 DEF sync_vars, serving_vars
  <2>2. IInv'
    BY ZenonT(30), <2>1, StepPreserves DEF SyncInv
  <2>3. RowsOfChain'
    <3>1. /\ header_slot' = header_slot /\ phase' = phase
          /\ historical_block_hashes' = historical_block_hashes
      BY ZenonT(30), <2>1 DEF vars
    <3>2. \A s \in DOMAIN rows' : RowInv(s)'
      BY ZenonT(30), <2>1, TablesUnchanged
    <3> QED
      BY ZenonT(30), <2>1, <3>1, <3>2 DEF SyncInv, RowsOfChain
  <2> QED
    BY ZenonT(30), <2>1, <2>2, <2>3, TablesUnchanged DEF SyncInv
<1> QED
  BY ZenonT(30), <1>1, <1>2, <1>3, <1>4, <1>5, <1>6, <1>7, <1>8 DEF SyncNext

\* The inductive invariant holds of the two nodes.
LEMMA SyncInvariance == SyncSpec => []SyncInv
  BY InitSync, StepSync, PTL DEF SyncSpec

(***************************************************************************)
(* A serving node runs the transition of StateTransition and nothing else, *)
(* so all that is proved of Spec holds while other nodes join.             *)
(***************************************************************************)
THEOREM SyncRefines == SyncSpec => Spec
<1>1. SyncInit => Init
  BY DEF SyncInit
<1>2. [SyncNext]_sync_vars => [Next]_vars
  BY ZenonT(30) DEF SyncNext, sync_vars, Next, Transition, ImportOwn, DownloadFails, RefuseState,
       SyncFromCheckpoint, RestartNode, ImportNext
<1> QED
  BY <1>1, <1>2, PTL DEF SyncSpec, Spec

(***************************************************************************)
(* For any networks, chain and votes: verify_checkpoint_state refuses no   *)
(* finalized state of the node's own network but that of genesis, and a    *)
(* node never runs on the state of another network.                        *)
(***************************************************************************)
THEOREM AcceptsTheorem == SyncSpec => []AcceptsOwnNetworkOnly
<1>1. SyncInv => AcceptsOwnNetworkOnly
  BY ZenonT(30) DEF SyncInv
<1> QED
  BY <1>1, SyncInvariance, PTL

(***************************************************************************)
(* init_store files the anchor under the root of the block that the        *)
(* serving node finalized, with every field it has there, and each later   *)
(* block finds its parent's state.                                         *)
(***************************************************************************)
THEOREM JoinsTheorem == SyncSpec => []JoinsTheChain
<1>1. SyncInv => JoinsTheChain
  BY ZenonT(30) DEF SyncInv
<1> QED
  BY <1>1, SyncInvariance, PTL

(***************************************************************************)
(* The checkpoints that init_store takes from the anchor, and on_block     *)
(* raises, agree with those of the serving node once the joining node has  *)
(* the same head.                                                          *)
(***************************************************************************)
THEOREM CheckpointsAgreeTheorem == SyncSpec => []CheckpointsAgree
<1>1. SyncInv => CheckpointsAgree
  <2> SUFFICES ASSUME SyncInv, node = "running", phase = "idle", head = BlockRoot[header_slot]
               PROVE  store_justified = own_justified /\ store_finalized = own_finalized
    BY ZenonT(30) DEF CheckpointsAgree
  <2>1. header_slot \in Slots /\ header_slot \in Nat /\ DOMAIN rows \subseteq 0 .. header_slot
    BY ZenonT(30), StateNumbers DEF SyncInv, RowsOfChain
  <2>2. PICK h \in DOMAIN rows \ {0} : Joined(h)
    BY ZenonT(30) DEF SyncInv, JoinInv
  <2>3. h \in Slots
    BY <2>1, LimitAssumption DEF Slots
  <2>4. h = header_slot
    <3>1. BlockRoot[h] = BlockRoot[header_slot]
      BY ZenonT(30), <2>2 DEF Joined
    <3> QED
      BY ZenonT(30), <2>1, <2>3, <3>1, BlockRootAssumption
  <2>5. \A t \in DOMAIN rows : t <= h
    BY <2>1, <2>4
  <2>6. own_justified.slot <= store_justified.slot /\ own_finalized.slot <= store_finalized.slot
    BY ZenonT(30), <2>2, <2>5 DEF SyncInv, OwnCheckpoints, Joined
  <2>7. own_justified.slot \in Nat /\ own_finalized.slot \in Nat
    BY ZenonT(30), ServedRow
  <2>8. own_justified.slot = store_justified.slot /\ own_finalized.slot = store_finalized.slot
    BY <2>2, <2>6, <2>7 DEF Joined
  <2> QED
    BY ZenonT(30), <2>2, <2>8 DEF SyncInv, OwnCheckpoints, Joined
<1> QED
  BY <1>1, SyncInvariance, PTL

-----------------------------------------------------------------------------
(***************************************************************************)
(* The inductive invariant of BlockBuilding.  The groups still to go       *)
(* through are groups of included votes, disjoint from the one being       *)
(* covered.                                                                *)
(***************************************************************************)
Votes == {attestation_of(d, p) : d \in Data, p \in (SUBSET Validators) \ {{}}}

uncovered == remaining.validators \cup UNION {g.validators : g \in todo}

BuildTypes ==
    /\ stage \in {"idle", "open", "candidate", "select", "final", "done"}
    /\ latest_justified.slot \in Nat
    /\ head_state.latest_justified.slot \in Nat
    /\ proofs \subseteq Proofs /\ IsFiniteSet(proofs)
    /\ included \subseteq DOMAIN available
    /\ todo \subseteq grouped(included)
    /\ remaining = [data |-> remaining.data, validators |-> remaining.validators]
    /\ chosen \in Seq(Votes)
    /\ processed \in Nat

StageInv ==
    /\ stage = "idle" => included = {}
    /\ stage \in {"idle", "open", "final", "done"} => todo = {}
    /\ stage # "select" => remaining.validators = {}
    /\ stage \in {"idle", "open", "candidate"} => chosen = <<>>

\* Each proof chosen so far covers a vote that none before it covers.
CoverInv ==
    /\ \A v \in remaining.validators : v \in included /\ available[v] = remaining.data
    /\ \A g \in todo : g.validators \cap remaining.validators = {}
    /\ Len(chosen) <= Cardinality(included \ uncovered)
    /\ stage \in {"select", "final", "done"} =>
           \A v \in included \ uncovered : \E i \in DOMAIN chosen :
               /\ chosen[i].source = available[v].source
               /\ chosen[i].target = available[v].target
               /\ v \in chosen[i].aggregation_bits.bits

\* No vote is included that starts below the justified slot of the head.
AboveInv ==
    LET justified_slot == head_state.latest_justified.slot
    IN  /\ \A v \in included : available[v].source.slot >= justified_slot
        /\ \A i \in DOMAIN chosen : chosen[i].source.slot >= justified_slot
        /\ stage \in {"open", "select"} => latest_justified = head_state.latest_justified
        /\ stage # "idle" => latest_justified.slot >= justified_slot

BuildInv == BuildTypes /\ StageInv /\ CoverInv /\ AboveInv

-----------------------------------------------------------------------------
\* The validators with a vote, and the votes extract_latest_attestations gives them.
LEMMA Voters ==
    ASSUME proofs \subseteq Proofs
    PROVE  /\ DOMAIN available = UNION {p.participants : p \in proofs}
           /\ DOMAIN available \subseteq Validators
           /\ IsFiniteSet(DOMAIN available)
           /\ \A v, d : <<v, d>> \in keys <=> \E p \in proofs : v \in p.participants /\ p.data = d
<1>1. \A v, d : <<v, d>> \in keys <=> \E p \in proofs : v \in p.participants /\ p.data = d
  BY DEF keys
<1>2. DOMAIN available = {k[1] : k \in keys}
  BY ZenonT(30) DEF available
<1>3. {k[1] : k \in keys} = UNION {p.participants : p \in proofs}
  <2>1. ASSUME NEW k \in keys PROVE \E p \in proofs : k[1] \in p.participants
    BY DEF keys
  <2>2. ASSUME NEW p \in proofs, NEW v \in p.participants PROVE \E k \in keys : k[1] = v
    <3>1. <<v, p.data>> \in keys
      BY ZenonT(30), <1>1
    <3>2. <<v, p.data>>[1] = v
      BY ZenonT(30)
    <3> QED
      BY ZenonT(30), <3>1, <3>2
  <2>3. ASSUME NEW v PROVE v \in {k[1] : k \in keys} <=> v \in UNION {p.participants : p \in proofs}
    <3>1. ASSUME NEW k \in keys, v = k[1] PROVE v \in UNION {p.participants : p \in proofs}
      BY ZenonT(30), <2>1, <3>1
    <3>2. ASSUME NEW p \in proofs, v \in p.participants PROVE v \in {k[1] : k \in keys}
      BY ZenonT(30), <2>2, <3>2
    <3> QED
      BY ZenonT(30), <3>1, <3>2
  <2> QED
    BY ZenonT(30), <2>3
<1>4. DOMAIN available \subseteq Validators
  BY ZenonT(30), <1>2, <1>3 DEF Proofs
<1>5. IsFiniteSet(Validators)
  BY ValidatorsAssumption, FS_Interval DEF Validators
<1> QED
  BY ZenonT(30), <1>1, <1>2, <1>3, <1>4, <1>5, FS_Subset

LEMMA LatestVote ==
    ASSUME proofs \subseteq Proofs, IsFiniteSet(proofs), NEW v \in DOMAIN available
    PROVE  available[v] \in Data /\ <<v, available[v]>> \in keys
<1> DEFINE own == {p \in proofs : v \in p.participants}
           slots == {p.data.slot : p \in own}
<1>1. IsFiniteSet(own) /\ own # {}
  <2>1. own \subseteq proofs
    BY ZenonT(30)
  <2>2. own # {}
    BY Voters
  <2> QED
    BY ZenonT(30), <2>1, <2>2, FS_Subset
<1>2. \A p \in own : p.data \in Data /\ p.data.slot \in Nat
  BY ZenonT(30), DataAssumption DEF Proofs
<1>3. IsFiniteSet(slots)
  <2> DEFINE f == [p \in own |-> p.data.slot]
  <2>1. f \in [own -> slots] /\ \A x \in slots : \E p \in own : f[p] = x
    BY ZenonT(30)
  <2>2. f \in Surjection(own, slots)
    BY ZenonT(30), <2>1 DEF Surjection
  <2> HIDE DEF f, slots, own
  <2> QED
    BY ZenonT(30), <1>1, <2>2, FS_Surjection
<1>4. slots \in SUBSET Nat /\ slots # {}
  BY ZenonT(30), <1>1, <1>2
<1>5. PICK m \in slots : \A k \in slots : k <= m
  BY ZenonT(30), <1>3, <1>4, GreatestMember
<1>6. PICK p \in own : m = p.data.slot
  BY ZenonT(30), <1>5
<1>7. <<v, p.data>> \in keys
  BY ZenonT(30), <1>6, Voters
<1>8. ASSUME NEW e \in Data, <<v, e>> \in keys PROVE e.slot <= p.data.slot
  <2>1. PICK q \in proofs : v \in q.participants /\ q.data = e
    BY ZenonT(30), <1>8, Voters
  <2>2. e.slot \in slots
    BY ZenonT(30), <2>1
  <2> QED
    BY ZenonT(30), <1>5, <1>6, <2>2
<1>9. available[v] = CHOOSE d \in Data :
                         /\ <<v, d>> \in keys
                         /\ \A e \in Data : <<v, e>> \in keys => e.slot <= d.slot
  BY ZenonT(30) DEF available
<1> QED
  BY ZenonT(30), <1>2, <1>6, <1>7, <1>8, <1>9

\* The groups of aggregate_attestations_by_data are disjoint.
LEMMA Groups ==
    ASSUME NEW S
    PROVE  /\ \A g \in grouped(S) : /\ \E v \in S : g.data = available[v]
                                    /\ g.validators = {v \in S : available[v] = g.data}
                                    /\ g = [data |-> g.data, validators |-> g.validators]
           /\ \A v \in S : \E g \in grouped(S) : v \in g.validators
           /\ \A g, k \in grouped(S) : g.validators \cap k.validators # {} => g = k
<1>1. \A g \in grouped(S) : /\ \E v \in S : g.data = available[v]
                            /\ g = [data |-> g.data, validators |-> {v \in S : available[v] = g.data}]
                            /\ g.validators = {v \in S : available[v] = g.data}
                            /\ g = [data |-> g.data, validators |-> g.validators]
  BY DEF grouped
<1>2. ASSUME NEW v \in S PROVE \E g \in grouped(S) : v \in g.validators
  <2> DEFINE g == [data |-> available[v], validators |-> {u \in S : available[u] = available[v]}]
  <2>1. g \in grouped(S)
    BY ZenonT(30) DEF grouped
  <2>2. v \in g.validators
    BY ZenonT(30)
  <2> QED
    BY ZenonT(30), <2>1, <2>2
<1>3. ASSUME NEW g \in grouped(S), NEW k \in grouped(S), g.validators \cap k.validators # {}
      PROVE  g = k
  <2>1. g.data = k.data
    BY <1>1, <1>3
  <2> QED
    BY ZenonT(30), <1>1, <2>1
<1> QED
  BY ZenonT(30), <1>1, <1>2, <1>3

\* An iteration of process_attestations justifies the target of its vote, or nothing.
LEMMA ProcessJustifies ==
    ASSUME NEW a, Process(a) \/ ProcessAttestation(a)
    PROVE  \/ latest_justified' = latest_justified
           \/ latest_justified' = a.target /\ a.target.slot > a.source.slot
  BY ZenonT(30) DEF Process, ProcessAttestation, justify, is_valid_vote, vars

\* A header keeps the slot of the justified checkpoint.
LEMMA HeaderJustifies ==
    ASSUME NEW block, ProcessBlock(block)
    PROVE  latest_justified'.slot = latest_justified.slot
  BY ZenonT(30) DEF ProcessBlock, process_block_header, with_genesis_root

\* A vote from the head's justified slot or above never moves the checkpoint below it.
LEMMA ProcessAbove ==
    ASSUME BuildInv, stage # "idle", NEW d \in Data, NEW p,
           d.source.slot >= head_state.latest_justified.slot,
           Process(attestation_of(d, p))
    PROVE  /\ latest_justified'.slot \in Nat
           /\ latest_justified'.slot >= head_state.latest_justified.slot
<1>1. d.source.slot \in Nat /\ d.target.slot \in Nat
  BY ZenonT(30), DataAssumption
<1>2. /\ latest_justified.slot \in Nat /\ head_state.latest_justified.slot \in Nat
      /\ latest_justified.slot >= head_state.latest_justified.slot
  BY ZenonT(30) DEF BuildInv, BuildTypes, AboveInv
<1>3. attestation_of(d, p).target = d.target /\ attestation_of(d, p).source = d.source
  BY ZenonT(30) DEF attestation_of
<1>4. \/ latest_justified' = latest_justified
      \/ latest_justified' = d.target /\ d.target.slot > d.source.slot
  BY ZenonT(30), <1>3, ProcessJustifies
<1> QED
  BY <1>1, <1>2, <1>4

\* The votes are a function of the proofs.
LEMMA SameProofs ==
    ASSUME proofs' = proofs
    PROVE  /\ available' = available
           /\ grouped(included)' = grouped(included')
<1>1. keys' = keys
  BY ZenonT(30) DEF keys
<1>2. available' = available
  <2> DEFINE latest(K) ==
                 [v \in {k[1] : k \in K} |->
                     CHOOSE d \in Data :
                         /\ <<v, d>> \in K
                         /\ \A e \in Data : <<v, e>> \in K => e.slot <= d.slot]
  <2>1. available = latest(keys) /\ available' = latest(keys')
    BY ZenonT(30) DEF available
  <2> HIDE DEF latest
  <2> QED
    BY ZenonT(30), <1>1, <2>1
<1> QED
  BY ZenonT(30), <1>2 DEF grouped

\* What a step keeps that changes neither the proofs nor what is chosen of them.
LEMMA SameChoice ==
    ASSUME BuildInv, UNCHANGED <<head_state, proofs, included, todo, remaining, chosen>>
    PROVE  /\ available' = available /\ uncovered' = uncovered
           /\ head_state'.latest_justified.slot \in Nat
           /\ proofs' \subseteq Proofs /\ IsFiniteSet(proofs')
           /\ included' \subseteq DOMAIN available'
           /\ todo' \subseteq grouped(included)'
           /\ remaining' = [data |-> remaining'.data, validators |-> remaining'.validators]
           /\ chosen' \in Seq(Votes)
           /\ \A v \in remaining'.validators : v \in included' /\ available'[v] = remaining'.data
           /\ \A g \in todo' : g.validators \cap remaining'.validators = {}
           /\ Len(chosen') <= Cardinality(included' \ uncovered')
           /\ \A v \in included' : available'[v].source.slot >= head_state'.latest_justified.slot
           /\ \A i \in DOMAIN chosen' :
                  chosen'[i].source.slot >= head_state'.latest_justified.slot
<1>1. available' = available /\ grouped(included)' = grouped(included')
  BY ZenonT(30), SameProofs
<1>2. uncovered' = uncovered
  BY ZenonT(30) DEF uncovered
<1> QED
  BY ZenonT(30), <1>1, <1>2 DEF BuildInv, BuildTypes, CoverInv, AboveInv

LEMMA BuildGrow ==
    ASSUME BuildInv, GrowChain
    PROVE  BuildInv'
<1>1. /\ stage = "idle" /\ stage' = stage
      /\ UNCHANGED <<head_state, proofs, included, todo, remaining, chosen>>
      /\ processed' = processed
  BY ZenonT(30) DEF GrowChain, build_vars
<1>2. latest_justified'.slot \in Nat
  <2>1. latest_justified.slot \in Nat
    BY ZenonT(30) DEF BuildInv, BuildTypes
  <2>2. ASSUME NEW block \in Blocks, ProcessBlock(block) PROVE latest_justified'.slot \in Nat
    BY ZenonT(30), <2>1, <2>2, HeaderJustifies
  <2>3. ASSUME NEW a \in Attestations, ProcessAttestation(a) PROVE latest_justified'.slot \in Nat
    <3>1. a.target.slot \in Nat
      BY ZenonT(30), AttestationsAssumption
    <3>2. latest_justified' = latest_justified \/ latest_justified' = a.target
      BY ZenonT(30), <2>3, ProcessJustifies
    <3> QED
      BY ZenonT(30), <2>1, <3>1, <3>2
  <2> QED
    BY ZenonT(30), <2>1, <2>2, <2>3 DEF GrowChain, FinishBlock
<1>3. BuildTypes'
  BY ZenonT(30), <1>1, <1>2, SameChoice DEF BuildInv, BuildTypes
<1>4. StageInv'
  BY ZenonT(30), <1>1 DEF BuildInv, StageInv
<1>5. stage' \notin {"open", "select", "final", "done"}
  BY ZenonT(30), <1>1
<1>6. CoverInv' /\ AboveInv'
  BY ZenonT(30), <1>1, <1>5, SameChoice DEF CoverInv, AboveInv
<1> QED
  BY ZenonT(30), <1>3, <1>4, <1>6 DEF BuildInv

LEMMA BuildStart ==
    ASSUME BuildInv, NEW known \in ProofSets, StartBuilding(known)
    PROVE  BuildInv'
<1>1. /\ stage = "idle" /\ stage' = "open"
      /\ head_state' = CloneOfHead /\ proofs' = known
      /\ included' = included /\ todo' = todo /\ remaining' = remaining /\ chosen' = chosen
      /\ processed' = processed /\ latest_justified' = latest_justified
  BY ZenonT(30) DEF StartBuilding, vars
<1>2. included = {} /\ todo = {} /\ remaining.validators = {} /\ chosen = <<>>
  BY ZenonT(30), <1>1 DEF BuildInv, StageInv
<1>3. /\ latest_justified.slot \in Nat /\ chosen \in Seq(Votes) /\ processed \in Nat
      /\ remaining = [data |-> remaining.data, validators |-> remaining.validators]
  BY ZenonT(30) DEF BuildInv, BuildTypes
<1>4. head_state'.latest_justified = latest_justified
  BY ZenonT(30), <1>1 DEF CloneOfHead
<1>5. proofs' \subseteq Proofs /\ IsFiniteSet(proofs')
  BY ZenonT(30), <1>1, ProofSetsAssumption
<1>6. BuildTypes'
  BY ZenonT(30), <1>1, <1>2, <1>3, <1>4, <1>5 DEF BuildTypes
<1>7. StageInv'
  BY ZenonT(30), <1>1, <1>2 DEF StageInv
<1>8. CoverInv'
  <2>1. Len(chosen') = 0 /\ included' = {} /\ todo' = {} /\ remaining'.validators = {}
    BY ZenonT(30), <1>1, <1>2
  <2>2. Cardinality(included' \ uncovered') = 0
    BY ZenonT(30), <2>1, FS_EmptySet
  <2> QED
    BY <2>1, <2>2 DEF CoverInv
<1>9. AboveInv'
  BY <1>1, <1>2, <1>3, <1>4 DEF AboveInv
<1> QED
  BY ZenonT(30), <1>6, <1>7, <1>8, <1>9 DEF BuildInv

\* While nothing is chosen there is nothing to cover.
LEMMA NothingChosen ==
    ASSUME BuildInv, chosen' = <<>>, remaining'.validators = {},
           included' \subseteq DOMAIN available, proofs' = proofs,
           stage' \in {"open", "candidate"}
    PROVE  CoverInv'
<1>1. IsFiniteSet(DOMAIN available)
  BY ZenonT(30), Voters DEF BuildInv, BuildTypes
<1>2. IsFiniteSet(included' \ uncovered')
  BY ZenonT(30), <1>1, FS_Subset
<1>3. Cardinality(included' \ uncovered') \in Nat
  BY ZenonT(30), <1>2, FS_CardinalityType
<1>4. Len(chosen') = 0
  BY ZenonT(30)
<1> QED
  BY <1>3, <1>4 DEF CoverInv

LEMMA BuildCandidate ==
    ASSUME BuildInv, OpenCandidate
    PROVE  BuildInv'
<1>1. /\ stage = "open" /\ stage' = "candidate" /\ todo' = grouped(included)
      /\ UNCHANGED <<head_state, proofs, included, remaining, chosen, processed>>
      /\ ProcessBlock(own_block)
  BY ZenonT(30) DEF OpenCandidate
<1>2. available' = available /\ grouped(included)' = grouped(included)
  BY ZenonT(30), <1>1, SameProofs
<1>3. latest_justified'.slot = latest_justified.slot
  BY ZenonT(30), <1>1, HeaderJustifies
<1>4. BuildTypes'
  BY ZenonT(30), <1>1, <1>2, <1>3 DEF BuildInv, BuildTypes
<1>5. remaining.validators = {} /\ chosen = <<>>
  BY ZenonT(30), <1>1 DEF BuildInv, StageInv
<1>6. StageInv'
  BY ZenonT(30), <1>1, <1>5 DEF StageInv
<1>7. CoverInv'
  <2>1. included' \subseteq DOMAIN available
    BY ZenonT(30), <1>1 DEF BuildInv, BuildTypes
  <2> QED
    BY ZenonT(30), <1>1, <1>5, <2>1, NothingChosen
<1>8. AboveInv'
  <2>1. stage' \notin {"open", "select"} /\ stage # "idle"
    BY ZenonT(30), <1>1
  <2> QED
    BY ZenonT(30), <1>1, <1>2, <1>3, <2>1 DEF BuildInv, AboveInv
<1> QED
  BY ZenonT(30), <1>4, <1>6, <1>7, <1>8 DEF BuildInv

\* The data of a group is that of an included vote.
LEMMA GroupData ==
    ASSUME BuildInv, NEW g \in grouped(included)
    PROVE  g.data \in Data /\ g.data.source.slot >= head_state.latest_justified.slot
<1>1. PICK v \in included : g.data = available[v]
  BY ZenonT(30), Groups
<1>2. v \in DOMAIN available /\ proofs \subseteq Proofs /\ IsFiniteSet(proofs)
  BY DEF BuildInv, BuildTypes
<1>3. available[v] \in Data
  BY ZenonT(30), <1>2, LatestVote
<1> QED
  BY ZenonT(30), <1>1, <1>3 DEF BuildInv, AboveInv

LEMMA BuildProcess ==
    ASSUME BuildInv, NEW group \in todo, ProcessCandidate(group)
    PROVE  BuildInv'
<1>1. /\ stage = "candidate" /\ stage' = "candidate" /\ todo' = todo \ {group}
      /\ UNCHANGED <<head_state, proofs, included, remaining, chosen, processed>>
      /\ Process(attestation_of(group.data, group.validators))
  BY ZenonT(30) DEF ProcessCandidate
<1>2. available' = available /\ grouped(included)' = grouped(included)
  BY ZenonT(30), <1>1, SameProofs
<1>3. group.data \in Data /\ group.data.source.slot >= head_state.latest_justified.slot
  BY ZenonT(30), GroupData DEF BuildInv, BuildTypes
<1>4. /\ latest_justified'.slot \in Nat
      /\ latest_justified'.slot >= head_state.latest_justified.slot
  BY ZenonT(30), <1>1, <1>3, ProcessAbove
<1>5. todo' \subseteq grouped(included)
  BY ZenonT(30), <1>1 DEF BuildInv, BuildTypes
<1>6. BuildTypes'
  BY ZenonT(30), <1>1, <1>2, <1>4, <1>5 DEF BuildInv, BuildTypes
<1>7. remaining.validators = {} /\ chosen = <<>>
  BY ZenonT(30), <1>1 DEF BuildInv, StageInv
<1>8. StageInv'
  BY ZenonT(30), <1>1, <1>7 DEF StageInv
<1>9. CoverInv'
  <2>1. included' \subseteq DOMAIN available
    BY ZenonT(30), <1>1 DEF BuildInv, BuildTypes
  <2> QED
    BY ZenonT(30), <1>1, <1>7, <2>1, NothingChosen
<1>10. AboveInv'
  <2>1. stage' \notin {"open", "select"}
    BY ZenonT(30), <1>1
  <2> QED
    BY ZenonT(30), <1>1, <1>2, <1>4, <2>1 DEF BuildInv, AboveInv
<1> QED
  BY ZenonT(30), <1>6, <1>8, <1>9, <1>10 DEF BuildInv

\* A round includes votes from the justified checkpoint of its post-state, which is not
\* below the head's; what the rounds included is what select_aggregated_proofs covers.
LEMMA BuildCollect ==
    ASSUME BuildInv, Collect
    PROVE  BuildInv'
<1>1. /\ stage = "candidate" /\ todo = {}
      /\ included' = included \cup new_attestations
      /\ latest_justified' = head_state.latest_justified
      /\ UNCHANGED <<head_state, proofs, remaining, chosen, processed>>
      /\ new_attestations # {} => stage' = "open" /\ todo' = todo
      /\ new_attestations = {} => stage' = "select" /\ todo' = grouped(included)
  BY ZenonT(30) DEF Collect, DropClone
<1>2. available' = available /\ grouped(included)' = grouped(included')
  BY ZenonT(30), <1>1, SameProofs
<1>3. remaining.validators = {} /\ chosen = <<>>
  BY ZenonT(30), <1>1 DEF BuildInv, StageInv
<1>4. included' \subseteq DOMAIN available
  BY ZenonT(30), <1>1 DEF BuildInv, BuildTypes, new_attestations
<1>5. todo' \subseteq grouped(included')
  BY ZenonT(30), <1>1
<1>6. stage' \in {"open", "select"}
  BY ZenonT(30), <1>1
<1>7. BuildTypes'
  <2>1. stage' \in {"idle", "open", "candidate", "select", "final", "done"}
    BY ZenonT(30), <1>6
  <2> QED
    BY ZenonT(30), <1>1, <1>2, <1>4, <1>5, <2>1 DEF BuildInv, BuildTypes
<1>8. StageInv'
  BY ZenonT(30), <1>1, <1>3 DEF StageInv
<1>9. CoverInv'
  <2>1. CASE stage' = "open"
    BY ZenonT(30), <1>1, <1>3, <1>4, <2>1, NothingChosen
  <2>2. CASE stage' = "select"
    <3>1. included' = included /\ todo' = grouped(included)
      BY ZenonT(30), <1>1, <2>2
    <3>2. remaining'.validators = {} /\ Len(chosen') = 0
      BY ZenonT(30), <1>1, <1>3
    <3>3. included' \ uncovered' = {}
      <4>1. \A v \in included' : \E g \in todo' : v \in g.validators
        BY ZenonT(30), <3>1, Groups
      <4> QED
        BY ZenonT(30), <4>1 DEF uncovered
    <3>4. Cardinality(included' \ uncovered') = 0
      BY ZenonT(30), <3>3, FS_EmptySet
    <3> QED
      BY <3>2, <3>3, <3>4 DEF CoverInv
  <2> QED
    BY ZenonT(30), <1>6, <2>1, <2>2
<1>10. AboveInv'
  <2>1. \A v \in new_attestations : available[v].source = latest_justified
    BY ZenonT(30) DEF new_attestations
  <2>2. latest_justified.slot >= head_state.latest_justified.slot
    BY ZenonT(30), <1>1 DEF BuildInv, AboveInv
  <2>3. \A v \in included' : available[v].source.slot >= head_state.latest_justified.slot
    BY ZenonT(30), <1>1, <2>1, <2>2 DEF BuildInv, AboveInv
  <2>4. head_state.latest_justified.slot >= head_state.latest_justified.slot
    BY DEF BuildInv, BuildTypes
  <2>5. DOMAIN chosen' = {}
    BY <1>1, <1>3
  <2> QED
    BY ZenonT(30), <1>1, <1>2, <2>3, <2>4, <2>5 DEF AboveInv
<1> QED
  BY ZenonT(30), <1>7, <1>8, <1>9, <1>10 DEF BuildInv

LEMMA BuildNextData ==
    ASSUME BuildInv, NEW group \in todo, NextData(group)
    PROVE  BuildInv'
<1>1. /\ stage = "select" /\ stage' = "select" /\ remaining.validators = {}
      /\ remaining' = group /\ todo' = todo \ {group}
      /\ UNCHANGED <<head_state, proofs, included, chosen, processed>>
      /\ latest_justified' = latest_justified
  BY ZenonT(30) DEF NextData, vars
<1>2. available' = available /\ grouped(included)' = grouped(included)
  BY ZenonT(30), <1>1, SameProofs
<1>3. todo \subseteq grouped(included)
  BY ZenonT(30) DEF BuildInv, BuildTypes
<1>4. todo' \subseteq grouped(included)
  BY ZenonT(30), <1>1, <1>3
<1>5. BuildTypes'
  <2>1. group = [data |-> group.data, validators |-> group.validators]
    BY ZenonT(30), <1>3, Groups
  <2> QED
    BY ZenonT(30), <1>1, <1>2, <1>4, <2>1 DEF BuildInv, BuildTypes
<1>6. StageInv'
  BY ZenonT(30), <1>1 DEF StageInv
<1>7. \A v \in group.validators : v \in included /\ available[v] = group.data
  <2>1. group \in grouped(included)
    BY ZenonT(30), <1>3
  <2>2. group.validators = {v \in included : available[v] = group.data}
    BY ZenonT(30), <2>1, Groups
  <2> QED
    BY ZenonT(30), <2>2
<1>8. \A g \in todo' : g.validators \cap group.validators = {}
  BY ZenonT(30), <1>1, <1>3, Groups
<1>9. uncovered' = uncovered
  BY ZenonT(30), <1>1 DEF uncovered
<1>10. CoverInv'
  BY ZenonT(30), <1>1, <1>2, <1>7, <1>8, <1>9 DEF BuildInv, CoverInv
<1>11. AboveInv'
  BY ZenonT(30), <1>1, <1>2 DEF BuildInv, AboveInv
<1> QED
  BY ZenonT(30), <1>5, <1>6, <1>10, <1>11 DEF BuildInv

LEMMA BuildSelect ==
    ASSUME BuildInv, NEW target_id \in remaining.validators, NEW proof \in proofs,
           SelectProof(target_id, proof)
    PROVE  BuildInv'
<1> DEFINE a == attestation_of(remaining.data, proof.participants)
           n == Len(chosen)
<1>1. /\ stage = "select" /\ stage' = "select"
      /\ proof.data = remaining.data /\ target_id \in proof.participants
      /\ chosen' = Append(chosen, a)
      /\ UNCHANGED <<head_state, proofs, included, todo, processed>>
      /\ latest_justified' = latest_justified
  BY ZenonT(30) DEF SelectProof, candidates, vars
<1>2. available' = available /\ grouped(included)' = grouped(included)
  BY ZenonT(30), <1>1, SameProofs
<1>3. proofs \subseteq Proofs
  BY ZenonT(30) DEF BuildInv, BuildTypes
<1>4. proof.data \in Data /\ proof.participants \in SUBSET Validators
  BY ZenonT(30), <1>3 DEF Proofs
<1>5. a \in Votes
  BY <1>1, <1>4 DEF Votes
<1>6. /\ a.source = remaining.data.source /\ a.target = remaining.data.target
      /\ a.aggregation_bits.bits = proof.participants
  BY ZenonT(30) DEF attestation_of
<1> HIDE DEF a
<1>7. /\ chosen \in Seq(Votes) /\ chosen' \in Seq(Votes)
      /\ n \in Nat /\ Len(chosen') = n + 1
      /\ DOMAIN chosen = 1 .. n /\ DOMAIN chosen' = 1 .. (n + 1)
      /\ \A i \in 1 .. n : chosen'[i] = chosen[i]
      /\ chosen'[n + 1] = a
  <2>1. chosen \in Seq(Votes)
    BY ZenonT(30) DEF BuildInv, BuildTypes
  <2> QED
    BY <1>1, <1>5, <2>1
<1>8. /\ remaining' = [data |-> remaining.data,
                       validators |-> remaining.validators \ covered(proof)]
      /\ remaining'.data = remaining.data
      /\ remaining'.validators = remaining.validators \ covered(proof)
  <2>1. remaining = [data |-> remaining.data, validators |-> remaining.validators]
    BY ZenonT(30) DEF BuildInv, BuildTypes
  <2>2. remaining' = [remaining EXCEPT !.validators = @ \ covered(proof)]
    BY ZenonT(30) DEF SelectProof
  <2> QED
    BY ZenonT(30), <2>1, <2>2
<1>9. BuildTypes'
  <2>1. remaining' = [data |-> remaining'.data, validators |-> remaining'.validators]
    BY ZenonT(30), <1>8
  <2> QED
    BY ZenonT(30), <1>1, <1>2, <1>7, <2>1 DEF BuildInv, BuildTypes
<1>10. StageInv'
  BY ZenonT(30), <1>1 DEF StageInv
<1>11. /\ \A v \in remaining.validators : v \in included /\ available[v] = remaining.data
       /\ \A g \in todo : g.validators \cap remaining.validators = {}
       /\ n <= Cardinality(included \ uncovered)
       /\ \A v \in included \ uncovered : \E i \in DOMAIN chosen :
               /\ chosen[i].source = available[v].source
               /\ chosen[i].target = available[v].target
               /\ v \in chosen[i].aggregation_bits.bits
  BY ZenonT(30), <1>1 DEF BuildInv, CoverInv
<1>12. uncovered' = uncovered \ covered(proof)
  BY <1>1, <1>8, <1>11 DEF uncovered, covered
<1>13. n + 1 <= Cardinality(included' \ uncovered')
  <2> DEFINE A == included \ uncovered
             B == included' \ uncovered'
  <2>1. target_id \in B /\ target_id \notin A /\ A \subseteq B
    BY ZenonT(30), <1>1, <1>11, <1>12 DEF covered, uncovered
  <2>2. IsFiniteSet(B)
    <3>1. included' \subseteq DOMAIN available /\ IsFiniteSet(DOMAIN available)
      BY ZenonT(30), <1>1, Voters DEF BuildInv, BuildTypes
    <3> QED
      BY ZenonT(30), <3>1, FS_Subset
  <2> HIDE DEF A, B
  <2>3. IsFiniteSet(A) /\ Cardinality(A) \in Nat /\ Cardinality(B) \in Nat
    BY ZenonT(30), <2>1, <2>2, FS_Subset, FS_CardinalityType
  <2>4. Cardinality(A \cup {target_id}) = Cardinality(A) + 1
    BY ZenonT(30), <2>1, <2>3, FS_AddElement
  <2>5. Cardinality(A \cup {target_id}) <= Cardinality(B)
    <3>1. A \cup {target_id} \subseteq B
      BY ZenonT(30), <2>1
    <3> QED
      BY ZenonT(30), <2>2, <3>1, FS_Subset
  <2>6. n <= Cardinality(A)
    BY ZenonT(30), <1>11 DEF A
  <2>7. n + 1 <= Cardinality(B)
    BY <1>7, <2>3, <2>4, <2>5, <2>6
  <2> QED
    BY ZenonT(30), <2>7 DEF B
<1>14. ASSUME NEW v \in included' \ uncovered'
       PROVE  \E i \in DOMAIN chosen' :
                  /\ chosen'[i].source = available[v].source
                  /\ chosen'[i].target = available[v].target
                  /\ v \in chosen'[i].aggregation_bits.bits
  <2>1. CASE v \in uncovered
    <3>1. v \in covered(proof)
      BY ZenonT(30), <1>12, <2>1
    <3>2. v \in proof.participants /\ available[v] = remaining.data
      BY ZenonT(30), <1>11, <3>1 DEF covered
    <3>3. n + 1 \in DOMAIN chosen'
      BY <1>7
    <3> QED
      BY ZenonT(30), <1>6, <1>7, <3>2, <3>3
  <2>2. CASE v \notin uncovered
    <3>1. v \in included \ uncovered
      BY ZenonT(30), <1>1, <2>2
    <3>2. PICK i \in DOMAIN chosen : /\ chosen[i].source = available[v].source
                                     /\ chosen[i].target = available[v].target
                                     /\ v \in chosen[i].aggregation_bits.bits
      BY ZenonT(30), <1>11, <3>1
    <3>3. i \in 1 .. n /\ i \in DOMAIN chosen' /\ chosen'[i] = chosen[i]
      BY <1>7
    <3> QED
      BY ZenonT(30), <3>2, <3>3
  <2> QED
    BY ZenonT(30), <2>1, <2>2
<1>15. CoverInv'
  <2>1. \A v \in remaining'.validators : v \in included' /\ available'[v] = remaining'.data
    BY ZenonT(30), <1>1, <1>2, <1>8, <1>11
  <2>2. \A g \in todo' : g.validators \cap remaining'.validators = {}
    BY ZenonT(30), <1>1, <1>8, <1>11
  <2> QED
    BY ZenonT(30), <1>2, <1>7, <1>13, <1>14, <2>1, <2>2 DEF CoverInv
<1>16. AboveInv'
  <2>1. a.source.slot >= head_state.latest_justified.slot
    BY ZenonT(30), <1>6, <1>11 DEF BuildInv, AboveInv
  <2>2. ASSUME NEW i \in DOMAIN chosen'
        PROVE  chosen'[i].source.slot >= head_state.latest_justified.slot
    <3>1. CASE i = n + 1
      BY ZenonT(30), <1>7, <2>1, <3>1
    <3>2. CASE i # n + 1
      <4>1. i \in DOMAIN chosen /\ chosen'[i] = chosen[i]
        BY <1>7, <3>2
      <4> QED
        BY ZenonT(30), <4>1 DEF BuildInv, AboveInv
    <3> QED
      BY ZenonT(30), <3>1, <3>2
  <2> QED
    BY ZenonT(30), <1>1, <1>2, <2>2 DEF BuildInv, AboveInv
<1> QED
  BY ZenonT(30), <1>9, <1>10, <1>15, <1>16 DEF BuildInv

\* The block itself: header, chosen votes, end.
LEMMA BuildFinal ==
    ASSUME BuildInv, OpenFinalBlock \/ ProcessFinal \/ FinishBuilding
    PROVE  BuildInv'
<1>1. /\ UNCHANGED <<head_state, proofs, included, todo, remaining, chosen>>
      /\ stage \in {"select", "final"} /\ stage' \in {"final", "done"}
      /\ todo = {} /\ remaining.validators = {}
  <2>1. CASE OpenFinalBlock
    BY ZenonT(30), <2>1 DEF OpenFinalBlock
  <2>2. CASE ProcessFinal
    BY ZenonT(30), <2>2 DEF ProcessFinal, BuildInv, StageInv
  <2>3. CASE FinishBuilding
    BY ZenonT(30), <2>3 DEF FinishBuilding, BuildInv, StageInv
  <2> QED
    BY ZenonT(30), <2>1, <2>2, <2>3
<1>2. /\ latest_justified.slot \in Nat /\ head_state.latest_justified.slot \in Nat
      /\ latest_justified.slot >= head_state.latest_justified.slot
      /\ processed \in Nat /\ chosen \in Seq(Votes)
  BY ZenonT(30), <1>1 DEF BuildInv, BuildTypes, AboveInv
<1>3. /\ latest_justified'.slot \in Nat
      /\ latest_justified'.slot >= head_state.latest_justified.slot
      /\ processed' \in Nat
  <2>1. CASE OpenFinalBlock
    BY ZenonT(30), <1>2, <2>1, HeaderJustifies DEF OpenFinalBlock
  <2>2. CASE ProcessFinal
    <3>1. processed + 1 \in DOMAIN chosen /\ processed' = processed + 1
      BY <1>2, <2>2 DEF ProcessFinal
    <3>2. chosen[processed + 1] \in Votes
      BY <1>2, <3>1
    <3>3. PICK d \in Data, p \in (SUBSET Validators) \ {{}} :
              chosen[processed + 1] = attestation_of(d, p)
      BY <3>2 DEF Votes
    <3>4. chosen[processed + 1].source = d.source
      BY <3>3 DEF attestation_of
    <3>5. d.source.slot >= head_state.latest_justified.slot
      BY ZenonT(30), <3>1, <3>4 DEF BuildInv, AboveInv
    <3>6. Process(attestation_of(d, p))
      BY ZenonT(30), <2>2, <3>3 DEF ProcessFinal
    <3>7. stage # "idle"
      BY ZenonT(30), <1>1
    <3> QED
      BY <1>2, <3>1, <3>5, <3>6, <3>7, ProcessAbove
  <2>3. CASE FinishBuilding
    BY ZenonT(30), <1>2, <2>3 DEF FinishBuilding, FinishBlock
  <2> QED
    BY ZenonT(30), <2>1, <2>2, <2>3
<1>4. stage' \in {"idle", "open", "candidate", "select", "final", "done"}
  BY ZenonT(30), <1>1
<1>5. BuildTypes'
  BY ZenonT(30), <1>3, <1>4, SameChoice, <1>1 DEF BuildTypes
<1>6. StageInv'
  BY ZenonT(30), <1>1 DEF StageInv
<1>7. CoverInv'
  <2>1. stage \in {"select", "final", "done"}
    BY ZenonT(30), <1>1
  <2> QED
    BY ZenonT(30), <1>1, <2>1, SameChoice DEF BuildInv, CoverInv
<1>8. AboveInv'
  <2>1. stage' \notin {"open", "select"}
    BY ZenonT(30), <1>1
  <2> QED
    BY ZenonT(30), <1>1, <1>3, <2>1, SameChoice DEF AboveInv
<1> QED
  BY ZenonT(30), <1>5, <1>6, <1>7, <1>8 DEF BuildInv

-----------------------------------------------------------------------------
LEMMA InitBuild == BuildInit => BuildInv
<1> SUFFICES ASSUME BuildInit PROVE BuildInv
  BY ZenonT(30)
<1>1. /\ stage = "idle" /\ proofs = {} /\ included = {} /\ todo = {} /\ chosen = <<>>
      /\ processed = 0 /\ remaining.validators = {}
      /\ remaining = [data |-> remaining.data, validators |-> remaining.validators]
  BY ZenonT(30) DEF BuildInit
<1>2. latest_justified.slot = 0
  BY ZenonT(30) DEF BuildInit, Init
<1>3. head_state.latest_justified.slot = 0
  BY ZenonT(30), <1>2 DEF BuildInit, CloneOfHead
<1>4. IsFiniteSet({})
  BY ZenonT(30), FS_EmptySet
<1>5. chosen \in Seq(Votes) /\ Len(chosen) = 0
  BY <1>1
<1>6. BuildTypes
  BY <1>1, <1>2, <1>3, <1>4, <1>5 DEF BuildTypes
<1>7. Cardinality(included \ uncovered) = 0
  BY ZenonT(30), <1>1, FS_EmptySet
<1> QED
  BY <1>1, <1>5, <1>6, <1>7 DEF BuildInv, StageInv, CoverInv, AboveInv

LEMMA StepBuild == BuildInv /\ [BuildNext]_all_vars => BuildInv'
<1> SUFFICES ASSUME BuildInv, [BuildNext]_all_vars PROVE BuildInv'
  OBVIOUS
<1>1. CASE UNCHANGED all_vars
  <2>1. /\ UNCHANGED <<head_state, proofs, included, todo, remaining, chosen>>
        /\ stage' = stage /\ processed' = processed /\ latest_justified' = latest_justified
    BY ZenonT(30), <1>1 DEF all_vars, build_vars, vars
  <2> QED
    BY ZenonT(30), <2>1, SameChoice
       DEF BuildInv, BuildTypes, StageInv, CoverInv, AboveInv
<1>2. CASE GrowChain
  BY ZenonT(30), <1>2, BuildGrow
<1>3. CASE \E known \in ProofSets : StartBuilding(known)
  BY ZenonT(30), <1>3, BuildStart
<1>4. CASE OpenCandidate
  BY <1>4, BuildCandidate
<1>5. CASE \E group \in todo : ProcessCandidate(group)
  BY ZenonT(30), <1>5, BuildProcess
<1>6. CASE Collect
  BY <1>6, BuildCollect
<1>7. CASE \E group \in todo : NextData(group)
  BY ZenonT(30), <1>7, BuildNextData
<1>8. CASE \E target_id \in remaining.validators, proof \in proofs : SelectProof(target_id, proof)
  BY ZenonT(30), <1>8, BuildSelect
<1>9. CASE OpenFinalBlock \/ ProcessFinal \/ FinishBuilding
  BY ZenonT(30), <1>9, BuildFinal
<1> QED
  BY ZenonT(30), <1>1, <1>2, <1>3, <1>4, <1>5, <1>6, <1>7, <1>8, <1>9 DEF BuildNext, Build

\* The inductive invariant holds whatever build_block is given.
LEMMA BuildInvariance == BuildSpec => []BuildInv
  BY InitBuild, StepBuild, PTL DEF BuildSpec

(***************************************************************************)
(* For any number of validators and any proofs known, in whatever order    *)
(* select_aggregated_proofs meets them: every included vote is in the      *)
(* block, and the block has no more attestations than there are validators *)
(* with a vote.                                                            *)
(***************************************************************************)
THEOREM VotesCoveredTheorem == BuildSpec => []VotesCoveredWithinLimit
<1>1. BuildInv => VotesCoveredWithinLimit
  <2> SUFFICES ASSUME BuildInv PROVE VotesCoveredWithinLimit
    BY ZenonT(30)
  <2>1. Len(chosen) <= Cardinality(DOMAIN available)
    <3> DEFINE A == included \ uncovered
               D == DOMAIN available
    <3>1. IsFiniteSet(D) /\ A \subseteq D
      BY ZenonT(30), Voters DEF BuildInv, BuildTypes
    <3> HIDE DEF A, D
    <3>2. Cardinality(A) <= Cardinality(D) /\ Cardinality(D) \in Nat /\ Cardinality(A) \in Nat
      BY ZenonT(30), <3>1, FS_Subset, FS_CardinalityType
    <3>3. Len(chosen) <= Cardinality(A) /\ Len(chosen) \in Nat
      BY DEF BuildInv, BuildTypes, CoverInv, A
    <3>4. Len(chosen) <= Cardinality(D)
      BY <3>2, <3>3
    <3> QED
      BY ZenonT(30), <3>4 DEF D
  <2>2. ASSUME stage = "final" PROVE uncovered = {}
    BY ZenonT(30), <2>2 DEF BuildInv, StageInv, uncovered
  <2>3. ASSUME stage = "final", NEW v \in included
        PROVE  \E i \in DOMAIN chosen : /\ chosen[i].source = available[v].source
                                        /\ chosen[i].target = available[v].target
                                        /\ v \in chosen[i].aggregation_bits.bits
    <3>1. v \in included \ uncovered /\ stage \in {"select", "final", "done"}
      BY ZenonT(30), <2>2, <2>3
    <3> QED
      BY ZenonT(30), <3>1 DEF BuildInv, CoverInv
  <2> QED
    BY ZenonT(30), <2>1, <2>3 DEF VotesCoveredWithinLimit
<1> QED
  BY <1>1, BuildInvariance, PTL

(***************************************************************************)
(* A proposer's own block never moves the justified checkpoint of its head *)
(* back, in whatever order process_attestations takes the votes.           *)
(***************************************************************************)
THEOREM NeverUnjustifiesTheorem == BuildSpec => []NeverUnjustifies
<1>1. BuildInv => NeverUnjustifies
  BY DEF BuildInv, AboveInv, NeverUnjustifies
<1> QED
  BY <1>1, BuildInvariance, PTL
=============================================================================
