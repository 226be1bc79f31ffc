------------------------- MODULE BlockImportProofs --------------------------
(***************************************************************************)
(* Proofs about BlockImport, for any tree of blocks, any set of bad ones,  *)
(* any retention limits, and crashes at any step; about StoreReaders, for  *)
(* any handler that reads while the actor writes; and about BlockSync, for *)
(* any interleaving of the two actors, the network and restarts.           *)
(*                                                                         *)
(* Three invariants, each on top of the one before: IInv about the pending *)
(* blocks, SInv about what they wait for, and RowsInv with StatesInv about *)
(* the rows that roots lead to.  A node adds MailInv, how far its wiring   *)
(* is, under which it implements BlockImport and keeps the three; TrackInv *)
(* says where a requested block is.                                        *)
(***************************************************************************)
EXTENDS StoreReaders, BlockSync, FiniteSetTheorems, TLAPS

\* The time the provers have for a leaf; the leaves that are pure logic name Zenon.
USE SMTT(30), ZenonT(30)

\* What the steps of process_or_pend_block rely on between two values of pc.
StepInv ==
    /\ pc = "lineage" => ~has_state(ParentOf[block])
    /\ pc = "head" => has_state(block)
    /\ pc \in {"idle", "blocks"} => queue = <<>>

IInv == TypeOK /\ LineageIsAncestry /\ NoLostWakeup /\ StepInv

-----------------------------------------------------------------------------
\* A process starts with nothing pending.
LEMMA InitIInv == Init => IInv
  BY AncestryAssumption, BlocksAssumption
     DEF Init, EmptyMap, Roots, IInv, TypeOK, LineageIsAncestry, NoLostWakeup, StepInv

\* Taking a block from the queue.
LEMMA HeadTail ==
    ASSUME NEW q \in Seq(Blocks), q # <<>>
    PROVE  Head(q) \in Blocks /\ Tail(q) \in Seq(Blocks)
  OBVIOUS

\* Putting a block into it.
LEMMA AppendBlock ==
    ASSUME NEW q \in Seq(Blocks), NEW b \in Blocks
    PROVE  /\ Append(q, b) \in Seq(Blocks)
           /\ \A i \in 1 .. Len(q) : Append(q, b)[i] = q[i] /\ i \in 1 .. Len(Append(q, b))
           /\ \E i \in 1 .. Len(Append(q, b)) : Append(q, b)[i] = b
<1>1. /\ Len(Append(q, b)) = Len(q) + 1 /\ Len(q) \in Nat
      /\ \A i \in 1 .. Len(q) : Append(q, b)[i] = q[i]
      /\ Append(q, b)[Len(q) + 1] = b
  OBVIOUS
<1>2. Append(q, b) \in Seq(Blocks)
  OBVIOUS
<1> QED
  BY <1>1, <1>2

\* The queue after children were woken: blocks only, the old ones and the woken.
LEMMA OrderedQueue ==
    ASSUME NEW q \in Seq(Blocks), NEW S \in SUBSET Blocks, NEW order \in orders(S)
    PROVE  /\ q \o order \in Seq(Blocks)
           /\ \A i \in 1 .. Len(q) : (q \o order)[i] = q[i] /\ i \in 1 .. Len(q \o order)
           /\ \A b \in S : \E i \in 1 .. Len(q \o order) : (q \o order)[i] = b
<1>1. Cardinality(S) \in Nat
  BY BlocksAssumption, FS_Subset, FS_CardinalityType
<1>2. /\ order \in Seq(Blocks)
      /\ Len(order) = Cardinality(S)
      /\ \A b \in S : \E i \in 1 .. Len(order) : order[i] = b
  BY <1>1 DEF orders
<1>3. /\ Len(q) \in Nat /\ Len(order) \in Nat
      /\ Len(q \o order) = Len(q) + Len(order)
      /\ q \o order \in Seq(Blocks)
      /\ \A i \in 1 .. Len(q) : (q \o order)[i] = q[i]
      /\ \A i \in 1 .. Len(order) : (q \o order)[Len(q) + i] = order[i]
  BY <1>2
<1>4. ASSUME NEW b \in S PROVE \E i \in 1 .. Len(q \o order) : (q \o order)[i] = b
  <2>1. PICK i \in 1 .. Len(order) : order[i] = b
    BY <1>2
  <2>2. Len(q) + i \in 1 .. Len(q \o order) /\ (q \o order)[Len(q) + i] = b
    BY <1>3, <2>1
  <2> QED
    BY <2>2
<1> QED
  BY <1>3, <1>4

\* What collect_pending_children leaves registered.
LEMMA Collected ==
    ASSUME IInv, NEW parent \in Blocks, collect_pending_children(parent)
    PROVE  /\ pending_blocks' \in [Roots -> SUBSET Blocks]
           /\ pending_blocks'[parent] = {}
           /\ \A r \in Roots \ {parent} : pending_blocks'[r] = pending_blocks[r]
           /\ DOMAIN pending_block_parents' = DOMAIN pending_block_parents \ pending_blocks[parent]
           /\ \A b \in DOMAIN pending_block_parents' :
                  pending_block_parents'[b] = pending_block_parents[b]
           /\ \E order \in orders(pending_blocks[parent] \cap signed) : queue' = queue \o order
           /\ queue' \in Seq(Blocks)
<1>1. parent \in Roots /\ pending_blocks \in [Roots -> SUBSET Blocks] /\ queue \in Seq(Blocks)
  BY DEF Roots, IInv, TypeOK
<1>2. /\ pending_blocks' = [pending_blocks EXCEPT ![parent] = {}]
      /\ pending_block_parents' =
             [b \in DOMAIN pending_block_parents \ pending_blocks[parent] |->
                 pending_block_parents[b]]
      /\ \E order \in orders(pending_blocks[parent] \cap signed) : queue' = queue \o order
  BY Zenon DEF collect_pending_children
<1>3. pending_blocks[parent] \cap signed \in SUBSET Blocks
  BY <1>1
<1>4. queue' \in Seq(Blocks)
  BY <1>1, <1>2, <1>3, OrderedQueue
<1> QED
  BY Zenon, <1>1, <1>2, <1>4

\* The same, as the types of the maps and of the queue.
LEMMA CollectedTypes ==
    ASSUME TypeOK, LineageIsAncestry, NoLostWakeup, StepInv,
           NEW parent \in Blocks, collect_pending_children(parent)
    PROVE  /\ pending_blocks' \in [Roots -> SUBSET Blocks]
           /\ DOMAIN pending_block_parents' \subseteq Blocks
           /\ \A b \in DOMAIN pending_block_parents' : pending_block_parents'[b] \in Roots
           /\ queue' \in Seq(Blocks)
<1>1. /\ pending_blocks' \in [Roots -> SUBSET Blocks]
      /\ DOMAIN pending_block_parents' = DOMAIN pending_block_parents \ pending_blocks[parent]
      /\ \A b \in DOMAIN pending_block_parents' :
             pending_block_parents'[b] = pending_block_parents[b]
      /\ queue' \in Seq(Blocks)
  BY Zenon, Collected DEF IInv
<1> QED
  BY <1>1 DEF TypeOK

\* Waking the children of a block that has its state now.
LEMMA CollectPreserves ==
    ASSUME IInv, collect_pending_children(block), pc \in {"import", "head"}, has_state(block),
           pc' = "loop", TypeOK',
           UNCHANGED <<anchor, tables, locals, history>>
    PROVE  IInv'
<1>1. block \in Blocks
  BY DEF IInv, TypeOK
<1>2. LineageIsAncestry'
  <2>1. /\ pending_blocks'[block] = {}
        /\ \A r \in Roots \ {block} : pending_blocks'[r] = pending_blocks[r]
        /\ DOMAIN pending_block_parents' = DOMAIN pending_block_parents \ pending_blocks[block]
        /\ \A b \in DOMAIN pending_block_parents' :
               pending_block_parents'[b] = pending_block_parents[b]
    BY Zenon, <1>1, Collected
  <2>2. /\ \A b \in DOMAIN pending_block_parents :
               /\ pending_block_parents[b] \in Ancestors[b]
               /\ b \in Blocks /\ ParentOf[b] \in Roots
               /\ b \in pending_blocks[ParentOf[b]]
        /\ \A r \in Roots : \A b \in pending_blocks[r] :
               ParentOf[b] = r /\ b \in DOMAIN pending_block_parents
    BY AncestryAssumption DEF IInv, LineageIsAncestry, registered
  <2>3. \A b \in DOMAIN pending_block_parents' :
            /\ pending_block_parents'[b] \in Ancestors[b]
            /\ b \in Blocks
            /\ b \in pending_blocks'[ParentOf[b]]
    BY <2>1, <2>2
  <2>4. \A r \in Roots : \A b \in pending_blocks'[r] :
            ParentOf[b] = r /\ b \in DOMAIN pending_block_parents'
    BY <1>1, <2>1, <2>2 DEF Roots
  <2> QED
    BY <2>3, <2>4 DEF LineageIsAncestry, registered
<1>3. NoLostWakeup'
  BY Zenon, <1>1, Collected DEF IInv, NoLostWakeup, has_state, tables, locals
<1> QED
  BY <1>2, <1>3 DEF IInv, StepInv

-----------------------------------------------------------------------------
\* The chain above a registered block: pending_blocks and pending_block_parents
\* after `b` was registered on its parent with a cached ancestor `a`.
LEMMA RegisterPreserves ==
    ASSUME IInv, NEW b \in Blocks, NEW a \in Ancestors[b], ~has_state(ParentOf[b]),
           pending_blocks' = [pending_blocks EXCEPT ![ParentOf[b]] = @ \cup {b}],
           pending_block_parents' = Put(pending_block_parents, b, a),
           UNCHANGED <<states, block>>, pc' = "db", pc \in {"lineage", "db"},
           missing_root' \in Ancestors[block]
    PROVE  /\ pending_blocks' \in [Roots -> SUBSET Blocks]
           /\ DOMAIN pending_block_parents' \subseteq Blocks
           /\ \A c \in DOMAIN pending_block_parents' : pending_block_parents'[c] \in Roots
           /\ LineageIsAncestry'
           /\ NoLostWakeup'
<1>1. /\ ParentOf[b] \in Roots /\ a \in Roots
      /\ pending_blocks \in [Roots -> SUBSET Blocks]
  BY AncestryAssumption DEF IInv, TypeOK
<1>2. /\ pending_blocks' \in [Roots -> SUBSET Blocks]
      /\ pending_blocks'[ParentOf[b]] = pending_blocks[ParentOf[b]] \cup {b}
      /\ \A r \in Roots \ {ParentOf[b]} : pending_blocks'[r] = pending_blocks[r]
  BY <1>1
<1>3. /\ DOMAIN pending_block_parents' = DOMAIN pending_block_parents \cup {b}
      /\ pending_block_parents'[b] = a
      /\ \A c \in DOMAIN pending_block_parents : c # b =>
             pending_block_parents'[c] = pending_block_parents[c]
  BY DEF Put
<1>4. /\ \A c \in DOMAIN pending_block_parents :
             /\ pending_block_parents[c] \in Ancestors[c] /\ pending_block_parents[c] \in Roots
             /\ c \in Blocks /\ ParentOf[c] \in Roots
             /\ c \in pending_blocks[ParentOf[c]]
      /\ \A r \in Roots : \A c \in pending_blocks[r] :
             ParentOf[c] = r /\ c \in DOMAIN pending_block_parents
  BY AncestryAssumption DEF IInv, TypeOK, LineageIsAncestry, registered
<1>5. \A c \in DOMAIN pending_block_parents' :
          /\ pending_block_parents'[c] \in Ancestors[c] /\ pending_block_parents'[c] \in Roots
          /\ c \in Blocks
          /\ c \in pending_blocks'[ParentOf[c]]
  BY ZenonT(30), <1>1, <1>2, <1>3, <1>4
<1>6. \A r \in Roots : \A c \in pending_blocks'[r] :
          ParentOf[c] = r /\ c \in DOMAIN pending_block_parents'
  BY ZenonT(30), <1>1, <1>2, <1>3, <1>4
<1>7. LineageIsAncestry'
  BY <1>5, <1>6 DEF LineageIsAncestry, registered
<1>8. NoLostWakeup'
  BY <1>1, <1>2 DEF IInv, NoLostWakeup, has_state
<1> QED
  BY <1>2, <1>5, <1>7, <1>8

\* Registering the received block.
LEMMA PendPreserves == IInv /\ PendBlock => IInv'
<1> SUFFICES ASSUME IInv, PendBlock PROVE IInv'
  OBVIOUS
<1>1. /\ block \in Blocks
      /\ missing_root \in Ancestors[block]
      /\ ~has_state(ParentOf[block])
  BY DEF PendBlock, IInv, TypeOK, LineageIsAncestry, StepInv
<1>2. /\ headers' = headers \cup {block} /\ signed' = signed \cup {block}
      /\ UNCHANGED <<anchor, states, live, head, justified, finalized, queue, block,
                     missing_root, requested, rejected>>
      /\ pc = "lineage" /\ pc' = "db"
      /\ pending_block_parents' = Put(pending_block_parents, block, missing_root)
      /\ pending_blocks' = [pending_blocks EXCEPT ![ParentOf[block]] = @ \cup {block}]
  BY DEF PendBlock, insert_pending_block, write_signed_block, metadata, locals, history
<1>3. /\ pending_blocks' \in [Roots -> SUBSET Blocks]
      /\ DOMAIN pending_block_parents' \subseteq Blocks
      /\ \A c \in DOMAIN pending_block_parents' : pending_block_parents'[c] \in Roots
      /\ LineageIsAncestry'
      /\ NoLostWakeup'
  BY ZenonT(30), <1>1, <1>2, RegisterPreserves
<1>4. TypeOK'
  BY ZenonT(30), <1>1, <1>2, <1>3 DEF IInv, TypeOK
<1> QED
  BY <1>2, <1>3, <1>4 DEF IInv, StepInv

\* Registering a stored block on the way up.
LEMMA WalkHeadersPreserves == IInv /\ WalkHeaders => IInv'
<1> SUFFICES ASSUME IInv, WalkHeaders PROVE IInv'
  OBVIOUS
<1> DEFINE b == missing_root
           a == ParentOf[missing_root]
<1>1. /\ b \in Blocks
      /\ b \in Ancestors[block]
      /\ block \in Blocks
      /\ ~has_state(ParentOf[b])
      /\ a \in Ancestors[b] /\ a \in Roots
      /\ a \in Ancestors[block]
  BY AncestryAssumption DEF WalkHeaders, IInv, TypeOK, LineageIsAncestry
<1>2. /\ UNCHANGED <<anchor, headers, signed, states, live, head, justified, finalized, queue,
                     block, requested, rejected>>
      /\ pc = "db" /\ pc' = "db"
      /\ missing_root' = a
      /\ pending_block_parents' = Put(pending_block_parents, b, a)
      /\ pending_blocks' = [pending_blocks EXCEPT ![ParentOf[b]] = @ \cup {b}]
  BY DEF WalkHeaders, tables, metadata, history
<1> HIDE DEF a, b
<1>3. /\ pending_blocks' \in [Roots -> SUBSET Blocks]
      /\ DOMAIN pending_block_parents' \subseteq Blocks
      /\ \A c \in DOMAIN pending_block_parents' : pending_block_parents'[c] \in Roots
      /\ LineageIsAncestry'
      /\ NoLostWakeup'
  BY ZenonT(30), <1>1, <1>2, RegisterPreserves
<1>4. TypeOK'
  BY <1>1, <1>2, <1>3 DEF IInv, TypeOK
<1> QED
  BY ZenonT(30), <1>2, <1>3, <1>4 DEF IInv, StepInv

-----------------------------------------------------------------------------
\* The steps that leave the pending blocks alone.
LEMMA PlainSteps ==
    ASSUME IInv,
           \/ \E b \in SignedBlocks : NewBlock(b)
           \/ NextInQueue \/ WalkLineage \/ EnqueueStored \/ RequestMissing \/ RejectBlock
           \/ AdvanceCheckpoints \/ PruneLiveChain \/ InsertSignedBlock \/ InsertState
           \/ PruneOldStates \/ PruneOldBlocks \/ Tick
    PROVE  IInv'
<1> USE DEF IInv, TypeOK, LineageIsAncestry, NoLostWakeup, StepInv, registered, has_state,
            tables, metadata, pending, locals, history
<1>1. CASE \E b \in SignedBlocks : NewBlock(b)
  BY <1>1 DEF NewBlock, SignedBlocks
<1>2. CASE NextInQueue
  <2>1. Head(queue) \in Blocks /\ Tail(queue) \in Seq(Blocks)
    <3>1. queue \in Seq(Blocks) /\ queue # <<>>
      BY <1>2 DEF NextInQueue
    <3> QED
      BY ZenonT(30), <3>1, HeadTail
  <2>2. ParentOf[Head(queue)] \in Roots /\ ParentOf[Head(queue)] \in Ancestors[Head(queue)]
    BY ZenonT(30), <2>1, AncestryAssumption
  <2> QED
    BY <1>2, <2>1, <2>2 DEF NextInQueue, Roots
<1>3. CASE WalkLineage
  <2>1. /\ missing_root \in Blocks /\ missing_root \in Ancestors[block] /\ block \in Blocks
        /\ missing_root' \in Ancestors[missing_root] /\ missing_root' \in Roots
    BY <1>3 DEF WalkLineage
  <2>2. missing_root' \in Ancestors[block]
    BY ZenonT(30), <2>1, AncestryAssumption
  <2> QED
    BY ZenonT(30), <1>3, <2>1, <2>2 DEF WalkLineage
<1>4. CASE EnqueueStored
  <2>1. queue \in Seq(Blocks) /\ missing_root \in Blocks /\ queue' = Append(queue, missing_root)
    BY <1>4 DEF EnqueueStored
  <2>2. queue' \in Seq(Blocks)
    BY ZenonT(30), <2>1, AppendBlock
  <2> QED
    BY ZenonT(30), <1>4, <2>2 DEF EnqueueStored
<1>5. CASE RequestMissing
  BY ZenonT(30), <1>5 DEF RequestMissing
<1>6. CASE RejectBlock
  BY ZenonT(30), <1>6 DEF RejectBlock
<1>7. CASE AdvanceCheckpoints
  <2>1. block \in Blocks
    BY <1>7 DEF AdvanceCheckpoints
  <2>2. Post[block].justified \in Blocks /\ Post[block].finalized \in Blocks
    BY ZenonT(30), <2>1, BlocksAssumption
  <2>3. justified' \in Blocks /\ finalized' \in Blocks
    BY ZenonT(30), <1>7, <2>2 DEF AdvanceCheckpoints, later
  <2> QED
    BY ZenonT(30), <1>7, <2>3 DEF AdvanceCheckpoints
<1>8. CASE InsertSignedBlock
  BY ZenonT(30), <1>8 DEF InsertSignedBlock, write_signed_block
<1>9. CASE InsertState
  BY ZenonT(30), <1>9 DEF InsertState
<1>10. CASE PruneLiveChain
  BY ZenonT(30), <1>10 DEF PruneLiveChain
<1>11. CASE PruneOldStates
  <2>1. states' \subseteq states
    BY ZenonT(30), <1>11 DEF PruneOldStates
  <2> QED
    BY ZenonT(30), <1>11, <2>1 DEF PruneOldStates
<1>12. CASE PruneOldBlocks
  <2>1. headers' \subseteq headers /\ signed' \subseteq headers'
    BY <1>12 DEF PruneOldBlocks, newest
  <2> QED
    BY ZenonT(30), <1>12, <2>1 DEF PruneOldBlocks
<1>13. CASE Tick
  <2>1. head' \in Blocks /\ pc' \in {"idle", "stopped"}
    BY ZenonT(30), <1>13 DEF Tick, update_head, ghost_heads
  <2> QED
    BY ZenonT(30), <1>13, <2>1 DEF Tick
<1> QED
  BY ZenonT(30), <1>1, <1>2, <1>3, <1>4, <1>5, <1>6, <1>7, <1>8, <1>9, <1>10, <1>11, <1>12, <1>13

\* A crash at any step, and the start on what it left in the tables.
LEMMA RestartPreserves == IInv /\ Restart => IInv'
<1> SUFFICES ASSUME IInv, Restart PROVE IInv'
  OBVIOUS
<1>1. PICK start \in Anchors : init_store(start)
  BY DEF Restart
<1>2. start \in Blocks
  BY BlocksAssumption
<1>3. /\ pending_blocks' = [r \in Roots |-> {}] /\ DOMAIN pending_block_parents' = {}
      /\ pc' = "idle" /\ queue' = <<>> /\ block' = ZERO /\ missing_root' = ZERO
      /\ requested' = {} /\ rejected' = {}
  BY DEF Restart, EmptyMap
<1>4. TypeOK'
  <2>1. /\ headers \subseteq Blocks /\ signed \subseteq headers
        /\ states \subseteq Blocks /\ live \subseteq Blocks
    BY DEF IInv, TypeOK
  <2>2. ZERO \in Roots /\ queue' \in Seq(Blocks)
    BY <1>3 DEF Roots
  <2> QED
    BY ZenonT(30), <1>1, <1>2, <1>3, <2>1, <2>2 DEF init_store, TypeOK
<1>5. LineageIsAncestry'
  BY <1>3 DEF LineageIsAncestry
<1>6. NoLostWakeup' /\ StepInv'
  BY <1>3 DEF NoLostWakeup, StepInv
<1> QED
  BY <1>4, <1>5, <1>6 DEF IInv

\* Every step of on_block, every tick and every crash preserves the invariant.
LEMMA StepPreserves == IInv /\ [Next]_vars => IInv'
<1> SUFFICES ASSUME IInv, [Next]_vars PROVE IInv'
  BY ZenonT(30)
<1>1. CASE UNCHANGED vars
  BY <1>1 DEF vars, tables, metadata, pending, locals, history, IInv, TypeOK,
              LineageIsAncestry, NoLostWakeup, StepInv, registered, has_state
<1>2. CASE ImportDuplicate
  <2>1. block \in Blocks /\ collect_pending_children(block)
    BY ZenonT(30), <1>2 DEF ImportDuplicate, IInv, TypeOK
  <2>2. TypeOK'
    BY <1>2, <2>1, CollectedTypes
       DEF ImportDuplicate, IInv, TypeOK, tables, metadata, locals, history
  <2> QED
    BY <1>2, <2>2, CollectPreserves DEF ImportDuplicate
<1>3. CASE FinishImport
  <2>1. /\ block \in Blocks /\ collect_pending_children(block)
        /\ head' \in Blocks
    BY ZenonT(30), <1>3 DEF FinishImport, IInv, TypeOK, update_head, ghost_heads
  <2>2. TypeOK'
    BY <1>3, <2>1, CollectedTypes DEF FinishImport, IInv, TypeOK, tables, locals, history
  <2>3. has_state(block)
    BY <1>3 DEF FinishImport, IInv, StepInv
  <2> QED
    BY <1>3, <2>2, <2>3, CollectPreserves DEF FinishImport
<1> QED
  BY <1>1, <1>2, <1>3, PendPreserves, WalkHeadersPreserves, PlainSteps, RestartPreserves
     DEF Next, Step

(***************************************************************************)
(* For every tree of blocks and every order of arrival, crash and prune,   *)
(* the maps of the actor and its tables are well formed, no wake-up is     *)
(* lost and cached ancestors are ancestors.                                *)
(***************************************************************************)
THEOREM Invariance == Spec => []IInv
  BY InitIInv, StepPreserves, PTL DEF Spec

\* The tables, the pending maps and the local variables of on_block keep their
\* types: a signature row never outlives its header row.
THEOREM TypeCorrect == Spec => []TypeOK
<1>1. IInv => TypeOK
  BY DEF IInv
<1> QED
  BY <1>1, Invariance, PTL

\* No import of a parent misses a child registered by process_or_pend_block.
THEOREM WakeupTheorem == Spec => []NoLostWakeup
<1>1. IInv => NoLostWakeup
  BY DEF IInv
<1> QED
  BY <1>1, Invariance, PTL

\* The walks of process_or_pend_block go strictly up the chain, stale entries of
\* pending_block_parents included.
THEOREM LineageTheorem == Spec => []LineageIsAncestry
<1>1. IInv => LineageIsAncestry
  BY DEF IInv
<1> QED
  BY <1>1, Invariance, PTL

-----------------------------------------------------------------------------
(***************************************************************************)
(* In the middle of on_block, what a pending block waits for may also be   *)
(* in the queue or in the hands of the current step.                       *)
(***************************************************************************)
Waits(r) ==
    \/ registered(r)
    \/ r \in requested \ headers
    \/ r \in rejected
    \/ \E i \in 1 .. Len(queue) : queue[i] = r
    \/ pc = "db" /\ missing_root = r
    \/ pc \in {"lineage", "import", "prune", "insert", "state", "head"} /\ block = r

\* The anchor alone lacks a signature row, and it is never a child of a block with
\* a state, since every state is the anchor's or a descendant's.
SInv ==
    /\ \A r \in Roots : pending_blocks[r] # {} => Waits(r)
    /\ pc = "lineage" => missing_root = ParentOf[block] \/ registered(ParentOf[block])
    /\ pc \in {"import", "prune", "insert", "state", "head"} => has_state(ParentOf[block])
    /\ \A b \in states : b = anchor \/ anchor \in Ancestors[b]
    /\ headers \subseteq signed \cup {anchor}
    /\ \A r \in Roots : pending_blocks[r] \subseteq headers

\* A process starts with nothing pending and the anchor's rows only.
LEMMA InitSInv == Init => SInv
  BY AncestryAssumption DEF Init, SInv, Roots

\* Every child that collect_pending_children wakes has its signature row.
LEMMA ChildrenSigned ==
    ASSUME IInv, SInv, NEW b \in Blocks, has_state(b)
    PROVE  pending_blocks[b] \subseteq signed
<1> SUFFICES ASSUME NEW c \in pending_blocks[b], c \notin signed PROVE FALSE
  BY ZenonT(30)
<1>1. c \in Blocks /\ ParentOf[c] = b /\ c = anchor
  BY ZenonT(30) DEF IInv, TypeOK, LineageIsAncestry, SInv, Roots
<1>2. b \in Ancestors[c] /\ c \notin Ancestors[c] /\ Ancestors[b] \subseteq Ancestors[c]
  BY <1>1, AncestryAssumption
<1>3. b = c \/ c \in Ancestors[b]
  BY ZenonT(30), <1>1 DEF SInv, has_state
<1> QED
  BY <1>2, <1>3

\* Waking children moves them from the map to the queue.
LEMMA CollectWaits ==
    ASSUME IInv, SInv, collect_pending_children(block), pc \in {"import", "head"},
           has_state(block), pc' = "loop",
           UNCHANGED <<anchor, tables, locals, history>>
    PROVE  SInv'
<1>1. block \in Blocks
  BY DEF IInv, TypeOK
<1>2. /\ pending_blocks'[block] = {}
      /\ \A r \in Roots \ {block} : pending_blocks'[r] = pending_blocks[r]
  BY Zenon, <1>1, Collected
<1>3. PICK order \in orders(pending_blocks[block] \cap signed) : queue' = queue \o order
  BY ZenonT(30), <1>1, Collected
<1>4. /\ \A i \in 1 .. Len(queue) : queue'[i] = queue[i] /\ i \in 1 .. Len(queue')
      /\ \A c \in pending_blocks[block] : \E i \in 1 .. Len(queue') : queue'[i] = c
  <2>1. pending_blocks[block] \cap signed = pending_blocks[block]
    BY ZenonT(30), <1>1, ChildrenSigned
  <2>2. queue \in Seq(Blocks) /\ pending_blocks[block] \in SUBSET Blocks
    BY <1>1 DEF IInv, TypeOK, Roots
  <2> DEFINE S == pending_blocks[block]
  <2>3. order \in orders(S)
    BY Zenon, <1>3, <2>1
  <2>4. S \in SUBSET Blocks
    BY <2>2
  <2> HIDE DEF S
  <2>5. /\ \A i \in 1 .. Len(queue) :
               (queue \o order)[i] = queue[i] /\ i \in 1 .. Len(queue \o order)
        /\ \A c \in S : \E i \in 1 .. Len(queue \o order) : (queue \o order)[i] = c
    BY ZenonT(30), <2>2, <2>3, <2>4, OrderedQueue
  <2> QED
    BY ZenonT(30), <1>3, <2>5 DEF S
<1>5. ASSUME NEW r \in Roots, pending_blocks'[r] # {} PROVE Waits(r)'
  <2>1. r # block /\ Waits(r)
    BY <1>2, <1>5 DEF SInv
  <2>2. CASE registered(r)
    <3>1. r \in Blocks /\ ParentOf[r] \in Roots /\ r \in pending_blocks[ParentOf[r]]
      BY ZenonT(30), <2>2, AncestryAssumption DEF registered
    <3>2. CASE ParentOf[r] = block
      BY ZenonT(30), <1>4, <3>1, <3>2 DEF Waits
    <3>3. CASE ParentOf[r] # block
      BY <1>2, <3>1, <3>3 DEF Waits, registered
    <3> QED
      BY ZenonT(30), <3>2, <3>3
  <2>3. CASE \E i \in 1 .. Len(queue) : queue[i] = r
    BY ZenonT(30), <1>4, <2>3 DEF Waits
  <2> QED
    BY ZenonT(30), <2>1, <2>2, <2>3 DEF Waits, tables, locals, history
<1> QED
  BY ZenonT(30), <1>1, <1>2, <1>5 DEF SInv, has_state, tables, locals, Roots

\* Registering a block `b` on its parent, which is then what the walk looks for or
\* is registered itself.
LEMMA RegisterWaits ==
    ASSUME IInv, SInv, NEW b \in Blocks,
           pending_blocks' = [pending_blocks EXCEPT ![ParentOf[b]] = @ \cup {b}],
           b \in headers',
           \/ headers' = headers /\ signed' = signed /\ pc = "db" /\ b = missing_root
           \/ /\ headers' = headers \cup {b} /\ signed' = signed \cup {b}
              /\ pc = "lineage" /\ b = block,
           missing_root' = ParentOf[b] \/ registered(ParentOf[b]),
           pc' = "db",
           UNCHANGED <<anchor, states, queue, block, requested, rejected>>
    PROVE  SInv'
<1>1. /\ ParentOf[b] \in Roots
      /\ pending_blocks \in [Roots -> SUBSET Blocks]
      /\ \A c \in Blocks : ParentOf[c] \in Roots
  BY AncestryAssumption DEF IInv, TypeOK
<1>2. /\ pending_blocks'[ParentOf[b]] = pending_blocks[ParentOf[b]] \cup {b}
      /\ \A r \in Roots \ {ParentOf[b]} : pending_blocks'[r] = pending_blocks[r]
  BY <1>1
<1>3. \A r \in Roots : registered(r) => registered(r)'
  BY ZenonT(30), <1>1, <1>2 DEF registered
<1>4. registered(b)'
  BY <1>2 DEF registered
<1>5. ASSUME NEW r \in Roots, pending_blocks'[r] # {} PROVE Waits(r)'
  <2>1. CASE r = ParentOf[b]
    BY ZenonT(30), <1>3, <1>1, <2>1 DEF Waits
  <2>2. CASE r # ParentOf[b] /\ r # b
    <3>1. Waits(r)
      BY ZenonT(30), <1>2, <1>5, <2>2 DEF SInv
    <3> QED
      BY <1>3, <2>2, <3>1 DEF Waits
  <2>3. CASE r = b
    BY <1>4, <2>3 DEF Waits
  <2> QED
    BY ZenonT(30), <2>1, <2>2, <2>3
<1>6. \A r \in Roots : pending_blocks'[r] \subseteq headers'
  BY ZenonT(30), <1>1, <1>2 DEF SInv
<1> QED
  BY ZenonT(30), <1>5, <1>6 DEF SInv, has_state

\* Taking the next block out of the queue puts it into the hands of the step.
LEMMA NextInQueueWaits ==
    ASSUME IInv, SInv, NextInQueue
    PROVE  SInv'
<1> USE DEF tables, metadata, pending, locals, history
<1>1. /\ queue \in Seq(Blocks) /\ queue # <<>>
      /\ queue' = Tail(queue) /\ block' = Head(queue)
      /\ Head(queue) = queue[1]
      /\ pc' \in {"import", "lineage"}
      /\ UNCHANGED <<anchor, headers, signed, states, pending_blocks, requested, rejected>>
  BY DEF NextInQueue, IInv, TypeOK
<1>2. \A i \in 1 .. Len(queue) :
          \/ queue[i] = block'
          \/ i - 1 \in 1 .. Len(queue') /\ queue'[i - 1] = queue[i]
  BY <1>1
<1>3. ASSUME NEW r \in Roots, pending_blocks[r] # {} PROVE Waits(r)'
  <2>1. Waits(r)
    BY <1>3 DEF SInv
  <2>2. CASE \E i \in 1 .. Len(queue) : queue[i] = r
    <3>1. PICK i \in 1 .. Len(queue) : queue[i] = r
      BY <2>2
    <3>2. block' = r \/ (i - 1 \in 1 .. Len(queue') /\ queue'[i - 1] = r)
      BY ZenonT(30), <1>2, <3>1
    <3> QED
      BY <1>1, <3>2 DEF Waits
  <2>3. CASE ~\E i \in 1 .. Len(queue) : queue[i] = r
    BY ZenonT(30), <1>1, <2>1, <2>3 DEF Waits, registered, NextInQueue
  <2> QED
    BY ZenonT(30), <2>2, <2>3
<1>4. /\ pc' = "lineage" => missing_root' = ParentOf[block']
      /\ pc' = "import" => has_state(ParentOf[block'])
  BY DEF NextInQueue
<1> QED
  BY ZenonT(30), <1>1, <1>3, <1>4 DEF SInv, has_state

\* Between two blocks nothing waits for the queue or for a step.
LEMMA IdleWaits ==
    ASSUME IInv, SInv, pc = "idle"
    PROVE  /\ queue = <<>>
           /\ \A r \in Roots : pending_blocks[r] # {} => \/ registered(r)
                                                       \/ r \in requested \ headers
                                                       \/ r \in rejected
<1>1. queue = <<>>
  BY DEF IInv, StepInv
<1>2. \A r \in Roots : ~\E i \in 1 .. Len(queue) : queue[i] = r
  BY <1>1
<1>3. \A r \in Roots : pending_blocks[r] # {} => Waits(r)
  BY DEF SInv
<1> QED
  BY <1>1, <1>2, <1>3 DEF Waits

\* prune_old_blocks keeps every header if it has room for every block.
LEMMA RoomForAll ==
    ASSUME NEW H \in SUBSET Blocks, Cardinality(Blocks) <= BLOCKS_TO_KEEP
    PROVE  Cardinality(H) <= BLOCKS_TO_KEEP
<1>1. IsFiniteSet(Blocks) /\ BLOCKS_TO_KEEP \in Nat
  BY ZenonT(30), BlocksAssumption, RetentionAssumption
<1>2. IsFiniteSet(H) /\ Cardinality(H) <= Cardinality(Blocks)
  BY ZenonT(30), <1>1, FS_Subset
<1>3. Cardinality(H) \in Nat /\ Cardinality(Blocks) \in Nat
  BY ZenonT(30), <1>1, <1>2, FS_CardinalityType
<1> QED
  BY <1>1, <1>2, <1>3

\* The other steps, when no block row is ever pruned and restarts keep the anchor.
LEMMA PlainWaits ==
    ASSUME IInv, SInv, Cardinality(Blocks) <= BLOCKS_TO_KEEP,
           \/ \E b \in SignedBlocks : NewBlock(b)
           \/ WalkLineage \/ EnqueueStored \/ RequestMissing \/ RejectBlock
           \/ AdvanceCheckpoints \/ PruneLiveChain \/ InsertSignedBlock \/ InsertState
           \/ PruneOldStates \/ PruneOldBlocks \/ Tick
    PROVE  SInv'
<1> USE DEF SInv, Waits, registered, has_state, tables, metadata, pending, locals, history
<1>1. CASE \E b \in SignedBlocks : NewBlock(b)
  <2>1. /\ pc = "idle" /\ pc' = "loop" /\ rejected' = rejected /\ requested' = requested
        /\ UNCHANGED <<anchor, tables, pending, locals>>
    BY ZenonT(30), <1>1 DEF NewBlock
  <2>2. \A r \in Roots : pending_blocks[r] # {} => \/ registered(r)
                                                 \/ r \in requested \ headers
                                                 \/ r \in rejected
    BY ZenonT(30), <2>1, IdleWaits
  <2>3. \A r \in Roots : pending_blocks'[r] # {} => Waits(r)'
    BY ZenonT(30), <2>1, <2>2
  <2> QED
    BY ZenonT(30), <2>1, <2>3
<1>2. CASE WalkLineage
  <2>1. registered(ParentOf[block])
    <3> HIDE DEF SInv, Waits, registered
    <3>1. pc = "lineage" /\ missing_root \in DOMAIN pending_block_parents
      BY ZenonT(30), <1>2 DEF WalkLineage
    <3>2. missing_root = ParentOf[block] \/ registered(ParentOf[block])
      BY <3>1 DEF SInv
    <3>3. registered(missing_root)
      BY ZenonT(30), <3>1 DEF IInv, LineageIsAncestry
    <3> QED
      BY ZenonT(30), <3>2, <3>3
  <2> QED
    BY <1>2, <2>1 DEF WalkLineage
<1>3. CASE EnqueueStored
  <2>1. /\ queue \in Seq(Blocks) /\ missing_root \in Blocks
        /\ queue' = Append(queue, missing_root)
    <3> HIDE DEF SInv, Waits, registered, has_state
    <3>1. missing_root \in headers /\ queue' = Append(queue, missing_root)
      BY ZenonT(30), <1>3 DEF EnqueueStored
    <3>2. queue \in Seq(Blocks) /\ headers \subseteq Blocks
      BY DEF IInv, TypeOK
    <3> QED
      BY <3>1, <3>2
  <2>2. /\ \A i \in 1 .. Len(queue) : queue'[i] = queue[i] /\ i \in 1 .. Len(queue')
        /\ \E i \in 1 .. Len(queue') : queue'[i] = missing_root
    BY ZenonT(30), <2>1, AppendBlock
  <2> QED
    BY <1>3, <2>2 DEF EnqueueStored
<1>4. CASE RequestMissing
  BY ZenonT(30), <1>4 DEF RequestMissing
<1>5. CASE RejectBlock
  BY ZenonT(30), <1>5 DEF RejectBlock
<1>6. CASE AdvanceCheckpoints
  BY ZenonT(30), <1>6 DEF AdvanceCheckpoints
<1>7. CASE InsertSignedBlock
  BY ZenonT(30), <1>7 DEF InsertSignedBlock, write_signed_block
<1>8. CASE InsertState
  <2>1. block \in Blocks /\ has_state(ParentOf[block]) /\ ParentOf[block] \in Blocks
    BY ZenonT(30), <1>8 DEF InsertState, IInv, TypeOK
  <2>2. anchor \in Ancestors[block]
    BY <2>1, AncestryAssumption
  <2> QED
    BY ZenonT(30), <1>8, <2>2 DEF InsertState
<1>9. CASE PruneLiveChain
  BY ZenonT(30), <1>9 DEF PruneLiveChain
<1>10. CASE PruneOldStates
  <2>1. states' \subseteq states /\ Len(queue) = 0
    BY ZenonT(30), <1>10 DEF PruneOldStates
  <2> QED
    BY ZenonT(30), <1>10, <2>1 DEF PruneOldStates
<1>11. CASE PruneOldBlocks
  <2>1. Cardinality(headers) <= BLOCKS_TO_KEEP
    BY ZenonT(30), RoomForAll DEF IInv, TypeOK
  <2>2. newest(BLOCKS_TO_KEEP) = {headers}
    BY ZenonT(30), <2>1 DEF newest
  <2>3. headers' = headers /\ signed' = signed
    BY ZenonT(30), <1>11, <2>2 DEF PruneOldBlocks, IInv, TypeOK
  <2> QED
    BY ZenonT(30), <1>11, <2>3 DEF PruneOldBlocks, IInv, StepInv
<1>12. CASE Tick
  BY Zenon, <1>12 DEF Tick
<1> QED
  BY ZenonT(30), <1>1, <1>2, <1>3, <1>4, <1>5, <1>6, <1>7, <1>8, <1>9, <1>10, <1>11, <1>12

\* Every step keeps SInv.
LEMMA StepWaits ==
    ASSUME IInv, SInv, [Next]_vars, ~Reanchor, Cardinality(Blocks) <= BLOCKS_TO_KEEP
    PROVE  SInv'
<1> USE DEF tables, metadata, pending, locals, history
<1>1. CASE UNCHANGED vars
  BY <1>1 DEF vars, SInv, Waits, registered, has_state
<1>2. CASE PendBlock
  <2>1. /\ block \in Blocks /\ pc = "lineage" /\ pc' = "db"
        /\ pending_blocks' = [pending_blocks EXCEPT ![ParentOf[block]] = @ \cup {block}]
        /\ headers' = headers \cup {block} /\ signed' = signed \cup {block}
        /\ UNCHANGED <<anchor, states, queue, block, missing_root, requested, rejected>>
    BY <1>2 DEF PendBlock, insert_pending_block, write_signed_block, IInv, TypeOK
  <2>2. missing_root' = ParentOf[block] \/ registered(ParentOf[block])
    BY ZenonT(30), <2>1 DEF SInv
  <2> QED
    BY ZenonT(30), <2>1, <2>2, RegisterWaits
<1>3. CASE WalkHeaders
  <2>1. missing_root \in Blocks
    BY ZenonT(30), <1>3 DEF WalkHeaders, IInv, TypeOK
  <2> QED
    BY ZenonT(30), <1>3, <2>1, RegisterWaits DEF WalkHeaders
<1>4. CASE ImportDuplicate
  BY ZenonT(30), <1>4, CollectWaits DEF ImportDuplicate
<1>5. CASE FinishImport
  <2>1. has_state(block)
    BY ZenonT(30), <1>5 DEF FinishImport, IInv, StepInv
  <2> QED
    BY <1>5, <2>1, CollectWaits DEF FinishImport
<1>6. CASE Restart
  BY <1>6 DEF Restart, init_store, SInv, has_state
<1> QED
  BY ZenonT(30), <1>1, <1>2, <1>3, <1>4, <1>5, <1>6, NextInQueueWaits, PlainWaits DEF Next, Step

(***************************************************************************)
(* Whatever a pending block waits for is pending, on its way or failed,    *)
(* provided that restarts keep their anchor and prune_old_blocks has room  *)
(* for every block.                                                        *)
(***************************************************************************)
THEOREM NeverStrandedTheorem ==
    ASSUME ~Reanchor, Cardinality(Blocks) <= BLOCKS_TO_KEEP
    PROVE  Spec => []NeverStranded
<1>1. IInv /\ SInv /\ [Next]_vars => SInv'
  BY ZenonT(30), StepWaits
<1>2. IInv /\ SInv => NeverStranded
  BY IdleWaits DEF NeverStranded
<1> QED
  BY <1>1, <1>2, InitSInv, Invariance, PTL DEF Spec

-----------------------------------------------------------------------------
(***************************************************************************)
(* Retention.  A row is there, or the block fell out of the window.        *)
(***************************************************************************)
HeaderKept(b) == b \in headers \/ buried(b, BLOCKS_TO_KEEP)

StateKept(b) == b \in states \/ buried(b, STATES_TO_KEEP)

\* The blocks of H that bury r.
Above(r, H) == {b \in H \ {r} : SlotOf[b] >= SlotOf[r]}

\* More headers, more of them above a block.
LEMMA AboveGrows ==
    ASSUME NEW K \in SUBSET Blocks, NEW H \in SUBSET K, NEW r \in Blocks, NEW k \in Nat,
           Cardinality(Above(r, H)) >= k
    PROVE  Cardinality(Above(r, K)) >= k
<1>1. Above(r, H) \subseteq Above(r, K) /\ Above(r, K) \subseteq Blocks
  BY ZenonT(30) DEF Above
<1>2. IsFiniteSet(Above(r, K))
  BY ZenonT(30), <1>1, BlocksAssumption, FS_Subset
<1>3. /\ Cardinality(Above(r, H)) <= Cardinality(Above(r, K))
      /\ Cardinality(Above(r, H)) \in Nat /\ Cardinality(Above(r, K)) \in Nat
  BY <1>1, <1>2, FS_Subset, FS_CardinalityType
<1> QED
  BY <1>3

\* What `newest` keeps buries what it drops, and all that was buried less deep than
\* the window, or is itself dropped, stays buried.
LEMMA NewestBuries ==
    ASSUME NEW H \in SUBSET Blocks, NEW kept \in SUBSET H, NEW keep \in Nat,
           Cardinality(kept) = keep,
           \A b \in kept, c \in H \ kept : SlotOf[b] >= SlotOf[c],
           NEW r \in Blocks
    PROVE  /\ r \in H \ kept => Cardinality(Above(r, kept)) >= keep
           /\ \A k \in 0 .. keep : 
                (k < keep \/ r \notin kept) /\ Cardinality(Above(r, H)) >= k
                    => Cardinality(Above(r, kept)) >= k
<1>1. IsFiniteSet(kept) /\ IsFiniteSet(Above(r, kept))
  <2>1. kept \subseteq Blocks /\ Above(r, kept) \subseteq Blocks
    BY DEF Above
  <2> QED
    BY ZenonT(30), <2>1, BlocksAssumption, FS_Subset
<1>2. Cardinality(Above(r, kept)) \in Nat
  BY ZenonT(30), <1>1, FS_CardinalityType
<1>3. ASSUME NEW c \in H \ kept, SlotOf[c] >= SlotOf[r]
      PROVE  /\ Cardinality(Above(r, kept)) >= keep - 1
             /\ r \notin kept => Cardinality(Above(r, kept)) >= keep
  <2>1. SlotOf \in [Blocks -> Nat]
    BY BlocksAssumption
  <2>2. kept \ {r} \subseteq Above(r, kept)
    <3>1. ASSUME NEW b \in kept PROVE SlotOf[b] >= SlotOf[r]
      <4>1. SlotOf[b] >= SlotOf[c] /\ b \in Blocks /\ c \in Blocks
        OBVIOUS
      <4>2. SlotOf[b] \in Nat /\ SlotOf[c] \in Nat /\ SlotOf[r] \in Nat
        BY ZenonT(30), <2>1, <4>1
      <4> QED
        BY <1>3, <4>1, <4>2
    <3> QED
      BY <3>1 DEF Above
  <2>3. Cardinality(kept \ {r}) <= Cardinality(Above(r, kept))
    BY <1>1, <2>2, FS_Subset
  <2>4. Cardinality(kept \ {r}) = IF r \in kept THEN keep - 1 ELSE keep
    BY ZenonT(30), <1>1, FS_RemoveElement
  <2>5. Cardinality(kept \ {r}) >= keep - 1 /\ Cardinality(kept \ {r}) \in Int
    BY <2>4
  <2> QED
    BY <1>2, <2>3, <2>4, <2>5
<1>4. r \in H \ kept => Cardinality(Above(r, kept)) >= keep
  <2>1. SlotOf[r] >= SlotOf[r]
    BY BlocksAssumption
  <2> QED
    BY ZenonT(30), <1>3, <2>1
<1>5. ASSUME NEW k \in 0 .. keep, k < keep \/ r \notin kept, Cardinality(Above(r, H)) >= k
      PROVE  Cardinality(Above(r, kept)) >= k
  <2>1. CASE Above(r, H) \subseteq kept
    <3>1. Above(r, H) = Above(r, kept)
      BY ZenonT(30), <2>1 DEF Above
    <3> QED
      BY ZenonT(30), <1>5, <3>1
  <2>2. CASE ~(Above(r, H) \subseteq kept)
    <3>1. PICK c \in H \ kept : SlotOf[c] >= SlotOf[r]
      BY ZenonT(30), <2>2 DEF Above
    <3>2. /\ Cardinality(Above(r, kept)) >= keep - 1
          /\ r \notin kept => Cardinality(Above(r, kept)) >= keep
      BY <1>3, <3>1
    <3> QED
      BY <1>2, <1>5, <3>2
  <2> QED
    BY ZenonT(30), <2>1, <2>2
<1> QED
  BY ZenonT(30), <1>4, <1>5

\* What a choice of `newest` is.
LEMMA NewestKeeps ==
    ASSUME NEW keep \in Nat, NEW kept \in newest(keep)
    PROVE  \/ kept = headers
           \/ /\ kept \in SUBSET headers
              /\ Cardinality(kept) = keep
              /\ \A b \in kept, c \in headers \ kept : SlotOf[b] >= SlotOf[c]
  BY ZenonT(30) DEF newest

\* No step takes a header away from a block that is not buried, or digs one out.
LEMMA HeaderStays ==
    ASSUME IInv, [Next]_vars, NEW r \in Blocks, HeaderKept(r)
    PROVE  HeaderKept(r)'
<1> USE DEF tables, metadata, pending, locals, history
<1>1. headers \in SUBSET Blocks /\ headers' \in SUBSET Blocks
  BY StepPreserves DEF IInv, TypeOK
<1>2. CASE headers \subseteq headers'
  <2>1. buried(r, BLOCKS_TO_KEEP) => buried(r, BLOCKS_TO_KEEP)'
    BY ZenonT(30), <1>1, <1>2, AboveGrows, RetentionAssumption DEF buried, Above
  <2> QED
    BY <1>2, <2>1 DEF HeaderKept
<1>3. CASE PruneOldBlocks
  <2>1. PICK kept \in newest(BLOCKS_TO_KEEP) : headers' = kept \cup (headers \cap protected)
    BY <1>3 DEF PruneOldBlocks
  <2>2. CASE kept = headers
    BY <1>2, <2>1, <2>2
  <2>3. CASE /\ kept \in SUBSET headers
             /\ Cardinality(kept) = BLOCKS_TO_KEEP
             /\ \A b \in kept, c \in headers \ kept : SlotOf[b] >= SlotOf[c]
    <3>1. CASE r \in kept
      BY ZenonT(30), <2>1, <3>1 DEF HeaderKept
    <3>2. CASE r \notin kept
      <4>1. r \in headers \/ Cardinality(Above(r, headers)) >= BLOCKS_TO_KEEP
        BY DEF HeaderKept, buried, Above
      <4>2. BLOCKS_TO_KEEP \in Nat /\ BLOCKS_TO_KEEP \in 0 .. BLOCKS_TO_KEEP
        BY RetentionAssumption
      <4>3. Cardinality(Above(r, kept)) >= BLOCKS_TO_KEEP
        BY ZenonT(30), <1>1, <2>3, <3>2, <4>1, <4>2, NewestBuries
      <4>4. kept \in SUBSET headers'
        BY ZenonT(30), <2>1
      <4>5. Cardinality(Above(r, headers')) >= BLOCKS_TO_KEEP
        BY ZenonT(30), <1>1, <4>2, <4>3, <4>4, AboveGrows
      <4> QED
        BY ZenonT(30), <4>5 DEF HeaderKept, buried, Above
    <3> QED
      BY <3>1, <3>2
  <2> QED
    BY ZenonT(30), <2>1, <2>2, <2>3, NewestKeeps, RetentionAssumption
<1>4. CASE ~PruneOldBlocks
  <2>1. CASE Restart
    BY <1>2, <2>1 DEF Restart, init_store
  <2>2. CASE ~Restart
    <3>1. headers' = headers \/ headers' = headers \cup {block}
      BY ZenonT(30), <1>4, <2>2
         DEF Next, Step, vars, NewBlock, NextInQueue, WalkLineage, PendBlock, insert_pending_block, 
             write_signed_block, WalkHeaders, EnqueueStored, RequestMissing, ImportDuplicate, 
             RejectBlock, AdvanceCheckpoints, PruneLiveChain, InsertSignedBlock, InsertState, 
             FinishImport, PruneOldStates, Tick
    <3> QED
      BY ZenonT(30), <1>2, <3>1
  <2> QED
    BY ZenonT(30), <2>1, <2>2
<1> QED
  BY ZenonT(30), <1>3, <1>4

\* No step takes a state away from a block that is not buried, or digs one out, if
\* states are kept for fewer blocks than headers.
LEMMA StateStays ==
    ASSUME IInv, [Next]_vars, STATES_TO_KEEP < BLOCKS_TO_KEEP, NEW r \in Blocks, StateKept(r)
    PROVE  StateKept(r)'
<1> USE DEF tables, metadata, pending, locals, history
<1>1. headers \in SUBSET Blocks /\ headers' \in SUBSET Blocks
  BY ZenonT(30), StepPreserves DEF IInv, TypeOK
<1>2. STATES_TO_KEEP \in Nat /\ BLOCKS_TO_KEEP \in Nat
  BY RetentionAssumption
<1>3. ASSUME headers \subseteq headers'
      PROVE  buried(r, STATES_TO_KEEP) => buried(r, STATES_TO_KEEP)'
  BY ZenonT(30), <1>1, <1>2, <1>3, AboveGrows DEF buried, Above
<1>4. CASE PruneOldBlocks
  <2>1. PICK kept \in newest(BLOCKS_TO_KEEP) : headers' = kept \cup (headers \cap protected)
    BY ZenonT(30), <1>4 DEF PruneOldBlocks
  <2>2. states' = states
    BY <1>4 DEF PruneOldBlocks
  <2>3. CASE kept = headers
    BY ZenonT(30), <1>3, <2>1, <2>2, <2>3 DEF StateKept
  <2>4. CASE /\ kept \in SUBSET headers
             /\ Cardinality(kept) = BLOCKS_TO_KEEP
             /\ \A b \in kept, c \in headers \ kept : SlotOf[b] >= SlotOf[c]
    <3>1. SUFFICES ASSUME Cardinality(Above(r, headers)) >= STATES_TO_KEEP
                   PROVE  Cardinality(Above(r, headers')) >= STATES_TO_KEEP
      BY <2>2 DEF StateKept, buried, Above
    <3>2. STATES_TO_KEEP \in 0 .. BLOCKS_TO_KEEP
      BY <1>2
    <3>3. Cardinality(Above(r, kept)) >= STATES_TO_KEEP
      BY ZenonT(30), <1>1, <1>2, <2>4, <3>1, <3>2, NewestBuries
    <3>4. kept \in SUBSET headers'
      BY ZenonT(30), <2>1
    <3> QED
      BY ZenonT(30), <1>1, <1>2, <3>3, <3>4, AboveGrows
  <2> QED
    BY ZenonT(30), <1>2, <2>1, <2>3, <2>4, NewestKeeps
<1>5. CASE PruneOldStates
  <2>1. PICK kept \in newest(STATES_TO_KEEP) :
            states' = states \ ((headers \ kept) \ protected)
    BY ZenonT(30), <1>5 DEF PruneOldStates
  <2>2. headers' = headers
    BY <1>5 DEF PruneOldStates
  <2>3. buried(r, STATES_TO_KEEP) => buried(r, STATES_TO_KEEP)'
    BY ZenonT(30), <1>3, <2>2
  <2>4. CASE kept = headers
    BY <2>1, <2>3, <2>4 DEF StateKept
  <2>5. CASE /\ kept \in SUBSET headers
             /\ Cardinality(kept) = STATES_TO_KEEP
             /\ \A b \in kept, c \in headers \ kept : SlotOf[b] >= SlotOf[c]
    <3>1. CASE r \in headers \ kept
      <4>1. Cardinality(Above(r, kept)) >= STATES_TO_KEEP
        BY ZenonT(30), <1>1, <1>2, <2>5, <3>1, NewestBuries
      <4>2. Cardinality(Above(r, headers')) >= STATES_TO_KEEP
        BY ZenonT(30), <1>1, <1>2, <2>2, <2>5, <4>1, AboveGrows
      <4> QED
        BY ZenonT(30), <4>2 DEF StateKept, buried, Above
    <3>2. CASE r \notin headers \ kept
      BY <2>1, <2>3, <3>2 DEF StateKept
    <3> QED
      BY ZenonT(30), <3>1, <3>2
  <2> QED
    BY ZenonT(30), <1>2, <2>1, <2>4, <2>5, NewestKeeps
<1>6. CASE ~PruneOldBlocks /\ ~PruneOldStates
  <2>1. CASE Restart
    BY ZenonT(30), <1>3, <2>1 DEF Restart, init_store, StateKept
  <2>2. CASE ~Restart
    <3>1. /\ headers' = headers \/ headers' = headers \cup {block}
          /\ states' = states \/ states' = states \cup {block}
      BY ZenonT(30), <1>6, <2>2
         DEF Next, Step, vars, NewBlock, NextInQueue, WalkLineage, PendBlock,
             insert_pending_block, write_signed_block, WalkHeaders, EnqueueStored,
             RequestMissing, ImportDuplicate, RejectBlock, AdvanceCheckpoints,
             PruneLiveChain, InsertSignedBlock, InsertState, FinishImport, Tick
    <3> QED
      BY ZenonT(30), <1>3, <3>1 DEF StateKept
  <2> QED
    BY ZenonT(30), <2>1, <2>2
<1> QED
  BY <1>4, <1>5, <1>6

-----------------------------------------------------------------------------
\* A block that a chain with a state goes through, from the anchor on.
OnImportedChain(x) ==
    /\ \E s \in states : x = s \/ x \in Ancestors[s]
    /\ x = anchor \/ SlotOf[x] > SlotOf[anchor]

(***************************************************************************)
(* Why what the metadata name has rows: it is the anchor, or a checkpoint  *)
(* from the post state of a block whose parent had a state.  The chain of  *)
(* that state was imported block by block, so each of them had its rows.   *)
(***************************************************************************)
RowsInv ==
    /\ \A x \in Blocks : OnImportedChain(x) => HeaderKept(x)
    /\ \A b \in states \cup live \cup {head, justified, finalized} : HeaderKept(b)
    /\ SlotOf[justified] >= SlotOf[anchor] /\ SlotOf[finalized] >= SlotOf[anchor]
    /\ pc \in {"import", "prune", "insert", "state"} => has_state(ParentOf[block])
    /\ pc = "state" => block \in headers

StatesInv ==
    /\ \A x \in Blocks : OnImportedChain(x) => StateKept(x)
    /\ StateKept(finalized)

\* A process starts with the anchor, whose ancestors have lower slots.
LEMMA InitRows == Init => RowsInv /\ StatesInv
<1> SUFFICES ASSUME Init PROVE RowsInv /\ StatesInv
  BY ZenonT(30)
<1>1. /\ anchor \in Blocks /\ SlotOf[anchor] \in Nat
      /\ \A x \in Ancestors[anchor] \cap Blocks : SlotOf[x] < SlotOf[anchor] /\ SlotOf[x] \in Nat
  BY ZenonT(30), BlocksAssumption DEF Init
<1>2. \A x \in Blocks : OnImportedChain(x) => x = anchor
  BY <1>1 DEF Init, OnImportedChain
<1>3. HeaderKept(anchor) /\ StateKept(anchor)
  BY ZenonT(30) DEF Init, HeaderKept, StateKept
<1>4. RowsInv
  BY <1>1, <1>2, <1>3 DEF Init, RowsInv
<1> QED
  BY <1>2, <1>3, <1>4 DEF Init, StatesInv

\* The checkpoints of an imported block are on the chain of its parent's state.
LEMMA CheckpointsOnImportedChain ==
    ASSUME IInv, RowsInv, pc = "import",
           NEW checkpoint \in {Post[block].justified, Post[block].finalized},
           SlotOf[checkpoint] > SlotOf[anchor]
    PROVE  checkpoint \in Blocks /\ OnImportedChain(checkpoint)
<1>1. block \in Blocks /\ ParentOf[block] \in states /\ states \subseteq Blocks
  BY ZenonT(30) DEF IInv, TypeOK, RowsInv, has_state
<1>2. block \in SignedBlocks
  BY ZenonT(30), <1>1, AncestryAssumption DEF SignedBlocks
<1>3. checkpoint \in Blocks /\ checkpoint \in Ancestors[block]
  BY ZenonT(30), <1>1, <1>2, BlocksAssumption
<1>4. checkpoint = ParentOf[block] \/ checkpoint \in Ancestors[ParentOf[block]]
  BY ZenonT(30), <1>1, <1>3, AncestryAssumption
<1> QED
  BY ZenonT(30), <1>1, <1>3, <1>4 DEF OnImportedChain

\* A new state extends an imported chain by its block.
LEMMA ChainGrows ==
    ASSUME IInv, RowsInv, InsertState, NEW x \in Blocks, OnImportedChain(x)'
    PROVE  OnImportedChain(x) \/ x = block
<1>1. /\ block \in Blocks /\ ParentOf[block] \in states /\ states \subseteq Blocks
      /\ states' = states \cup {block} /\ anchor' = anchor
  BY ZenonT(30) DEF InsertState, IInv, TypeOK, RowsInv, has_state
<1>2. PICK s \in states' : x = s \/ x \in Ancestors[s]
  BY DEF OnImportedChain
<1>3. CASE s \in states
  BY ZenonT(30), <1>1, <1>2, <1>3 DEF OnImportedChain
<1>4. CASE s = block /\ x # block
  <2>1. x = ParentOf[block] \/ x \in Ancestors[ParentOf[block]]
    BY ZenonT(30), <1>1, <1>2, <1>4, AncestryAssumption
  <2> QED
    BY <1>1, <2>1 DEF OnImportedChain
<1> QED
  BY ZenonT(30), <1>1, <1>2, <1>3, <1>4

\* The anchor of a restart is on its own chain alone.
LEMMA ChainRestarts ==
    ASSUME IInv, ~Reanchor, Restart
    PROVE  /\ anchor' = anchor /\ anchor \in Blocks
           /\ headers' = headers \cup {anchor} /\ states' = states \cup {anchor}
           /\ live' = live \cup {anchor}
           /\ head' = anchor /\ justified' = anchor /\ finalized' = anchor /\ pc' = "idle"
           /\ \A x \in Blocks : OnImportedChain(x)' => OnImportedChain(x) \/ x = anchor
<1>1. /\ anchor' = anchor /\ anchor \in Anchors
      /\ headers' = headers \cup {anchor} /\ states' = states \cup {anchor}
      /\ live' = live \cup {anchor}
      /\ head' = anchor /\ justified' = anchor /\ finalized' = anchor /\ pc' = "idle"
  BY ZenonT(30) DEF Restart, init_store, IInv, TypeOK
<1>2. /\ anchor \in Blocks /\ SlotOf[anchor] \in Nat
      /\ \A x \in Ancestors[anchor] \cap Blocks : SlotOf[x] < SlotOf[anchor] /\ SlotOf[x] \in Nat
  BY ZenonT(30), <1>1, BlocksAssumption
<1>3. ASSUME NEW x \in Blocks, OnImportedChain(x)' PROVE OnImportedChain(x) \/ x = anchor
  BY <1>1, <1>2, <1>3 DEF OnImportedChain
<1> QED
  BY ZenonT(30), <1>1, <1>2, <1>3

\* The steps of on_block that write neither a row nor the metadata, or delete rows.
LEMMA OtherSteps ==
    ASSUME IInv,
           \/ UNCHANGED vars
           \/ \E b \in SignedBlocks : NewBlock(b)
           \/ NextInQueue \/ WalkLineage \/ PendBlock \/ WalkHeaders \/ EnqueueStored
           \/ RequestMissing \/ ImportDuplicate \/ RejectBlock \/ PruneLiveChain
           \/ PruneOldStates \/ PruneOldBlocks
    PROVE  /\ states' \subseteq states /\ live' \subseteq live
           /\ UNCHANGED <<anchor, head, justified, finalized>>
           /\ pc' \in {"import", "prune", "insert", "state"} =>
                  \/ has_state(ParentOf[block])'
                  \/ UNCHANGED <<pc, block, states, headers>>
                  \/ pc = "prune" /\ pc' = "insert" /\ UNCHANGED <<block, states>>
           /\ pc' = "state" => UNCHANGED <<pc, block, headers>>
<1> USE DEF tables, metadata, pending, locals, history, has_state
<1>1. CASE UNCHANGED vars
  BY ZenonT(30), <1>1 DEF vars
<1>2. CASE NextInQueue
  BY ZenonT(30), <1>2 DEF NextInQueue
<1>3. CASE PruneLiveChain
  BY ZenonT(30), <1>3 DEF PruneLiveChain
<1>4. CASE PruneOldStates
  BY ZenonT(30), <1>4 DEF PruneOldStates
<1>5. CASE PruneOldBlocks
  BY ZenonT(30), <1>5 DEF PruneOldBlocks
<1>6. CASE PendBlock
  BY ZenonT(30), <1>6 DEF PendBlock, insert_pending_block, write_signed_block
<1>7. CASE \/ \E b \in SignedBlocks : NewBlock(b)
           \/ WalkLineage \/ WalkHeaders \/ EnqueueStored
           \/ RequestMissing \/ ImportDuplicate \/ RejectBlock
  BY ZenonT(30), <1>7 DEF NewBlock, WalkLineage, WalkHeaders, EnqueueStored, RequestMissing,
              ImportDuplicate, RejectBlock
<1> QED
  BY ZenonT(30), <1>1, <1>2, <1>3, <1>4, <1>5, <1>6, <1>7

\* Fork choice ends at a block of the LiveChain or at the justified one; a tick that
\* panics leaves the head alone.
LEMMA HeadIsLive ==
    ASSUME FinishImport \/ Tick
    PROVE  /\ head' \in live \cup {justified, head}
           /\ UNCHANGED <<anchor, headers, states, live, justified, finalized, block>>
           /\ pc' \in {"loop", "idle", "stopped"}
  BY ZenonT(30) DEF FinishImport, Tick, update_head, ghost_heads, tables, locals

\* The steps that write rows or metadata.
LEMMA WritingSteps ==
    ASSUME AdvanceCheckpoints \/ InsertSignedBlock \/ InsertState
    PROVE  /\ UNCHANGED <<anchor, head, block>>
           /\ AdvanceCheckpoints =>
                /\ pc = "import" /\ pc' \in {"insert", "prune"}
                /\ justified' = justified \/ /\ justified' = Post[block].justified
                                             /\ SlotOf[justified'] > SlotOf[justified]
                /\ finalized' = finalized \/ /\ finalized' = Post[block].finalized
                                             /\ SlotOf[finalized'] > SlotOf[finalized]
                /\ UNCHANGED <<headers, states, live>>
           /\ InsertSignedBlock =>
                /\ headers' = headers \cup {block} /\ live' = live \cup {block}
                /\ pc = "insert" /\ pc' = "state"
                /\ UNCHANGED <<states, justified, finalized>>
           /\ InsertState =>
                /\ states' = states \cup {block}
                /\ pc = "state" /\ pc' = "head"
                /\ UNCHANGED <<headers, live, justified, finalized>>
<1> USE DEF tables, metadata, locals
<1>1. CASE AdvanceCheckpoints
  BY ZenonT(30), <1>1 DEF AdvanceCheckpoints, InsertSignedBlock, InsertState, later
<1>2. CASE InsertSignedBlock
  BY ZenonT(30), <1>2 DEF AdvanceCheckpoints, InsertSignedBlock, InsertState, write_signed_block
<1>3. CASE InsertState
  BY ZenonT(30), <1>3 DEF AdvanceCheckpoints, InsertSignedBlock, InsertState
<1> QED
  BY ZenonT(30), <1>1, <1>2, <1>3

\* Types and slots that the next two lemmas need of both states.
LEMMA RowTypes ==
    ASSUME IInv
    PROVE  /\ states \subseteq Blocks /\ live \subseteq Blocks /\ headers \subseteq Blocks
           /\ {head, justified, finalized, anchor} \subseteq Blocks
           /\ \A b \in {justified, finalized, anchor} : SlotOf[b] \in Nat
           /\ pc \in {"import", "prune", "insert", "state"} => block \in Blocks
  BY ZenonT(30), BlocksAssumption DEF IInv, TypeOK

\* No step leaves a root without its header.
LEMMA StepRows ==
    ASSUME IInv, RowsInv, [Next]_vars, ~Reanchor
    PROVE  RowsInv'
<1>1. IInv'
  BY StepPreserves
<1>2. \A b \in Blocks : HeaderKept(b) => HeaderKept(b)'
  BY ZenonT(30), HeaderStays
<1>3. \A b \in states \cup live \cup {head, justified, finalized} : HeaderKept(b)'
  BY ZenonT(30), <1>2, RowTypes DEF RowsInv
<1>4. \A x \in Blocks : OnImportedChain(x) => HeaderKept(x)'
  BY ZenonT(30), <1>2 DEF RowsInv
<1>5. CASE Restart
  <2>1. HeaderKept(anchor)'
    BY <1>5, ChainRestarts DEF HeaderKept
  <2>2. \A x \in Blocks : OnImportedChain(x)' => HeaderKept(x)'
    BY ZenonT(30), <1>4, <1>5, <2>1, ChainRestarts
  <2>3. \A b \in states' \cup live' \cup {head', justified', finalized'} : HeaderKept(b)'
    BY ZenonT(30), <1>3, <1>5, <2>1, ChainRestarts
  <2>4. /\ SlotOf[justified'] >= SlotOf[anchor'] /\ SlotOf[finalized'] >= SlotOf[anchor']
        /\ pc' = "idle"
    <3>1. SlotOf[anchor] \in Nat
      BY ZenonT(30), RowTypes
    <3>2. justified' = anchor /\ finalized' = anchor /\ anchor' = anchor /\ pc' = "idle"
      BY ZenonT(30), <1>5, ChainRestarts
    <3> QED
      BY <3>1, <3>2
  <2> QED
    BY <2>2, <2>3, <2>4 DEF RowsInv
<1>6. CASE FinishImport \/ Tick
  <2>1. \A x \in Blocks : OnImportedChain(x)' => OnImportedChain(x)
    BY <1>6, HeadIsLive DEF OnImportedChain
  <2>2. \A b \in states' \cup live' \cup {head', justified', finalized'} : HeaderKept(b)'
    BY ZenonT(30), <1>3, <1>6, HeadIsLive
  <2> QED
    BY ZenonT(30), <1>4, <1>6, <2>1, <2>2, HeadIsLive DEF RowsInv
<1>7. CASE AdvanceCheckpoints
  <2>1. \A x \in Blocks : OnImportedChain(x)' => OnImportedChain(x)
    BY ZenonT(30), <1>7, WritingSteps DEF OnImportedChain
  <2>2. \A b \in {justified', finalized'} : HeaderKept(b)' /\ SlotOf[b] >= SlotOf[anchor]
    <3>1. /\ SlotOf[justified] >= SlotOf[anchor] /\ SlotOf[finalized] >= SlotOf[anchor]
          /\ \A b \in {justified, finalized, anchor, justified', finalized'} : SlotOf[b] \in Nat
      BY ZenonT(30), <1>1, BlocksAssumption DEF IInv, TypeOK, RowsInv
    <3>2. SUFFICES ASSUME NEW b \in {justified', finalized'}, b \notin {justified, finalized}
                   PROVE  HeaderKept(b)' /\ SlotOf[b] >= SlotOf[anchor]
      BY ZenonT(30), <1>3, <3>1
    <3>3. SlotOf[b] > SlotOf[anchor] /\ b \in {Post[block].justified, Post[block].finalized}
      BY <1>7, <3>1, <3>2, WritingSteps
    <3>4. b \in Blocks /\ OnImportedChain(b)
      BY ZenonT(30), <1>7, <3>3, WritingSteps, CheckpointsOnImportedChain
    <3> QED
      BY <1>4, <3>1, <3>3, <3>4
  <2>3. \A b \in states' \cup live' \cup {head', justified', finalized'} : HeaderKept(b)'
    BY ZenonT(30), <1>3, <1>7, <2>2, WritingSteps
  <2> QED
    BY ZenonT(30), <1>4, <1>7, <2>1, <2>2, <2>3, WritingSteps DEF RowsInv, has_state
<1>8. CASE InsertSignedBlock
  <2>1. \A x \in Blocks : OnImportedChain(x)' => OnImportedChain(x)
    BY ZenonT(30), <1>8, WritingSteps DEF OnImportedChain
  <2>2. HeaderKept(block)' /\ block' \in headers'
    BY ZenonT(30), <1>8, WritingSteps DEF HeaderKept
  <2>3. \A b \in states' \cup live' \cup {head', justified', finalized'} : HeaderKept(b)'
    BY ZenonT(30), <1>3, <1>8, <2>2, WritingSteps
  <2> QED
    BY ZenonT(30), <1>4, <1>8, <2>1, <2>2, <2>3, WritingSteps DEF RowsInv, has_state
<1>9. CASE InsertState
  <2>1. HeaderKept(block)'
    BY <1>9, WritingSteps DEF HeaderKept, RowsInv
  <2>2. \A x \in Blocks : OnImportedChain(x)' => HeaderKept(x)'
    BY ZenonT(30), <1>4, <1>9, <2>1, ChainGrows, WritingSteps
  <2>3. \A b \in states' \cup live' \cup {head', justified', finalized'} : HeaderKept(b)'
    BY ZenonT(30), <1>3, <1>9, <2>1, WritingSteps
  <2> QED
    BY ZenonT(30), <1>9, <2>2, <2>3, WritingSteps DEF RowsInv
<1>10. CASE \/ UNCHANGED vars
            \/ \E b \in SignedBlocks : NewBlock(b)
            \/ NextInQueue \/ WalkLineage \/ PendBlock \/ WalkHeaders \/ EnqueueStored
            \/ RequestMissing \/ ImportDuplicate \/ RejectBlock \/ PruneLiveChain
            \/ PruneOldStates \/ PruneOldBlocks
  <2>1. /\ states' \subseteq states /\ live' \subseteq live
        /\ UNCHANGED <<anchor, head, justified, finalized>>
    BY ZenonT(30), <1>10, OtherSteps
  <2>2. \A x \in Blocks : OnImportedChain(x)' => OnImportedChain(x)
    BY <2>1 DEF OnImportedChain
  <2>3. \A b \in states' \cup live' \cup {head', justified', finalized'} : HeaderKept(b)'
    BY ZenonT(30), <1>3, <2>1
  <2>4. /\ pc' \in {"import", "prune", "insert", "state"} => has_state(ParentOf[block])'
        /\ pc' = "state" => block' \in headers'
    BY <1>10, OtherSteps DEF RowsInv, has_state
  <2> QED
    BY ZenonT(30), <1>4, <2>1, <2>2, <2>3, <2>4 DEF RowsInv
<1> QED
  BY ZenonT(30), <1>5, <1>6, <1>7, <1>8, <1>9, <1>10 DEF Next, Step

\* Nor the finalized block without its state.
LEMMA StepStates ==
    ASSUME IInv, RowsInv, StatesInv, [Next]_vars, ~Reanchor, STATES_TO_KEEP < BLOCKS_TO_KEEP
    PROVE  StatesInv'
<1>1. \A b \in Blocks : StateKept(b) => StateKept(b)'
  BY ZenonT(30), StateStays
<1>2. finalized' = finalized => StateKept(finalized)'
  BY <1>1, RowTypes DEF StatesInv, StateKept
<1>3. \A x \in Blocks : OnImportedChain(x) => StateKept(x)'
  BY ZenonT(30), <1>1 DEF StatesInv
<1>4. CASE Restart
  <2>1. StateKept(anchor)'
    BY <1>4, ChainRestarts DEF StateKept
  <2>2. \A x \in Blocks : OnImportedChain(x)' => StateKept(x)'
    BY ZenonT(30), <1>3, <1>4, <2>1, ChainRestarts
  <2> QED
    BY ZenonT(30), <1>4, <2>1, <2>2, ChainRestarts DEF StatesInv, StateKept
<1>5. CASE AdvanceCheckpoints
  <2>1. \A x \in Blocks : OnImportedChain(x)' => OnImportedChain(x)
    BY <1>5, WritingSteps DEF OnImportedChain
  <2>2. ASSUME NEW b, b = finalized', b # finalized PROVE StateKept(b)'
    <3>1. /\ SlotOf[finalized] >= SlotOf[anchor]
          /\ SlotOf[finalized] \in Nat /\ SlotOf[anchor] \in Nat /\ SlotOf[b] \in Nat
      BY ZenonT(30), <2>2, StepPreserves, BlocksAssumption DEF IInv, TypeOK, RowsInv
    <3>2. SlotOf[b] > SlotOf[finalized] /\ b = Post[block].finalized
      BY ZenonT(30), <1>5, <2>2, WritingSteps
    <3>3. SlotOf[b] > SlotOf[anchor]
      BY <3>1, <3>2
    <3>4. b \in Blocks /\ OnImportedChain(b)
      BY ZenonT(30), <1>5, <3>2, <3>3, WritingSteps, CheckpointsOnImportedChain
    <3> QED
      BY ZenonT(30), <1>3, <3>4
  <2>3. StateKept(finalized)'
    BY ZenonT(30), <1>2, <2>2 DEF StateKept
  <2> QED
    BY ZenonT(30), <1>3, <2>1, <2>3 DEF StatesInv
<1>6. CASE InsertState
  <2>1. StateKept(block)'
    BY ZenonT(30), <1>6, WritingSteps DEF StateKept
  <2>2. \A x \in Blocks : OnImportedChain(x)' => StateKept(x)'
    BY ZenonT(30), <1>3, <1>6, <2>1, ChainGrows, WritingSteps
  <2> QED
    BY ZenonT(30), <1>2, <1>6, <2>2, WritingSteps DEF StatesInv
<1>7. CASE ~Restart /\ ~AdvanceCheckpoints /\ ~InsertState
  <2>1. states' \subseteq states /\ anchor' = anchor /\ finalized' = finalized
    BY ZenonT(30), <1>7, OtherSteps, WritingSteps, HeadIsLive DEF Next, Step
  <2>2. \A x \in Blocks : OnImportedChain(x)' => OnImportedChain(x)
    BY <2>1 DEF OnImportedChain
  <2> QED
    BY ZenonT(30), <1>2, <1>3, <2>1, <2>2 DEF StatesInv
<1> QED
  BY ZenonT(30), <1>4, <1>5, <1>6, <1>7

-----------------------------------------------------------------------------
\* No block can be buried below as many as there are.
LEMMA NotBuried ==
    ASSUME IInv, Cardinality(Blocks) <= BLOCKS_TO_KEEP, NEW b \in Blocks
    PROVE  HeaderKept(b) => b \in headers
<1>1. headers \subseteq Blocks
  BY DEF IInv, TypeOK
<1>2. Above(b, headers) \subseteq Blocks \ {b}
  BY ZenonT(30), <1>1 DEF Above
<1>3. IsFiniteSet(Blocks)
  BY BlocksAssumption
<1>4. /\ IsFiniteSet(Blocks \ {b})
      /\ Cardinality(Blocks \ {b}) = Cardinality(Blocks) - 1
      /\ Cardinality(Blocks) \in Nat
  BY ZenonT(30), <1>3, FS_RemoveElement, FS_CardinalityType
<1>5. /\ Cardinality(Above(b, headers)) <= Cardinality(Blocks \ {b})
      /\ Cardinality(Above(b, headers)) \in Nat
  BY ZenonT(30), <1>2, <1>4, FS_Subset, FS_CardinalityType
<1>6. ~(Cardinality(Above(b, headers)) >= BLOCKS_TO_KEEP)
  BY <1>4, <1>5, RetentionAssumption
<1> QED
  BY ZenonT(30), <1>6 DEF HeaderKept, buried, Above

\* With room for every block no row is buried.
LEMMA RowsFromInv ==
    ASSUME IInv, RowsInv, Cardinality(Blocks) <= BLOCKS_TO_KEEP
    PROVE  RowsHaveHeaders
<1>1. ASSUME NEW b \in states \cup live \cup {head, justified, finalized} PROVE b \in headers
  <2>1. b \in Blocks /\ HeaderKept(b)
    BY RowTypes DEF RowsInv
  <2> QED
    BY ZenonT(30), <2>1, NotBuried
<1> QED
  BY <1>1 DEF RowsHaveHeaders

(***************************************************************************)
(* At every commit, of an import, of a pruning or of a restart on the same *)
(* anchor, every state, every entry of the LiveChain and every root of the *)
(* metadata has its header row, as long as prune_old_blocks has room for   *)
(* every block: the expects of fork choice on headers hold.                *)
(***************************************************************************)
THEOREM RowsTheorem ==
    ASSUME ~Reanchor, Cardinality(Blocks) <= BLOCKS_TO_KEEP
    PROVE  Spec => []RowsHaveHeaders
<1>1. Init => RowsInv
  BY InitRows
<1>2. IInv /\ RowsInv /\ [Next]_vars => RowsInv'
  BY StepRows
<1>3. IInv /\ RowsInv => RowsHaveHeaders
  BY ZenonT(30), RowsFromInv
<1> QED
  BY <1>1, <1>2, <1>3, Invariance, PTL DEF Spec

-----------------------------------------------------------------------------
(***************************************************************************)
(* The handlers of the other tasks.                                        *)
(***************************************************************************)
\* To the tables, a step with readers is a step without them.
LEMMA ReadersOnlyRead == [ReaderNext]_ReaderVars => [Next]_vars
<1>1. UNCHANGED ReaderVars => UNCHANGED vars
  BY DEF ReaderVars
<1>2. Write \/ RestartReaders => Next
  BY DEF Write, RestartReaders, Next
<1>3. StartReading \/ ReadMetadata \/ ReadRow => UNCHANGED vars
  BY DEF StartReading, ReadMetadata, ReadRow
<1> QED
  BY ZenonT(30), <1>1, <1>2, <1>3 DEF ReaderNext

\* Whatever handlers run, the actor behaves as BlockImport says: what is proved of
\* Spec holds with readers too.
THEOREM ReadersRefine == ReaderSpec => Spec
<1>1. ReaderInit => Init
  BY DEF ReaderInit
<1> QED
  BY <1>1, ReadersOnlyRead, PTL DEF ReaderSpec, Spec

\* What a running handler has read and what it reads next.
ReaderInv ==
    /\ root \in Roots
    /\ root # ZERO /\ reading # <<>> => HeaderKept(root)
    /\ handler = "get_latest_finalized_state" =>
           /\ reading \in {<<>>, <<"finalized", "state">>, <<"state">>}
           /\ root # ZERO => StateKept(root)

\* A handler starts without a root.
LEMMA InitReader == ReaderInit => ReaderInv
  BY DEF ReaderInit, ReaderInv, Roots

\* A root that was read stays good while the actor writes, and a new one is good.
LEMMA StepReader ==
    ASSUME IInv, RowsInv, StatesInv, ReaderInv, [ReaderNext]_ReaderVars,
           STATES_TO_KEEP < BLOCKS_TO_KEEP
    PROVE  ReaderInv'
<1>1. [Next]_vars
  BY ReadersOnlyRead
<1>2. \A b \in Blocks : /\ HeaderKept(b) => HeaderKept(b)'
                        /\ StateKept(b) => StateKept(b)'
  BY ZenonT(30), <1>1, HeaderStays, StateStays
<1>3. CASE UNCHANGED reader
  BY ZenonT(30), <1>2, <1>3 DEF reader, ReaderInv, Roots, HeaderKept, StateKept
<1>4. CASE RestartReaders
  BY <1>4 DEF RestartReaders, ReaderInv, Roots
<1>5. CASE StartReading
  <2>1. /\ root' = ZERO
        /\ handler' = "get_latest_finalized_state" => reading' = <<"finalized", "state">>
    BY <1>5 DEF StartReading, Reads
  <2> QED
    BY ZenonT(30), <2>1 DEF ReaderInv, Roots
<1>6. CASE ReadMetadata
  <2>1. /\ UNCHANGED <<headers, states, finalized, handler>>
        /\ reading # <<>> /\ reading' = Tail(reading)
        /\ root' \in {head, finalized, justified, root}
        /\ Head(reading) = "finalized" => root' = finalized
        /\ Head(reading) # "state"
    BY ZenonT(30), <1>6 DEF ReadMetadata, vars, tables, metadata
  <2>2. /\ {head, justified, finalized} \subseteq Blocks
        /\ \A b \in {head, justified, finalized} : HeaderKept(b)
        /\ StateKept(finalized)
    BY ZenonT(30), RowTypes DEF RowsInv, StatesInv
  <2>3. root' \in Roots /\ (root' # ZERO => HeaderKept(root'))
    BY ZenonT(30), <2>1, <2>2 DEF ReaderInv, Roots
  <2>4. ASSUME handler = "get_latest_finalized_state"
        PROVE  reading' = <<"state">> /\ root' = finalized
    <3>1. reading = <<"finalized", "state">>
      <4>1. reading \in {<<>>, <<"finalized", "state">>, <<"state">>}
        BY <2>4 DEF ReaderInv
      <4>2. Head(<<"state">>) = "state"
        OBVIOUS
      <4> QED
        BY ZenonT(30), <2>1, <4>1, <4>2
    <3>2. /\ Head(<<"finalized", "state">>) = "finalized"
          /\ Tail(<<"finalized", "state">>) = <<"state">>
      OBVIOUS
    <3> QED
      BY ZenonT(30), <2>1, <3>1, <3>2
  <2>5. (root' # ZERO => HeaderKept(root)') /\ StateKept(finalized)'
    BY ZenonT(30), <2>1, <2>2, <2>3 DEF HeaderKept, StateKept, buried
  <2>6. ASSUME handler = "get_latest_finalized_state" PROVE StateKept(root)'
    BY ZenonT(30), <2>1, <2>4, <2>5, <2>6 DEF StateKept, buried
  <2> QED
    BY ZenonT(30), <2>1, <2>3, <2>4, <2>5, <2>6 DEF ReaderInv
<1>7. CASE ReadRow
  BY <1>7 DEF ReadRow, ReaderInv, Roots
<1> QED
  BY ZenonT(30), <1>3, <1>4, <1>5, <1>6, <1>7 DEF ReaderNext, ReaderVars, Write

(***************************************************************************)
(* A root that a handler read leads to the rows it goes on to read, in any *)
(* tree of blocks, whatever commits and crashes come between the reads, if *)
(* a restart keeps its anchor and fewer states than blocks are kept.       *)
(***************************************************************************)
THEOREM RootsTheorem ==
    ASSUME ~Reanchor, STATES_TO_KEEP < BLOCKS_TO_KEEP
    PROVE  ReaderSpec => []RootsLeadToRows
<1>1. ReaderInit => IInv /\ RowsInv /\ StatesInv /\ ReaderInv
  BY InitIInv, InitRows, InitReader DEF ReaderInit
<1>2. IInv /\ RowsInv /\ StatesInv /\ ReaderInv /\ [ReaderNext]_ReaderVars
          => (IInv /\ RowsInv /\ StatesInv /\ ReaderInv)'
  BY ZenonT(30), ReadersOnlyRead, StepPreserves, StepRows, StepStates, StepReader
<1>3. ReaderInv => RootsLeadToRows
  BY DEF ReaderInv, RootsLeadToRows, HeaderKept, StateKept
<1> QED
  BY <1>1, <1>2, <1>3, PTL DEF ReaderSpec

-----------------------------------------------------------------------------
(***************************************************************************)
(* The node: both actors, their mailboxes and main.                        *)
(***************************************************************************)
\* A message put into a mailbox.
LEMMA MailAppend ==
    ASSUME NEW S, NEW q \in Seq(S), NEW m \in S
    PROVE  /\ Append(q, m) \in Seq(S) /\ Append(q, m) # <<>>
           /\ members(Append(q, m)) = members(q) \cup {m}
           /\ q # <<>> => Head(Append(q, m)) = Head(q)
           /\ q = <<>> => Head(Append(q, m)) = m
<1>1. /\ Append(q, m) \in Seq(S) /\ Len(Append(q, m)) = Len(q) + 1 /\ Len(q) \in Nat
      /\ DOMAIN q = 1 .. Len(q) /\ DOMAIN Append(q, m) = 1 .. Len(q) + 1
      /\ \A i \in 1 .. Len(q) : Append(q, m)[i] = q[i]
      /\ Append(q, m)[Len(q) + 1] = m
  OBVIOUS
<1>2. members(Append(q, m)) = members(q) \cup {m}
  <2>1. ASSUME NEW x \in members(Append(q, m)) PROVE x \in members(q) \cup {m}
    BY <1>1 DEF members
  <2>2. ASSUME NEW x \in members(q) \cup {m} PROVE x \in members(Append(q, m))
    BY <1>1 DEF members
  <2> QED
    BY <2>1, <2>2
<1>3. q # <<>> => Head(Append(q, m)) = Head(q)
  OBVIOUS
<1>4. q = <<>> => Head(Append(q, m)) = m
  OBVIOUS
<1>5. Append(q, m) # <<>>
  <2>1. Len(<<>>) = 0 /\ Len(Append(q, m)) # 0
    BY <1>1
  <2> QED
    BY ZenonT(30), <2>1
<1> QED
  BY ZenonT(30), <1>1, <1>2, <1>3, <1>4, <1>5

\* The first message taken out of it.
LEMMA MailTail ==
    ASSUME NEW S, NEW q \in Seq(S), q # <<>>
    PROVE  /\ Tail(q) \in Seq(S) /\ Head(q) \in S
           /\ members(q) = members(Tail(q)) \cup {Head(q)}
<1>1. /\ Tail(q) \in Seq(S) /\ Head(q) \in S /\ Head(q) = q[1]
      /\ Len(q) \in Nat /\ Len(q) > 0 /\ DOMAIN q = 1 .. Len(q)
      /\ DOMAIN Tail(q) = 1 .. Len(q) - 1
      /\ \A i \in 1 .. Len(q) - 1 : Tail(q)[i] = q[i + 1]
  OBVIOUS
<1>2. ASSUME NEW x \in members(q) PROVE x \in members(Tail(q)) \cup {Head(q)}
  <2>1. PICK i \in 1 .. Len(q) : x = q[i]
    BY <1>1 DEF members
  <2>2. CASE i = 1
    BY <1>1, <2>1, <2>2
  <2>3. CASE i # 1
    <3>1. i - 1 \in 1 .. Len(q) - 1 /\ Tail(q)[i - 1] = q[i]
      BY <1>1, <2>1, <2>3
    <3> QED
      BY ZenonT(30), <1>1, <2>1, <3>1 DEF members
  <2> QED
    BY <2>2, <2>3
<1>3. ASSUME NEW x \in members(Tail(q)) \cup {Head(q)} PROVE x \in members(q)
  <2>1. CASE x = Head(q)
    BY <1>1, <2>1 DEF members
  <2>2. CASE x \in members(Tail(q))
    <3>1. PICK i \in 1 .. Len(q) - 1 : x = Tail(q)[i]
      BY <1>1, <2>2 DEF members
    <3>2. i + 1 \in 1 .. Len(q) /\ x = q[i + 1]
      BY <1>1, <3>1
    <3> QED
      BY <1>1, <3>2 DEF members
  <2> QED
    BY <1>3, <2>1, <2>2
<1> QED
  BY <1>1, <1>2, <1>3

LEMMA NoMail == members(<<>>) = {} /\ \A S : <<>> \in Seq(S)
<1>1. members(<<>>) = {}
  BY DEF members
<1>2. \A S : <<>> \in Seq(S)
  OBVIOUS
<1> QED
  BY <1>1, <1>2

(***************************************************************************)
(* How far the wiring is.  Before the blockchain actor has its ref, it is  *)
(* idle and InitP2P comes first, or it has stopped; before the P2P actor   *)
(* has its own, no block and no request is anywhere.                       *)
(***************************************************************************)
MailInv ==
    /\ p2p \in BOOLEAN /\ blockchain \in BOOLEAN
    /\ to_chain \in Seq(SignedBlocks \cup {InitP2P})
    /\ to_p2p \in Seq(Roots \cup {InitBlockChain})
    /\ main = InitP2P => p2p = FALSE /\ to_chain = <<>>
    /\ main # "running" => blockchain = FALSE /\ InitBlockChain \notin members(to_p2p)
    /\ pc = "stopped" => to_chain = <<>>
    /\ p2p = FALSE => /\ pc \in {"idle", "stopped"}
                      /\ pc = "idle" /\ main # InitP2P
                            => to_chain # <<>> /\ Head(to_chain) = InitP2P
    /\ blockchain = FALSE => /\ pc \in {"idle", "stopped"} /\ fetching = {}
                             /\ members(to_p2p) \subseteq {InitBlockChain}
                             /\ members(to_chain) \subseteq {InitP2P}

LEMMA InitMail == NodeInit => MailInv
<1> SUFFICES ASSUME NodeInit PROVE MailInv
  OBVIOUS
<1>1. /\ p2p = FALSE /\ blockchain = FALSE /\ to_chain = <<>> /\ to_p2p = <<>>
      /\ main = InitP2P /\ pc = "idle" /\ fetching = {}
  BY DEF NodeInit, Init, Fetch!Init
<1> QED
  BY ZenonT(30), <1>1, NoMail DEF MailInv

\* The names of the messages.
LEMMA Messages ==
    /\ InitP2P \notin Blocks /\ InitP2P \notin Roots /\ InitBlockChain \notin Roots
    /\ InitP2P # InitBlockChain /\ InitP2P # "running" /\ InitBlockChain # "running"
    /\ SignedBlocks \subseteq Blocks /\ Blocks \subseteq Roots
  BY MessagesAssumption DEF Roots, SignedBlocks, InitP2P, InitBlockChain

\* An actor in the middle of on_block is wired, and so is its peer.
LEMMA BusyIsWired ==
    ASSUME MailInv, pc \notin {"idle", "stopped"}
    PROVE  p2p = TRUE /\ blockchain = TRUE
  BY DEF MailInv

\* ... and so are they when there is a block in the mailbox.
LEMMA NewBlockIsWired ==
    ASSUME MailInv, to_chain # <<>>, Head(to_chain) \in Blocks
    PROVE  /\ p2p = TRUE /\ blockchain = TRUE /\ main = "running"
           /\ Head(to_chain) \in SignedBlocks
<1>1. /\ Head(to_chain) \in members(to_chain)
      /\ Head(to_chain) \in SignedBlocks \cup {InitP2P}
  BY MailTail DEF MailInv
<1>2. Head(to_chain) # InitP2P
  BY Messages
<1> QED
  BY <1>1, <1>2 DEF MailInv

\* ... or a request in the other one.
LEMMA RequestIsWired ==
    ASSUME MailInv, NEW r \in Roots, r \in members(to_p2p) \cup fetching
    PROVE  blockchain = TRUE /\ main = "running"
  BY Messages DEF MailInv

\* The steps of the blockchain actor that send nothing leave the mailboxes alone.
LEMMA BusySteps ==
    ASSUME ChainStep
    PROVE  /\ pc \notin {"idle", "stopped"} /\ pc' # "stopped"
           /\ UNCHANGED <<p2p, p2p_vars, to_chain, to_p2p, node>>
           /\ Step
  BY ZenonT(30)
     DEF ChainStep, Step, NextInQueue, WalkLineage, PendBlock, WalkHeaders, EnqueueStored,
         ImportDuplicate, RejectBlock, AdvanceCheckpoints, PruneLiveChain, InsertSignedBlock,
         InsertState, FinishImport, PruneOldStates, PruneOldBlocks

LEMMA StepMail == IInv /\ MailInv /\ [NodeNext]_NodeVars => MailInv'
<1> SUFFICES ASSUME IInv, MailInv, [NodeNext]_NodeVars PROVE MailInv'
  BY ZenonT(30)
<1> DEFINE ChainMail == SignedBlocks \cup {InitP2P}
           P2PMail == Roots \cup {InitBlockChain}
<1>0. to_chain \in Seq(ChainMail) /\ to_p2p \in Seq(P2PMail)
  BY DEF MailInv
<1> HIDE DEF ChainMail, P2PMail
<1>1. CASE WireActors
  <2>1. UNCHANGED <<p2p, blockchain, pc, fetching>>
    BY ZenonT(30), <1>1 DEF WireActors, chain_vars, p2p_vars, vars, fetch_vars
  <2>2. CASE main = InitP2P /\ pc # "stopped" /\ to_chain' = Append(to_chain, InitP2P)
             /\ main' = InitBlockChain /\ to_p2p' = to_p2p
    <3>1. p2p = FALSE /\ to_chain = <<>> /\ blockchain = FALSE
      BY ZenonT(30), <2>2, Messages DEF MailInv
    <3>2. /\ to_chain' \in Seq(ChainMail) /\ to_chain' # <<>>
          /\ Head(to_chain') = InitP2P /\ members(to_chain') = {InitP2P}
      <4>1. InitP2P \in ChainMail
        BY DEF ChainMail
      <4>2. /\ to_chain' \in Seq(ChainMail) /\ to_chain' # <<>>
            /\ members(to_chain') = members(to_chain) \cup {InitP2P}
        BY <1>0, <2>2, <4>1, MailAppend
      <4>3. Head(to_chain') = InitP2P
        BY <2>2, <3>1
      <4>4. members(to_chain) = {}
        BY ZenonT(30), <3>1, NoMail
      <4> QED
        BY ZenonT(30), <4>2, <4>3, <4>4
    <3> QED
      BY ZenonT(30), <2>1, <2>2, <3>1, <3>2, Messages DEF MailInv, ChainMail, P2PMail
  <2>3. CASE main = InitBlockChain /\ to_p2p' = Append(to_p2p, InitBlockChain)
             /\ main' = "running" /\ to_chain' = to_chain
    <3>1. /\ to_p2p' \in Seq(P2PMail)
          /\ members(to_p2p') = members(to_p2p) \cup {InitBlockChain}
      BY <1>0, <2>3, MailAppend DEF P2PMail
    <3> QED
      BY ZenonT(30), <2>1, <2>3, <3>1, Messages DEF MailInv, P2PMail
  <2> QED
    BY ZenonT(30), <1>1, <2>2, <2>3 DEF WireActors
<1>2. CASE HandleInitP2P
  <2>1. /\ to_chain # <<>> /\ to_chain' = Tail(to_chain) /\ p2p' = TRUE
        /\ UNCHANGED <<blockchain, pc, fetching, to_p2p, main>>
    BY ZenonT(30), <1>2 DEF HandleInitP2P, vars, p2p_vars, fetch_vars, node
  <2>2. to_chain' \in Seq(ChainMail) /\ members(to_chain') \subseteq members(to_chain)
    BY ZenonT(30), <1>0, <2>1, MailTail
  <2> QED
    BY ZenonT(30), <2>1, <2>2 DEF MailInv, ChainMail
<1>3. CASE HandleNewBlock
  <2>1. /\ to_chain # <<>> /\ to_chain' = Tail(to_chain) /\ Head(to_chain) \in Blocks
        /\ pc' = "loop" /\ UNCHANGED <<p2p, blockchain, fetching, to_p2p, main>>
    BY <1>3 DEF HandleNewBlock, NewBlock, p2p_vars, fetch_vars, node
  <2>2. p2p = TRUE /\ blockchain = TRUE /\ main = "running"
    BY ZenonT(30), <2>1, NewBlockIsWired
  <2>3. to_chain' \in Seq(ChainMail)
    BY ZenonT(30), <1>0, <2>1, MailTail
  <2> QED
    BY ZenonT(30), <2>1, <2>2, <2>3, Messages DEF MailInv, ChainMail
<1>4. CASE request_missing_block
  <2>1. /\ pc \notin {"idle", "stopped"} /\ pc' # "stopped"
        /\ to_p2p' \in {to_p2p, Append(to_p2p, missing_root)}
        /\ UNCHANGED <<p2p, blockchain, fetching, to_chain, main>>
    BY <1>4 DEF request_missing_block, RequestMissing, p2p_vars, fetch_vars, node
  <2>2. p2p = TRUE /\ blockchain = TRUE
    BY ZenonT(30), <2>1, BusyIsWired
  <2>3. to_p2p' \in Seq(P2PMail)
    <3>1. missing_root \in P2PMail
      BY ZenonT(30) DEF IInv, TypeOK, P2PMail
    <3> QED
      BY <1>0, <2>1, <3>1, MailAppend
  <2>4. main = "running"
    BY ZenonT(30), <2>2 DEF MailInv
  <2> QED
    BY ZenonT(30), <2>1, <2>2, <2>3, <2>4, Messages DEF MailInv, P2PMail
<1>5. CASE ChainStep
  <2>1. /\ UNCHANGED <<p2p, blockchain, fetching, to_chain, to_p2p, main>>
        /\ pc \notin {"idle", "stopped"} /\ pc' # "stopped"
    BY ZenonT(30), <1>5, BusySteps DEF p2p_vars, fetch_vars, node
  <2>2. p2p = TRUE /\ blockchain = TRUE
    BY ZenonT(30), <2>1, BusyIsWired
  <2> QED
    BY ZenonT(30), <2>1, <2>2 DEF MailInv
<1>6. CASE ChainTick
  <2>1. UNCHANGED <<p2p, blockchain, fetching, to_p2p, main>>
    BY ZenonT(30), <1>6 DEF ChainTick, p2p_vars, fetch_vars, node
  <2>2. (pc' = "stopped" /\ to_chain' = <<>>) \/ UNCHANGED <<pc, to_chain>>
    <3>1. pc = "idle" /\ (pc' = "stopped" \/ pc' = pc)
      BY ZenonT(30), <1>6 DEF ChainTick, Tick
    <3> QED
      BY <3>1, <1>6 DEF ChainTick
  <2>3. CASE pc' = "stopped" /\ to_chain' = <<>>
    BY ZenonT(30), <2>1, <2>3, NoMail DEF MailInv
  <2>4. CASE UNCHANGED <<pc, to_chain>>
    BY ZenonT(30), <2>1, <2>4 DEF MailInv
  <2> QED
    BY ZenonT(30), <2>2, <2>3, <2>4
<1>7. CASE HandleInitBlockChain
  <2>1. /\ to_p2p # <<>> /\ Head(to_p2p) = InitBlockChain /\ to_p2p' = Tail(to_p2p)
        /\ blockchain' = TRUE /\ UNCHANGED <<p2p, pc, fetching, to_chain, main>>
    BY ZenonT(30), <1>7 DEF HandleInitBlockChain, chain_vars, vars, fetch_vars, node
  <2>2. to_p2p' \in Seq(P2PMail) /\ InitBlockChain \in members(to_p2p)
    BY <1>0, <2>1, MailTail
  <2>3. main = "running"
    BY ZenonT(30), <2>2 DEF MailInv
  <2> QED
    BY ZenonT(30), <2>1, <2>2, <2>3, Messages DEF MailInv, P2PMail
<1>8. ASSUME NEW b \in SignedBlocks, new_block(b),
             UNCHANGED <<p2p, pc, blockchain, to_p2p, main>>, fetching' \subseteq fetching
      PROVE  MailInv'
  <2>1. CASE blockchain = FALSE \/ pc = "stopped"
    <3>1. to_chain' = to_chain /\ (blockchain = FALSE => fetching' = {})
      BY <1>8, <2>1 DEF new_block, MailInv
    <3> QED
      BY <1>8, <3>1 DEF MailInv
  <2>2. CASE blockchain = TRUE /\ pc # "stopped"
    <3>1. to_chain' = Append(to_chain, b) /\ main = "running"
      BY <1>8, <2>2 DEF new_block, MailInv
    <3>2. /\ to_chain' \in Seq(ChainMail) /\ to_chain' # <<>>
          /\ to_chain # <<>> => Head(to_chain') = Head(to_chain)
      BY <1>0, <3>1, MailAppend DEF ChainMail
    <3>3. main # InitP2P
      BY <3>1, Messages
    <3> QED
      BY ZenonT(30), <1>8, <2>2, <3>1, <3>2, <3>3 DEF MailInv, ChainMail
  <2> QED
    BY ZenonT(30), <2>1, <2>2 DEF MailInv
<1>9. ASSUME NEW b \in SignedBlocks, Gossip(b) PROVE MailInv'
  BY <1>8, <1>9 DEF Gossip, chain_vars, vars, p2p_vars, fetch_vars, node
<1>10. ASSUME NEW r \in Roots, DeliverFetch(r) PROVE MailInv'
  BY <1>8, <1>10 DEF DeliverFetch, Fetch!Deliver, chain_vars, vars, node
<1>11. ASSUME NEW r \in Roots, fetch_message(r), to_p2p' = Tail(to_p2p),
              UNCHANGED <<p2p, pc, blockchain, to_chain, main>>
       PROVE  MailInv'
  <2>1. to_p2p # <<>> /\ Head(to_p2p) = r
    BY ZenonT(30), <1>11 DEF fetch_message
  <2>2. to_p2p' \in Seq(P2PMail) /\ r \in members(to_p2p)
    <3>1. /\ Tail(to_p2p) \in Seq(P2PMail)
          /\ members(to_p2p) = members(Tail(to_p2p)) \cup {Head(to_p2p)}
      BY ZenonT(30), <1>0, <2>1, MailTail
    <3> QED
      BY ZenonT(30), <1>11, <2>1, <3>1
  <2>3. blockchain = TRUE /\ main = "running"
    BY ZenonT(30), <2>2, RequestIsWired
  <2> QED
    BY <1>11, <2>2, <2>3, Messages DEF MailInv, P2PMail
<1>12. ASSUME NEW r \in Roots, StartFetch(r) \/ IgnoreFetch(r) \/ DropFetch(r) PROVE MailInv'
  BY <1>11, <1>12 DEF StartFetch, IgnoreFetch, DropFetch, chain_vars, vars, p2p_vars, node
<1>13. ASSUME NEW r \in Roots, GiveUpFetch(r) PROVE MailInv'
  <2>1. /\ UNCHANGED <<p2p, pc, blockchain, to_chain, to_p2p, main>>
        /\ r \in fetching
    BY <1>13 DEF GiveUpFetch, Fetch!GiveUp, chain_vars, vars, node
  <2>2. blockchain = TRUE
    BY ZenonT(30), <2>1, RequestIsWired
  <2> QED
    BY ZenonT(30), <2>1, <2>2 DEF MailInv
<1>14. CASE RestartNode
  <2>1. /\ p2p' = FALSE /\ blockchain' = FALSE /\ to_chain' = <<>> /\ to_p2p' = <<>>
        /\ main' = InitP2P /\ pc' = "idle" /\ fetching' = {}
    BY <1>14 DEF RestartNode, Restart
  <2> QED
    BY ZenonT(30), <2>1, NoMail DEF MailInv
<1>15. CASE UNCHANGED NodeVars
  BY <1>15 DEF NodeVars, chain_vars, vars, p2p_vars, fetch_vars, node, MailInv
<1> QED
  BY ZenonT(30), <1>1, <1>2, <1>3, <1>4, <1>5, <1>6, <1>7, <1>9, <1>10, <1>12, <1>13, <1>14,
     <1>15 DEF NodeNext, ChainActor, P2PActor

\* In the node the blockchain actor behaves as BlockImport says.
LEMMA NodeSteps == MailInv /\ [NodeNext]_NodeVars => [Next]_vars
<1> SUFFICES ASSUME MailInv, [NodeNext]_NodeVars PROVE [Next]_vars
  OBVIOUS
<1>1. CASE HandleNewBlock
  BY <1>1, NewBlockIsWired DEF HandleNewBlock, Next
<1>2. CASE request_missing_block \/ ChainStep \/ ChainTick \/ RestartNode
  BY ZenonT(30), <1>2, BusySteps DEF request_missing_block, Step, ChainTick, RestartNode, Next
<1>3. CASE WireActors \/ HandleInitP2P \/ HandleInitBlockChain \/ UNCHANGED NodeVars
  BY ZenonT(30), <1>3 DEF WireActors, HandleInitP2P, HandleInitBlockChain, NodeVars, chain_vars
<1>4. ASSUME NEW r \in Roots, StartFetch(r) \/ IgnoreFetch(r) \/ DropFetch(r)
                              \/ DeliverFetch(r) \/ GiveUpFetch(r)
      PROVE  UNCHANGED vars
  BY <1>4 DEF StartFetch, IgnoreFetch, DropFetch, DeliverFetch, GiveUpFetch, chain_vars
<1>5. ASSUME NEW b \in SignedBlocks, Gossip(b) PROVE UNCHANGED vars
  BY <1>5 DEF Gossip, chain_vars
<1> QED
  BY ZenonT(30), <1>1, <1>2, <1>3, <1>4, <1>5 DEF NodeNext, ChainActor, P2PActor

LEMMA NodeInvariance == NodeSpec => [](IInv /\ MailInv)
<1>1. NodeInit => IInv /\ MailInv
  BY InitIInv, InitMail DEF NodeInit
<1>2. IInv /\ MailInv /\ [NodeNext]_NodeVars => IInv' /\ MailInv'
  BY ZenonT(30), NodeSteps, StepPreserves, StepMail
<1> QED
  BY <1>1, <1>2, PTL DEF NodeSpec

(***************************************************************************)
(* Whatever the mailboxes and the network do, the blockchain actor of the  *)
(* node behaves as BlockImport says: what is proved of Spec holds there.   *)
(***************************************************************************)
THEOREM NodeRefines == NodeSpec => Spec
<1>1. NodeInit => Init
  BY DEF NodeInit
<1> QED
  BY <1>1, NodeSteps, NodeInvariance, PTL DEF NodeSpec, Spec

(***************************************************************************)
(* No request is lost in the wiring: in any interleaving of main and the   *)
(* two actors, with any restarts, on_block has its ref to the P2P actor    *)
(* when it gets to request_missing_block.                                  *)
(***************************************************************************)
THEOREM RequestsTheorem == NodeSpec => []RequestsAreSent
<1>1. MailInv => RequestsAreSent
  BY ZenonT(30) DEF MailInv, RequestsAreSent
<1> QED
  BY <1>1, NodeInvariance, PTL

-----------------------------------------------------------------------------
\* Where a request is, from the moment it is sent until the block is stored, unless
\* the actor that sent it has stopped.
Tracked(r) ==
    \/ r \in members(to_p2p) \cup fetching \cup members(to_chain) \cup rejected \cup dropped
    \/ r \in members(queue)
    \/ pc \in {"lineage", "import", "prune", "insert"} /\ block = r

TrackInv == pc # "stopped" => \A r \in requested \ headers : Tracked(r)

\* The current block is kept until its row is written or it is rejected.
InHand == {"lineage", "import", "prune", "insert"}

LEMMA ActorFrame ==
    ASSUME TrackInv, pc # "stopped",
           requested' = requested, headers \subseteq headers', rejected \subseteq rejected',
           members(queue) \subseteq members(queue'),
           pc \in InHand => \/ block \in headers' \cup rejected'
                            \/ pc' \in InHand /\ block' = block,
           UNCHANGED <<to_p2p, fetching, to_chain, dropped>>
    PROVE  TrackInv'
<1> SUFFICES ASSUME NEW r \in requested \ headers' PROVE Tracked(r)'
  BY DEF TrackInv
<1>1. Tracked(r)
  BY DEF TrackInv
<1> QED
  BY ZenonT(30), <1>1 DEF Tracked, InHand

LEMMA LenDomain == ASSUME NEW S, NEW q \in Seq(S) PROVE DOMAIN q = 1 .. Len(q)
  OBVIOUS

\* Waking children and finding a stored block only add to the queue.
LEMMA QueueGrows ==
    ASSUME IInv, (EnqueueStored \/ ImportDuplicate \/ FinishImport)
    PROVE  members(queue) \subseteq members(queue')
<1>1. queue \in Seq(Blocks) /\ DOMAIN queue = 1 .. Len(queue) /\ headers \subseteq Blocks
  BY DEF IInv, TypeOK
<1>2. CASE EnqueueStored
  <2>1. queue' = Append(queue, missing_root) /\ missing_root \in Blocks
    BY ZenonT(30), <1>1, <1>2 DEF EnqueueStored
  <2> QED
    BY <1>1, <2>1, MailAppend
<1>3. CASE ImportDuplicate \/ FinishImport
  <2>1. block \in Blocks /\ collect_pending_children(block)
    BY ZenonT(30), <1>3 DEF ImportDuplicate, FinishImport, IInv, TypeOK
  <2>2. PICK order \in orders(pending_blocks[block] \cap signed) : queue' = queue \o order
    BY ZenonT(30), <2>1, Collected
  <2>3. pending_blocks[block] \cap signed \in SUBSET Blocks
    BY <1>1 DEF IInv, TypeOK
  <2>4. /\ queue' \in Seq(Blocks)
        /\ \A i \in 1 .. Len(queue) : queue'[i] = queue[i] /\ i \in 1 .. Len(queue')
    BY ZenonT(30), <1>1, <2>2, <2>3, OrderedQueue
  <2>5. DOMAIN queue' = 1 .. Len(queue')
    BY <2>4, LenDomain
  <2> QED
    BY ZenonT(30), <1>1, <2>4, <2>5 DEF members
<1> QED
  BY ZenonT(30), <1>2, <1>3

\* With room for every block prune_old_blocks deletes nothing.
LEMMA PrunesNothing ==
    ASSUME IInv, PruneOldBlocks, Cardinality(Blocks) <= BLOCKS_TO_KEEP
    PROVE  headers' = headers
<1>1. Cardinality(headers) <= BLOCKS_TO_KEEP
  BY ZenonT(30), RoomForAll DEF IInv, TypeOK
<1>2. newest(BLOCKS_TO_KEEP) = {headers}
  BY ZenonT(30), <1>1 DEF newest
<1> QED
  BY ZenonT(30), <1>2 DEF PruneOldBlocks

LEMMA ActorTracks ==
    ASSUME IInv, RowsHaveHeaders, TrackInv, Cardinality(Blocks) <= BLOCKS_TO_KEEP,
           ChainStep \/ ChainTick
    PROVE  TrackInv'
<1> USE DEF tables, metadata, pending, locals, history
<1>0. CASE pc' = "stopped"
  BY <1>0 DEF TrackInv
<1> SUFFICES ASSUME pc' # "stopped" PROVE TrackInv'
  BY <1>0
<1>1. UNCHANGED <<to_p2p, fetching, to_chain, dropped>> /\ pc # "stopped"
  <2>1. CASE ChainStep
    BY ZenonT(30), <2>1, BusySteps DEF p2p_vars, fetch_vars
  <2>2. CASE ChainTick
    <3>1. pc = "idle"
      BY ZenonT(30), <2>2 DEF ChainTick, Tick
    <3> QED
      BY <2>2, <3>1 DEF ChainTick, p2p_vars, fetch_vars
  <2> QED
    BY <2>1, <2>2
<1>2. CASE NextInQueue
  <2>1. /\ queue # <<>> /\ queue' = Tail(queue) /\ block' = Head(queue)
        /\ pc = "loop" /\ pc' \in {"import", "lineage"}
        /\ UNCHANGED <<headers, requested, rejected>>
    BY ZenonT(30), <1>2 DEF NextInQueue
  <2>2. members(queue) = members(queue') \cup {block'}
    <3>1. queue \in Seq(Blocks)
      BY DEF IInv, TypeOK
    <3> QED
      BY <2>1, <3>1, MailTail
  <2>3. ASSUME NEW r \in requested' \ headers' PROVE Tracked(r)'
    <3>1. Tracked(r)
      BY <2>1 DEF TrackInv
    <3> QED
      BY ZenonT(30), <1>1, <2>1, <2>2, <3>1 DEF Tracked
  <2> QED
    BY <2>3 DEF TrackInv
<1>3. CASE WalkLineage \/ PendBlock \/ WalkHeaders \/ RejectBlock \/ AdvanceCheckpoints
           \/ PruneLiveChain \/ InsertSignedBlock \/ InsertState \/ PruneOldStates \/ Tick
  <2>1. /\ UNCHANGED <<requested, queue>> /\ headers \subseteq headers'
        /\ rejected \subseteq rejected'
        /\ pc \in InHand => \/ block \in headers' \cup rejected'
                            \/ pc' \in InHand /\ block' = block
    BY ZenonT(30), <1>3
            DEF WalkLineage, PendBlock, insert_pending_block, write_signed_block, WalkHeaders,
                RejectBlock, AdvanceCheckpoints, PruneLiveChain, InsertSignedBlock, InsertState,
                PruneOldStates, Tick, InHand
  <2> QED
    BY ZenonT(30), <1>1, <2>1, ActorFrame
<1>4. CASE EnqueueStored \/ ImportDuplicate \/ FinishImport
  <2>1. members(queue) \subseteq members(queue')
    BY ZenonT(30), <1>4, QueueGrows
  <2>2. /\ UNCHANGED <<requested, headers, rejected>>
        /\ pc \in InHand => block \in headers
    BY ZenonT(30), <1>4
       DEF EnqueueStored, ImportDuplicate, FinishImport, has_state, RowsHaveHeaders, InHand
  <2> QED
    BY ZenonT(30), <1>1, <2>1, <2>2, ActorFrame
<1>5. CASE PruneOldBlocks
  <2>1. headers' = headers
    BY ZenonT(30), <1>5, PrunesNothing
  <2>2. UNCHANGED <<requested, rejected, queue>> /\ pc \notin InHand
    BY <1>5 DEF PruneOldBlocks, InHand
  <2> QED
    BY ZenonT(30), <1>1, <2>1, <2>2, ActorFrame
<1> QED
  BY ZenonT(30), <1>2, <1>3, <1>4, <1>5 DEF ChainStep, ChainTick

LEMMA StepTrack ==
    ASSUME IInv, MailInv, RowsHaveHeaders, TrackInv, [NodeNext]_NodeVars,
           Cardinality(Blocks) <= BLOCKS_TO_KEEP
    PROVE  TrackInv'
<1>1. to_chain \in Seq(SignedBlocks \cup {InitP2P}) /\ to_p2p \in Seq(Roots \cup {InitBlockChain})
  BY ZenonT(30) DEF MailInv
<1>2. requested \subseteq Roots /\ missing_root \in Roots /\ (pc = "idle" => queue = <<>>)
  BY DEF IInv, TypeOK, StepInv
<1>3. ASSUME UNCHANGED vars,
             \A r \in Roots :
                 r \in members(to_p2p) \cup fetching \cup members(to_chain) \cup dropped =>
                     r \in (members(to_p2p) \cup fetching \cup members(to_chain) \cup dropped)'
      PROVE  TrackInv'
  <2>1. UNCHANGED <<requested, headers, rejected, queue, pc, block>>
    BY ZenonT(30), <1>3 DEF vars, tables, locals, history
  <2>2. ASSUME pc' # "stopped", NEW r \in requested' \ headers' PROVE Tracked(r)'
    <3>1. Tracked(r) /\ r \in Roots
      BY ZenonT(30), <1>2, <2>1, <2>2 DEF TrackInv
    <3> QED
      BY ZenonT(30), <1>3, <2>1, <3>1 DEF Tracked
  <2> QED
    BY ZenonT(30), <2>2 DEF TrackInv
<1>4. CASE WireActors
  <2>1. /\ UNCHANGED <<vars, fetching, dropped>>
        /\ to_chain' \in {to_chain, Append(to_chain, InitP2P)}
        /\ to_p2p' \in {to_p2p, Append(to_p2p, InitBlockChain)}
    BY ZenonT(30), <1>4 DEF WireActors, chain_vars, p2p_vars, fetch_vars
  <2>2. members(to_chain) \subseteq members(to_chain') /\ members(to_p2p) \subseteq members(to_p2p')
    <3>1. members(to_chain) \subseteq members(Append(to_chain, InitP2P))
      BY <1>1, MailAppend
    <3>2. members(to_p2p) \subseteq members(Append(to_p2p, InitBlockChain))
      BY <1>1, MailAppend
    <3> QED
      BY ZenonT(30), <2>1, <3>1, <3>2
  <2> QED
    BY ZenonT(30), <1>3, <2>1, <2>2
<1>5. CASE HandleInitP2P
  <2>1. /\ UNCHANGED <<vars, fetching, dropped, to_p2p>>
        /\ to_chain # <<>> /\ Head(to_chain) = InitP2P /\ to_chain' = Tail(to_chain)
    BY <1>5 DEF HandleInitP2P, p2p_vars, fetch_vars
  <2>2. members(to_chain) = members(to_chain') \cup {InitP2P}
    BY <1>1, <2>1, MailTail
  <2> QED
    BY <1>3, <2>1, <2>2, Messages
<1>6. CASE HandleNewBlock
  <2>1. /\ pc = "idle" /\ pc' = "loop" /\ queue' = <<Head(to_chain)>>
        /\ to_chain # <<>> /\ to_chain' = Tail(to_chain)
        /\ UNCHANGED <<headers, requested, rejected, fetching, dropped, to_p2p>>
    BY <1>6 DEF HandleNewBlock, NewBlock, tables, history, p2p_vars, fetch_vars
  <2>2. members(to_chain) = members(to_chain') \cup {Head(to_chain)}
    BY <1>1, <2>1, MailTail
  <2>3. members(queue) = {} /\ Head(to_chain) \in members(queue')
    <3>1. queue'[1] = Head(to_chain) /\ 1 \in DOMAIN queue'
      BY <2>1
    <3> QED
      BY <1>2, <2>1, <3>1, NoMail DEF members
  <2>4. ASSUME NEW r \in requested' \ headers' PROVE Tracked(r)'
    <3>1. Tracked(r)
      BY <2>1 DEF TrackInv
    <3> QED
      BY <2>1, <2>2, <2>3, <3>1 DEF Tracked
  <2> QED
    BY <2>4 DEF TrackInv
<1>7. CASE request_missing_block
  <2>1. /\ pc = "db" /\ requested' = requested \cup {missing_root}
        /\ to_p2p' = IF p2p THEN Append(to_p2p, missing_root) ELSE to_p2p
        /\ UNCHANGED <<headers, rejected, queue, fetching, dropped, to_chain>>
    BY ZenonT(30), <1>7 DEF request_missing_block, RequestMissing, tables, p2p_vars, fetch_vars
  <2>2. to_p2p' = Append(to_p2p, missing_root)
    BY ZenonT(30), <2>1, BusyIsWired
  <2>3. members(to_p2p') = members(to_p2p) \cup {missing_root}
    BY <1>1, <1>2, <2>2, MailAppend
  <2>4. ASSUME NEW r \in requested' \ headers' PROVE Tracked(r)'
    <3>1. CASE r = missing_root
      BY ZenonT(30), <2>3, <3>1 DEF Tracked
    <3>2. CASE r # missing_root
      <4>1. Tracked(r)
        BY ZenonT(30), <2>1, <3>2 DEF TrackInv
      <4> QED
        BY ZenonT(30), <2>1, <2>3, <4>1 DEF Tracked
    <3> QED
      BY ZenonT(30), <3>1, <3>2
  <2> QED
    BY <2>4 DEF TrackInv
<1>8. CASE ChainStep \/ ChainTick
  BY ZenonT(30), <1>8, ActorTracks
<1>9. CASE HandleInitBlockChain
  <2>1. /\ UNCHANGED <<vars, fetching, dropped, to_chain>>
        /\ to_p2p # <<>> /\ Head(to_p2p) = InitBlockChain /\ to_p2p' = Tail(to_p2p)
    BY ZenonT(30), <1>9 DEF HandleInitBlockChain, chain_vars, fetch_vars
  <2>2. members(to_p2p) = members(to_p2p') \cup {InitBlockChain}
    BY ZenonT(30), <1>1, <2>1, MailTail
  <2> QED
    BY ZenonT(30), <1>3, <2>1, <2>2, Messages
<1>10. ASSUME NEW b \in SignedBlocks, new_block(b)
       PROVE  /\ members(to_chain) \subseteq members(to_chain')
              /\ blockchain = TRUE /\ pc # "stopped" => b \in members(to_chain')
  <2>1. members(Append(to_chain, b)) = members(to_chain) \cup {b}
    BY <1>1, MailAppend
  <2>2. to_chain' = IF blockchain /\ pc # "stopped" THEN Append(to_chain, b) ELSE to_chain
    BY ZenonT(30), <1>10 DEF new_block
  <2> QED
    BY ZenonT(30), <2>1, <2>2
<1>11. ASSUME NEW b \in SignedBlocks, Gossip(b) PROVE TrackInv'
  <2>1. UNCHANGED <<vars, fetching, dropped, to_p2p>> /\ new_block(b)
    BY <1>11 DEF Gossip, chain_vars, p2p_vars, fetch_vars
  <2> QED
    BY ZenonT(30), <1>3, <1>10, <2>1
<1>12. ASSUME NEW r \in Roots, DeliverFetch(r) PROVE TrackInv'
  <2>1. /\ UNCHANGED <<vars, dropped, to_p2p>> /\ new_block(r) /\ r \in SignedBlocks
        /\ r \in fetching /\ fetching' = fetching \ {r}
    BY <1>12 DEF DeliverFetch, Fetch!Deliver, chain_vars
  <2>2. blockchain = TRUE
    BY ZenonT(30), <2>1, RequestIsWired
  <2>3. CASE pc = "stopped"
    BY <2>1, <2>3 DEF vars, TrackInv
  <2>4. CASE pc # "stopped"
    BY <1>3, <1>10, <2>1, <2>2, <2>4
  <2> QED
    BY <2>3, <2>4
<1>13. ASSUME NEW r \in Roots, StartFetch(r) \/ IgnoreFetch(r) \/ DropFetch(r)
       PROVE  TrackInv'
  <2>1. /\ UNCHANGED <<vars, to_chain>>
        /\ to_p2p # <<>> /\ Head(to_p2p) = r /\ to_p2p' = Tail(to_p2p)
        /\ fetching \subseteq fetching' /\ dropped \subseteq dropped' \cup {r}
        /\ r \in fetching' \cup dropped'
    BY <1>13 DEF StartFetch, IgnoreFetch, DropFetch, fetch_message, Fetch!Start, chain_vars,
                 p2p_vars, fetch_vars
  <2>2. members(to_p2p) = members(to_p2p') \cup {r}
    BY <1>1, <2>1, MailTail
  <2> QED
    BY <1>3, <2>1, <2>2
<1>14. ASSUME NEW r \in Roots, GiveUpFetch(r) PROVE TrackInv'
  <2>1. /\ UNCHANGED <<vars, to_chain, to_p2p>>
        /\ fetching' = fetching \ {r} /\ dropped' = dropped \cup {r}
    BY ZenonT(30), <1>14 DEF GiveUpFetch, Fetch!GiveUp, chain_vars
  <2> QED
    BY ZenonT(30), <1>3, <2>1
<1>15. CASE RestartNode
  BY ZenonT(30), <1>15 DEF RestartNode, Restart, TrackInv
<1>16. CASE UNCHANGED NodeVars
  BY ZenonT(30), <1>3, <1>16 DEF NodeVars, chain_vars, p2p_vars, fetch_vars
<1> QED
  BY ZenonT(30), <1>4, <1>5, <1>6, <1>7, <1>8, <1>9, <1>11, <1>12, <1>13, <1>14, <1>15, <1>16
     DEF NodeNext, ChainActor, P2PActor

(***************************************************************************)
(* Nobody forgets a missing block, in any tree of blocks and any           *)
(* interleaving of the two actors, of the network and of restarts on the   *)
(* same anchor, as long as prune_old_blocks has room for every block.      *)
(***************************************************************************)
THEOREM NobodyForgetsTheorem ==
    ASSUME ~Reanchor, Cardinality(Blocks) <= BLOCKS_TO_KEEP
    PROVE  NodeSpec => []NobodyForgets
<1> DEFINE Inv == IInv /\ SInv /\ RowsInv /\ MailInv /\ TrackInv
<1>1. NodeInit => Inv
  <2>1. NodeInit => TrackInv
    BY DEF NodeInit, Init, TrackInv
  <2> QED
    BY ZenonT(30), <2>1, InitIInv, InitSInv, InitRows, InitMail DEF NodeInit
<1>2. Inv /\ [NodeNext]_NodeVars => Inv'
  BY ZenonT(30), NodeSteps, StepPreserves, StepWaits, StepRows, StepMail, StepTrack,
     RowsFromInv
<1>3. Inv => NobodyForgets
  <2> SUFFICES ASSUME Inv, pc = "idle", NEW r \in Roots, pending_blocks[r] # {}
               PROVE  \/ registered(r)
                      \/ r \in members(to_p2p) \cup fetching \cup members(to_chain)
                      \/ r \in rejected \cup dropped
    BY ZenonT(30) DEF NobodyForgets
  <2>1. queue = <<>> /\ (registered(r) \/ r \in requested \ headers \/ r \in rejected)
    BY IdleWaits
  <2> QED
    BY ZenonT(30), <2>1, NoMail DEF TrackInv, Tracked
<1> HIDE DEF Inv
<1> QED
  BY <1>1, <1>2, <1>3, PTL DEF NodeSpec
=============================================================================
