--------------------------- MODULE StorageBackend ---------------------------
(***************************************************************************)
(* The storage backends (crates/storage/src/api/traits.rs, backend/        *)
(* rocksdb.rs and in_memory.rs) under the operations of the Store on block *)
(* rows.  One writer, the blockchain actor, and the readers of the other   *)
(* tasks share the tables.                                                 *)
(*                                                                         *)
(* The two backends differ in two ways.  RocksDB iterates in the order of  *)
(* the keys and does not lock: a view reads what is there at each call.    *)
(* The in-memory backend iterates a hash map, and a view holds a read lock *)
(* for as long as it lives, which a commit waits for.                      *)
(*                                                                         *)
(* A key is a sequence of bytes, a byte a number below Base; a root is one *)
(* byte and a slot two of them.                                            *)
(***************************************************************************)
EXTENDS Naturals, Sequences, FiniteSets

CONSTANTS
    Roots,           \* roots of blocks, each a byte
    SlotOf,          \* the slot of each block
    Bodies,          \* the blocks whose body is not empty
    Anchor,          \* the block init_store wrote, without signatures
    Readers,         \* tasks that read
    BLOCKS_TO_KEEP,
    Base             \* the number of values of a byte

ASSUME RootsAssumption ==
    /\ Base \in Nat
    /\ Roots \subseteq 0 .. Base - 1
    /\ SlotOf \in [Roots -> 0 .. Base * Base - 1]
    /\ Anchor \in Roots /\ Bodies \subseteq Roots

Tables == {"BlockHeaders", "BlockBodies", "BlockSignatures", "LiveChain"}

VARIABLES
    backend,  \* which of the two it is
    db,       \* table -> set of keys
    views,    \* the tasks that have a view open
    writer,   \* what the writer is doing: "idle", "collect" or "commit"
    op,       \* the pruning under way: [name, slot]
    batch,    \* the operations of the write batch: <<table, key>> -> "put" or "delete"
    call      \* reader -> its get_signed_block: [at, root, found, absent]

vars == <<backend, db, views, writer, op, batch, call>>

Backends == {"rocksdb", "in_memory"}

Sorted == backend = "rocksdb"

Locking == backend = "in_memory"

Writer == "writer"

ASSUME ReadersAssumption == Writer \notin Readers

root_key(root) == <<root>>

to_be_bytes(slot) == <<slot \div Base, slot % Base>>

\* Integers in SSZ are little-endian.
encode_live_chain_key_ssz(slot, root) == <<slot % Base, slot \div Base, root>>

encode_live_chain_key(slot, root) == Append(to_be_bytes(slot), root)

decode_live_chain_key(key) == [slot |-> Base * key[1] + key[2], root |-> key[3]]

live_chain_key(root) == encode_live_chain_key(SlotOf[root], root)

\* The lexicographic order of RocksDB.
before(k, m) ==
    \E i \in DOMAIN k : k[i] < m[i] /\ \A j \in 1 .. i - 1 : k[j] = m[j]

\* The orders in which an iterator may produce the keys.
iterations(keys) ==
    {order \in [1 .. Cardinality(keys) -> keys] :
        /\ \A k \in keys : \E i \in DOMAIN order : order[i] = k
        /\ Sorted => \A i, j \in DOMAIN order : i < j => before(order[i], order[j])}

-----------------------------------------------------------------------------
no_ops == [k \in {} |-> "put"]

\* put_batch and delete_batch: the last operation on a key is the one that counts.
with_ops(ops, table, keys, kind) ==
    [k \in DOMAIN ops \cup ({table} \X keys) |->
        IF k \in {table} \X keys THEN kind ELSE ops[k]]

put_batch(ops, table, keys) == with_ops(ops, table, keys, "put")

delete_batch(ops, table, keys) == with_ops(ops, table, keys, "delete")

keys_of(ops, table, kind) == {k[2] : k \in {m \in DOMAIN ops : m[1] = table /\ ops[m] = kind}}

\* A view may be opened unless a writer waits for the lock (std's RwLock).
CanOpenView == ~(Locking /\ writer = "commit")

commit ==
    /\ writer = "commit"
    /\ Locking => views = {}
    /\ db' = [t \in Tables |-> (db[t] \cup keys_of(batch, t, "put"))
                                    \ keys_of(batch, t, "delete")]
    /\ writer' = "idle"
    /\ batch' = no_ops
    /\ UNCHANGED <<backend, views, op>>

-----------------------------------------------------------------------------
NoPruning == [name |-> "none", slot |-> 0]

\* init_store: the anchor has a header and an entry of the index, no signatures.
Init ==
    /\ backend \in Backends
    /\ db = [t \in Tables |->
                CASE t = "BlockHeaders" -> {root_key(Anchor)}
                  [] t = "LiveChain" -> {live_chain_key(Anchor)}
                  [] OTHER -> {}]
    /\ views = {}
    /\ writer = "idle"
    /\ op = NoPruning
    /\ batch = no_ops
    /\ call = [r \in Readers |-> [at |-> "done", root |-> Anchor, found |-> {}, absent |-> TRUE]]

\* An empty body is not stored: it can be told from the body root of the header.
write_signed_block(ops, root) ==
    LET headers == put_batch(ops, "BlockHeaders", {root_key(root)})
        bodies == put_batch(headers, "BlockBodies",
                            {root_key(root)} \cap {root_key(b) : b \in Bodies})
    IN  put_batch(bodies, "BlockSignatures", {root_key(root)})

StartCommit(ops) ==
    /\ writer' = "commit"
    /\ batch' = ops

insert_pending_block(root) ==
    /\ writer = "idle"
    /\ StartCommit(write_signed_block(no_ops, root))
    /\ op' = NoPruning
    /\ UNCHANGED <<backend, db, views, call>>

insert_signed_block(root) ==
    /\ writer = "idle"
    /\ StartCommit(put_batch(write_signed_block(no_ops, root), "LiveChain",
                             {live_chain_key(root)}))
    /\ op' = NoPruning
    /\ UNCHANGED <<backend, db, views, call>>

\* Both prunings open a view, collect keys, drop the view and only then commit.
OpenPruning(name, slot) ==
    /\ writer = "idle"
    /\ CanOpenView
    /\ writer' = "collect"
    /\ op' = [name |-> name, slot |-> slot]
    /\ views' = views \cup {Writer}
    /\ UNCHANGED <<backend, db, batch, call>>

\* The iterator's take_while over the LiveChain.
slots_below(order, slot) ==
    {order[i] : i \in {j \in DOMAIN order :
        \A m \in DOMAIN order : m <= j => decode_live_chain_key(order[m]).slot < slot}}

prune_live_chain_in_view ==
    /\ writer = "collect" /\ op.name = "live_chain"
    /\ \E order \in iterations(db["LiveChain"]) :
           LET keys == slots_below(order, op.slot)
           IN  IF keys = {} THEN writer' = "idle" /\ UNCHANGED batch
               ELSE StartCommit(delete_batch(no_ops, "LiveChain", keys))
    /\ UNCHANGED <<backend, db, views, op, call>>

prune_live_chain ==
    /\ writer = "collect" /\ op.name = "live_chain"
    /\ \E order \in iterations(db["LiveChain"]) :
           LET keys == slots_below(order, op.slot)
           IN  IF keys = {} THEN writer' = "idle" /\ UNCHANGED batch
               ELSE StartCommit(delete_batch(no_ops, "LiveChain", keys))
    /\ views' = views \ {Writer}
    /\ UNCHANGED <<backend, db, op, call>>

\* The headers within the retention window, equal slots in any order.
retained(headers) ==
    {kept \in SUBSET headers :
        /\ Cardinality(kept) = BLOCKS_TO_KEEP
        /\ \A k \in kept, m \in headers \ kept : SlotOf[k[1]] >= SlotOf[m[1]]}

delete_blocks(keys) ==
    delete_batch(delete_batch(delete_batch(no_ops, "BlockHeaders", keys),
                              "BlockBodies", keys), "BlockSignatures", keys)

\* The anchor stands for the protected roots.
prune_old_blocks ==
    LET headers == db["BlockHeaders"]
    IN  /\ writer = "collect" /\ op.name = "old_blocks"
        /\ IF Cardinality(headers) <= BLOCKS_TO_KEEP
           THEN writer' = "idle" /\ UNCHANGED batch
           ELSE \E kept \in retained(headers) :
               StartCommit(delete_blocks(headers \ (kept \cup {root_key(Anchor)})))
        /\ views' = views \ {Writer}
        /\ UNCHANGED <<backend, db, op, call>>

-----------------------------------------------------------------------------
\* The rows a whole block has.
rows_of(root) ==
    {t \in Tables \ {"LiveChain"} : t = "BlockBodies" => root \in Bodies}

\* A signed block was written and not pruned.
stored(root, tables) == root_key(root) \in tables["BlockHeaders"] \cap tables["BlockSignatures"]

StartReading(r, root) ==
    /\ call[r].at = "done"
    /\ CanOpenView
    /\ views' = views \cup {r}
    /\ call' = [call EXCEPT ![r] = [at |-> "BlockHeaders", root |-> root, found |-> {},
                                    absent |-> ~stored(root, db)]]
    /\ UNCHANGED <<backend, db, writer, op, batch>>

(***************************************************************************)
(* One `get` of get_signed_block: header, signatures, body.  A missing row *)
(* ends the call with None; the body is looked up unless the header says   *)
(* that it is empty.                                                       *)
(***************************************************************************)
next_get(table, root) ==
    CASE table = "BlockHeaders" -> "BlockSignatures"
      [] table = "BlockSignatures" -> IF root \in Bodies THEN "BlockBodies" ELSE "done"
      [] OTHER -> "done"

get_or_default(r) ==
    LET table == call[r].at
        root == call[r].root
        there == root_key(root) \in db[table]
        next == IF there \/ table = "BlockBodies" THEN next_get(table, root) ELSE "done"
    IN  /\ table # "done"
        /\ call' = [call EXCEPT ![r].at = next,
                                ![r].found = IF there THEN @ \cup {table}
                                             ELSE IF table = "BlockBodies" THEN @ ELSE {}]
        /\ views' = IF next = "done" THEN views \ {r} ELSE views
        /\ UNCHANGED <<backend, db, writer, op, batch>>

get(r) ==
    LET table == call[r].at
        root == call[r].root
        there == root_key(root) \in db[table]
        next == IF there THEN next_get(table, root) ELSE "done"
    IN  /\ table # "done"
        /\ call' = [call EXCEPT ![r].at = next,
                                ![r].found = IF there THEN @ \cup {table} ELSE {}]
        /\ views' = IF next = "done" THEN views \ {r} ELSE views
        /\ UNCHANGED <<backend, db, writer, op, batch>>

\* A commit, seen by the history of the calls under way.
Commit ==
    /\ commit
    /\ call' = [r \in Readers |->
                  [call[r] EXCEPT !.absent = @ \/ ~stored(call[r].root, db')]]

Write ==
    \/ \E root \in Roots : insert_pending_block(root) \/ insert_signed_block(root)
    \/ \E slot \in {SlotOf[root] : root \in Roots} : OpenPruning("live_chain", slot)
    \/ OpenPruning("old_blocks", 0)
    \/ prune_live_chain
    \/ prune_old_blocks
    \/ Commit

Next ==
    \/ Write
    \/ \E r \in Readers, root \in Roots : StartReading(r, root)
    \/ \E r \in Readers : get(r)

\* A thread that may run does so; a view is dropped at the end of its call.
Fairness ==
    /\ WF_vars(Commit)
    /\ WF_vars(prune_live_chain)
    /\ WF_vars(prune_old_blocks)
    /\ \A r \in Readers : WF_vars(get(r))

Spec == Init /\ [][Next]_vars /\ Fairness

-----------------------------------------------------------------------------
(***************************************************************************)
(* get_signed_block reads as if from a snapshot, although there is none:   *)
(* it returns the whole block, or None for one that was not stored at some *)
(* moment of the call, however its three reads interleave with the commits *)
(* of imports and of prune_old_blocks.  So what write_signed_block leaves  *)
(* out for an empty body is what get_signed_block does not look for, and a *)
(* pending block that is written again on import never disappears.         *)
(***************************************************************************)
SignedBlockIsAtomic ==
    \A r \in Readers : call[r].at = "done" =>
        \/ call[r].found = rows_of(call[r].root)
        \/ call[r].found = {} /\ call[r].absent

(***************************************************************************)
(* "Keys are sorted by slot (big-endian encoding) so we can stop early"    *)
(* (prune_live_chain).  When it ends, over RocksDB the table holds exactly *)
(* the entries it held at or above the slot: the early stop leaves none    *)
(* below it, on either side of a carry of the encoded slot.  Over either   *)
(* backend no entry at or above the slot is gone.  (Over the hash map of   *)
(* the in-memory backend entries below it may remain.)                     *)
(***************************************************************************)
PruningIsComplete ==
    [][ writer # "idle" /\ writer' = "idle" /\ op.name = "live_chain" =>
            LET kept == {k \in db["LiveChain"] : SlotOf[k[3]] >= op.slot}
            IN  /\ kept \subseteq db'["LiveChain"]
                /\ Sorted => db'["LiveChain"] = kept ]_vars

(***************************************************************************)
(* The writer does not wait for ever: nobody commits while it has a view   *)
(* open, and every view is dropped.                                        *)
(***************************************************************************)
CommitEnds == writer = "commit" ~> writer = "idle"
=============================================================================
