------------------------ MODULE StorageBackendProofs ------------------------
(***************************************************************************)
(* Proofs about StorageBackend, for any blocks, any number of readers, any *)
(* size of a byte, and over either backend.                                *)
(***************************************************************************)
EXTENDS StorageBackend, TLAPS

\* The time the provers have for a leaf; the leaves that are pure logic name Zenon.
USE SMTT(30), ZenonT(30)

-----------------------------------------------------------------------------
(***************************************************************************)
(* The inductive invariant.  A block that has its signatures is whole,     *)
(* because every batch writes or deletes the rows of a block together; and *)
(* a call that has not seen the block absent has it there for the rest.    *)
(***************************************************************************)
Whole(root) ==
    root_key(root) \in db["BlockSignatures"] =>
        /\ root_key(root) \in db["BlockHeaders"]
        /\ root \in Bodies => root_key(root) \in db["BlockBodies"]

LiveKeys == {live_chain_key(root) : root \in Roots}

TablesInv ==
    /\ db = [t \in Tables |-> db[t]]
    /\ db["LiveChain"] \subseteq LiveKeys
    /\ \A root \in Roots : Whole(root)

puts(table) == keys_of(batch, table, "put")

deletes(table) == keys_of(batch, table, "delete")

Inserts(root) ==
    /\ op.name = "none"
    /\ \A t \in Tables : deletes(t) = {}
    /\ \A t \in rows_of(root) : puts(t) = {root_key(root)}
    /\ root \notin Bodies => puts("BlockBodies") = {}
    /\ puts("LiveChain") \subseteq {live_chain_key(root)}

PrunesLiveChain ==
    /\ op.name = "live_chain"
    /\ \A t \in Tables : puts(t) = {}
    /\ \A t \in Tables \ {"LiveChain"} : deletes(t) = {}
    /\ \A k \in deletes("LiveChain") : SlotOf[k[3]] < op.slot
    /\ Sorted => \A k \in db["LiveChain"] : SlotOf[k[3]] < op.slot => k \in deletes("LiveChain")

PrunesBlocks ==
    /\ op.name = "old_blocks"
    /\ \A t \in Tables : puts(t) = {}
    /\ deletes("LiveChain") = {}
    /\ \A t \in Tables \ {"LiveChain"} : deletes(t) = deletes("BlockHeaders")

WriterInv ==
    /\ writer \in {"idle", "collect", "commit"}
    /\ writer = "commit" => \/ \E root \in Roots : Inserts(root)
                            \/ PrunesLiveChain
                            \/ PrunesBlocks
    /\ writer = "collect" => op.name \in {"live_chain", "old_blocks"}
    /\ op.slot \in Nat
    /\ Writer \in views <=> writer = "collect"

\* What get_signed_block has read when it gets to a table.
read_before(table) ==
    CASE table = "BlockHeaders" -> {}
      [] table = "BlockSignatures" -> {"BlockHeaders"}
      [] table = "BlockBodies" -> {"BlockHeaders", "BlockSignatures"}

CallInv(c) ==
    /\ c = [at |-> c.at, root |-> c.root, found |-> c.found, absent |-> c.absent]
    /\ c.root \in Roots
    /\ c.at \in (Tables \ {"LiveChain"}) \cup {"done"}
    /\ c.at # "done" => /\ c.found = read_before(c.at)
                        /\ c.absent \/ stored(c.root, db)
    /\ c.at = "BlockBodies" => c.root \in Bodies
    /\ c.at = "done" => c.found = rows_of(c.root) \/ (c.found = {} /\ c.absent)

CallsInv ==
    /\ call = [r \in Readers |-> call[r]]
    /\ \A r \in Readers : CallInv(call[r])

IInv == TablesInv /\ WriterInv /\ CallsInv

-----------------------------------------------------------------------------
(***************************************************************************)
(* Batches                                                                 *)
(***************************************************************************)
Operations(ops) == \A m \in DOMAIN ops : m = <<m[1], m[2]>>

LEMMA NoOps ==
    /\ Operations(no_ops)
    /\ \A table, kind : keys_of(no_ops, table, kind) = {}
  BY DEF Operations, no_ops, keys_of

\* A put or delete replaces what the batch held for the same keys, and leaves the
\* other tables alone.
LEMMA WithOps ==
    ASSUME NEW ops, Operations(ops), NEW table, NEW keys, NEW kind
    PROVE  /\ Operations(with_ops(ops, table, keys, kind))
           /\ keys_of(with_ops(ops, table, keys, kind), table, kind)
                = keys_of(ops, table, kind) \cup keys
           /\ \A t, k : t # table =>
                keys_of(with_ops(ops, table, keys, kind), t, k) = keys_of(ops, t, k)
           /\ \A k : k # kind =>
                keys_of(with_ops(ops, table, keys, kind), table, k)
                  = keys_of(ops, table, k) \ keys
<1> DEFINE all == with_ops(ops, table, keys, kind)
           rows == {table} \X keys
<1>1. /\ DOMAIN all = DOMAIN ops \cup rows
      /\ \A m \in DOMAIN all : all[m] = IF m \in rows THEN kind ELSE ops[m]
  BY DEF with_ops
<1>2. \A m : m \in rows <=> m = <<m[1], m[2]>> /\ m[1] = table /\ m[2] \in keys
  OBVIOUS
<1> HIDE DEF all, rows
<1>3. Operations(all)
  BY <1>1, <1>2 DEF Operations
<1>4. ASSUME NEW t, NEW k, NEW x
      PROVE  x \in keys_of(all, t, k) <=> <<t, x>> \in DOMAIN all /\ all[<<t, x>>] = k
  BY <1>3 DEF keys_of, Operations
<1>5. ASSUME NEW t, NEW k, NEW x
      PROVE  x \in keys_of(ops, t, k) <=> <<t, x>> \in DOMAIN ops /\ ops[<<t, x>>] = k
  BY DEF keys_of, Operations
<1>6. \A t, x : <<t, x>> \in rows <=> t = table /\ x \in keys
  BY DEF rows
<1>7. ASSUME NEW t, NEW k, NEW x
      PROVE  x \in keys_of(all, t, k) <=>
                 IF t = table /\ x \in keys THEN k = kind ELSE x \in keys_of(ops, t, k)
  <2>1. <<t, x>> \in rows <=> t = table /\ x \in keys
    BY ZenonT(30), <1>6
  <2>2. CASE <<t, x>> \in rows
    <3>1. <<t, x>> \in DOMAIN all /\ all[<<t, x>>] = kind
      BY ZenonT(30), <1>1, <2>2
    <3> QED
      BY ZenonT(30), <1>4, <2>1, <2>2, <3>1
  <2>3. CASE <<t, x>> \notin rows
    <3>1. /\ <<t, x>> \in DOMAIN all <=> <<t, x>> \in DOMAIN ops
          /\ <<t, x>> \in DOMAIN all => all[<<t, x>>] = ops[<<t, x>>]
      BY ZenonT(30), <1>1, <2>3
    <3>2. x \in keys_of(all, t, k) <=> <<t, x>> \in DOMAIN all /\ all[<<t, x>>] = k
      BY ZenonT(30), <1>4
    <3>3. x \in keys_of(ops, t, k) <=> <<t, x>> \in DOMAIN ops /\ ops[<<t, x>>] = k
      BY ZenonT(30), <1>5
    <3>4. x \in keys_of(all, t, k) <=> x \in keys_of(ops, t, k)
      BY ZenonT(30), <3>1, <3>2, <3>3
    <3> QED
      BY ZenonT(30), <2>1, <2>3, <3>4
  <2> QED
    BY <2>2, <2>3
<1>8. keys_of(all, table, kind) = keys_of(ops, table, kind) \cup keys
  BY <1>7
<1>9. \A t, k : t # table => keys_of(all, t, k) = keys_of(ops, t, k)
  BY <1>7
<1>10. \A k : k # kind => keys_of(all, table, k) = keys_of(ops, table, k) \ keys
  BY <1>7
<1> QED
  BY ZenonT(30), <1>3, <1>8, <1>9, <1>10 DEF all

LEMMA RootKeys == \A a, b : root_key(a) = root_key(b) => a = b
  BY DEF root_key

\* The batch of a block: all its rows, and nothing else.
LEMMA WriteSignedBlock ==
    ASSUME NEW root \in Roots
    PROVE  LET ops == write_signed_block(no_ops, root)
           IN  /\ Operations(ops)
               /\ \A t : keys_of(ops, t, "delete") = {}
               /\ \A t \in rows_of(root) : keys_of(ops, t, "put") = {root_key(root)}
               /\ root \notin Bodies => keys_of(ops, "BlockBodies", "put") = {}
               /\ keys_of(ops, "LiveChain", "put") = {}
<1> DEFINE key == {root_key(root)}
           body == key \cap {root_key(b) : b \in Bodies}
           h == with_ops(no_ops, "BlockHeaders", key, "put")
           b == with_ops(h, "BlockBodies", body, "put")
           s == with_ops(b, "BlockSignatures", key, "put")
<1>1. s = write_signed_block(no_ops, root)
  BY DEF write_signed_block, put_batch
<1>2. body = IF root \in Bodies THEN key ELSE {}
  BY RootKeys
<1> HIDE DEF key, body, s, b, h
<1>3. /\ Operations(h)
      /\ \A t : keys_of(h, t, "delete") = {}
      /\ \A t : keys_of(h, t, "put") = IF t = "BlockHeaders" THEN key ELSE {}
  <2>1. /\ Operations(h)
        /\ keys_of(h, "BlockHeaders", "put") = keys_of(no_ops, "BlockHeaders", "put") \cup key
        /\ keys_of(h, "BlockHeaders", "delete") = keys_of(no_ops, "BlockHeaders", "delete") \ key
        /\ \A t, k : t # "BlockHeaders" => keys_of(h, t, k) = keys_of(no_ops, t, k)
    BY NoOps, WithOps DEF h
  <2> QED
    BY <2>1, NoOps
<1>4. /\ Operations(b)
      /\ \A t : keys_of(b, t, "delete") = {}
      /\ \A t : keys_of(b, t, "put") = IF t = "BlockHeaders" THEN key
                                       ELSE IF t = "BlockBodies" THEN body ELSE {}
  <2>1. /\ Operations(b)
        /\ keys_of(b, "BlockBodies", "put") = keys_of(h, "BlockBodies", "put") \cup body
        /\ keys_of(b, "BlockBodies", "delete") = keys_of(h, "BlockBodies", "delete") \ body
        /\ \A t, k : t # "BlockBodies" => keys_of(b, t, k) = keys_of(h, t, k)
    BY <1>3, WithOps DEF b
  <2> QED
    BY <1>3, <2>1
<1>5. /\ Operations(s)
      /\ \A t : keys_of(s, t, "delete") = {}
      /\ \A t : keys_of(s, t, "put") = IF t \in {"BlockHeaders", "BlockSignatures"} THEN key
                                       ELSE IF t = "BlockBodies" THEN body ELSE {}
  <2>1. /\ Operations(s)
        /\ keys_of(s, "BlockSignatures", "put") = keys_of(b, "BlockSignatures", "put") \cup key
        /\ keys_of(s, "BlockSignatures", "delete") = keys_of(b, "BlockSignatures", "delete") \ key
        /\ \A t, k : t # "BlockSignatures" => keys_of(s, t, k) = keys_of(b, t, k)
    BY <1>4, WithOps DEF s
  <2> QED
    BY <1>4, <2>1
<1>6. \A t \in rows_of(root) : keys_of(s, t, "put") = key
  BY <1>2, <1>5 DEF rows_of, Tables
<1>7. root \notin Bodies => keys_of(s, "BlockBodies", "put") = {}
  BY <1>2, <1>5
<1> QED
  BY ZenonT(30), <1>1, <1>5, <1>6, <1>7 DEF key


\* The batch of prune_old_blocks: the same keys from the three tables of blocks.
LEMMA DeleteBlocks ==
    ASSUME NEW keys
    PROVE  LET ops == delete_blocks(keys)
           IN  /\ \A t : keys_of(ops, t, "put") = {}
               /\ \A t \in Tables \ {"LiveChain"} : keys_of(ops, t, "delete") = keys
               /\ keys_of(ops, "LiveChain", "delete") = {}
<1> DEFINE h == with_ops(no_ops, "BlockHeaders", keys, "delete")
           b == with_ops(h, "BlockBodies", keys, "delete")
           s == with_ops(b, "BlockSignatures", keys, "delete")
<1>1. s = delete_blocks(keys)
  BY DEF delete_blocks, delete_batch
<1> HIDE DEF s, b, h
<1>2. /\ Operations(h)
      /\ \A t : keys_of(h, t, "put") = {}
      /\ \A t : keys_of(h, t, "delete") = IF t = "BlockHeaders" THEN keys ELSE {}
  <2>1. /\ Operations(h)
        /\ keys_of(h, "BlockHeaders", "delete")
             = keys_of(no_ops, "BlockHeaders", "delete") \cup keys
        /\ keys_of(h, "BlockHeaders", "put") = keys_of(no_ops, "BlockHeaders", "put") \ keys
        /\ \A t, k : t # "BlockHeaders" => keys_of(h, t, k) = keys_of(no_ops, t, k)
    BY NoOps, WithOps DEF h
  <2> QED
    BY <2>1, NoOps
<1>3. /\ Operations(b)
      /\ \A t : keys_of(b, t, "put") = {}
      /\ \A t : keys_of(b, t, "delete") = IF t \in {"BlockHeaders", "BlockBodies"}
                                          THEN keys ELSE {}
  <2>1. /\ Operations(b)
        /\ keys_of(b, "BlockBodies", "delete") = keys_of(h, "BlockBodies", "delete") \cup keys
        /\ keys_of(b, "BlockBodies", "put") = keys_of(h, "BlockBodies", "put") \ keys
        /\ \A t, k : t # "BlockBodies" => keys_of(b, t, k) = keys_of(h, t, k)
    BY <1>2, WithOps DEF b
  <2> QED
    BY <1>2, <2>1
<1>4. /\ \A t : keys_of(s, t, "put") = {}
      /\ \A t : keys_of(s, t, "delete") =
             IF t \in {"BlockHeaders", "BlockBodies", "BlockSignatures"} THEN keys ELSE {}
  <2>1. /\ keys_of(s, "BlockSignatures", "delete")
             = keys_of(b, "BlockSignatures", "delete") \cup keys
        /\ keys_of(s, "BlockSignatures", "put") = keys_of(b, "BlockSignatures", "put") \ keys
        /\ \A t, k : t # "BlockSignatures" => keys_of(s, t, k) = keys_of(b, t, k)
    BY <1>3, WithOps DEF s
  <2> QED
    BY <1>3, <2>1
<1> QED
  BY <1>1, <1>4 DEF Tables

-----------------------------------------------------------------------------
(***************************************************************************)
(* The keys of the LiveChain                                               *)
(***************************************************************************)
\* A slot is its two bytes.
LEMMA TwoBytes ==
    ASSUME NEW slot \in 0 .. Base * Base - 1
    PROVE  /\ slot \div Base \in Nat /\ slot % Base \in Nat
           /\ slot % Base < Base
           /\ Base * (slot \div Base) + (slot % Base) = slot
<1>1. Base \in Nat /\ Base > 0
  BY RootsAssumption
<1> QED
  BY <1>1

\* The higher byte decides, then the lower one.
LEMMA BytesOrder ==
    ASSUME NEW base \in Nat, NEW h \in Nat, NEW l \in Nat, NEW i \in Nat, NEW m \in Nat,
           l < base, m < base, h < i \/ (h = i /\ l <= m)
    PROVE  base * h + l <= base * i + m
<1>1. CASE h < i
  <2>1. PICK d \in Nat : i = h + 1 + d
    <3>1. i - h - 1 \in Nat /\ i = h + 1 + (i - h - 1)
      BY <1>1
    <3> QED
      BY <3>1
  <2>2. base * i = base * h + base + base * d /\ base * d \in Nat /\ base * h \in Nat
    BY <2>1
  <2> QED
    BY <2>2
<1>2. CASE h = i /\ l <= m
  <2>1. base * h \in Nat
    OBVIOUS
  <2> QED
    BY <1>2, <2>1
<1> QED
  BY <1>1, <1>2

LEMMA LiveKey ==
    ASSUME NEW root \in Roots
    PROVE  /\ DOMAIN live_chain_key(root) = 1 .. 3
           /\ live_chain_key(root)[1] = SlotOf[root] \div Base
           /\ live_chain_key(root)[2] = SlotOf[root] % Base
           /\ live_chain_key(root)[3] = root
           /\ decode_live_chain_key(live_chain_key(root)).slot = SlotOf[root]
<1> DEFINE high == SlotOf[root] \div Base
           low == SlotOf[root] % Base
           key == Append(<<high, low>>, root)
<1>1. live_chain_key(root) = key
  BY ZenonT(30) DEF live_chain_key, encode_live_chain_key, to_be_bytes
<1>2. DOMAIN key = 1 .. 3 /\ key[1] = high /\ key[2] = low /\ key[3] = root
  <2> HIDE DEF high, low
  <2>1. <<high, low>> \in Seq({high, low, root})
    OBVIOUS
  <2>2. /\ key \in Seq({high, low, root}) /\ Len(key) = 3
        /\ key[1] = high /\ key[2] = low /\ key[3] = root
    BY <2>1
  <2> QED
    BY <2>2
<1>3. Base * high + low = SlotOf[root]
  BY RootsAssumption, TwoBytes
<1> QED
  BY <1>1, <1>2, <1>3 DEF decode_live_chain_key

LEMMA KeySlots == \A k \in LiveKeys : SlotOf[k[3]] \in Nat
<1> SUFFICES ASSUME NEW k \in LiveKeys PROVE SlotOf[k[3]] \in Nat
  OBVIOUS
<1>1. PICK root \in Roots : k = live_chain_key(root)
  BY DEF LiveKeys
<1>2. k[3] = root /\ SlotOf[root] \in 0 .. Base * Base - 1
  BY <1>1, LiveKey, RootsAssumption
<1> QED
  BY <1>2

\* Keys in the order of RocksDB are in the order of their slots.
LEMMA KeysOrder ==
    ASSUME NEW a \in Roots, NEW b \in Roots, before(live_chain_key(a), live_chain_key(b))
    PROVE  SlotOf[a] <= SlotOf[b]
<1> DEFINE k == live_chain_key(a)
           m == live_chain_key(b)
<1>1. /\ SlotOf[a] \in 0 .. Base * Base - 1 /\ SlotOf[b] \in 0 .. Base * Base - 1
      /\ Base \in Nat
  BY RootsAssumption
<1>2. /\ k[1] \in Nat /\ k[2] \in Nat /\ k[2] < Base /\ Base * k[1] + k[2] = SlotOf[a]
      /\ m[1] \in Nat /\ m[2] \in Nat /\ m[2] < Base /\ Base * m[1] + m[2] = SlotOf[b]
      /\ DOMAIN k = 1 .. 3
  BY <1>1, LiveKey, TwoBytes
<1> HIDE DEF k, m
<1>3. PICK i \in DOMAIN k : k[i] < m[i] /\ \A j \in 1 .. i - 1 : k[j] = m[j]
  BY DEF before, k, m
<1>4. i \in {1, 2, 3}
  BY <1>2, <1>3
<1>5. k[1] < m[1] \/ (k[1] = m[1] /\ k[2] <= m[2])
  <2>1. CASE i = 1
    BY <1>3, <2>1
  <2>2. CASE i = 2
    <3>1. 1 \in 1 .. i - 1
      BY <2>2
    <3> QED
      BY <1>2, <1>3, <2>2, <3>1
  <2>3. CASE i = 3
    <3>1. 1 \in 1 .. i - 1 /\ 2 \in 1 .. i - 1
      BY <2>3
    <3> QED
      BY <1>2, <1>3, <2>3, <3>1
  <2> QED
    BY <1>4, <2>1, <2>2, <2>3
<1>6. Base * k[1] + k[2] <= Base * m[1] + m[2]
  BY <1>1, <1>2, <1>5, BytesOrder
<1> QED
  BY <1>2, <1>6

\* So the early stop of prune_live_chain misses no key below the slot.
LEMMA EarlyStop ==
    ASSUME Sorted, NEW keys \in SUBSET LiveKeys, NEW order \in iterations(keys),
           NEW slot \in Nat, NEW k \in keys, SlotOf[k[3]] < slot
    PROVE  k \in slots_below(order, slot)
<1>1. /\ DOMAIN order = 1 .. Cardinality(keys)
      /\ \A i \in DOMAIN order : order[i] \in keys
      /\ \A i, j \in DOMAIN order : i < j => before(order[i], order[j])
  BY DEF iterations
<1>2. PICK j \in DOMAIN order : order[j] = k
  BY DEF iterations
<1>3. ASSUME NEW m \in DOMAIN order, m <= j
      PROVE  decode_live_chain_key(order[m]).slot < slot
  <2>1. m = j \/ m < j
    BY <1>1, <1>3
  <2>2. PICK a \in Roots : order[m] = live_chain_key(a)
    BY <1>1, <2>1 DEF LiveKeys
  <2>3. PICK b \in Roots : k = live_chain_key(b)
    BY DEF LiveKeys
  <2>4. SlotOf[a] <= SlotOf[b]
    <3>1. CASE m = j
      <4>1. live_chain_key(a) = live_chain_key(b)
        BY ZenonT(30), <1>2, <2>2, <2>3, <3>1
      <4>2. live_chain_key(a)[3] = a /\ live_chain_key(b)[3] = b
        BY ZenonT(30), LiveKey
      <4>3. a = b
        BY ZenonT(30), <4>1, <4>2
      <4> QED
        BY <4>3, RootsAssumption
    <3>2. CASE m < j
      BY <1>1, <1>2, <2>1, <2>2, <2>3, <3>2, KeysOrder
    <3> QED
      BY <2>1, <3>1, <3>2
  <2>5. SlotOf[b] < slot /\ decode_live_chain_key(order[m]).slot = SlotOf[a]
    BY <2>2, <2>3, LiveKey
  <2>6. SlotOf[a] \in Nat /\ SlotOf[b] \in Nat
    BY RootsAssumption
  <2> QED
    BY <2>4, <2>5, <2>6
<1> QED
  BY <1>2, <1>3 DEF slots_below

\* And, in whatever order the keys come, it takes none at or above the slot.
LEMMA OnlyBelow ==
    ASSUME NEW keys \in SUBSET LiveKeys, NEW order \in iterations(keys),
           NEW slot \in Nat, NEW k \in slots_below(order, slot)
    PROVE  SlotOf[k[3]] < slot
<1>1. PICK j \in DOMAIN order : /\ k = order[j]
                               /\ \A m \in DOMAIN order :
                                      m <= j => decode_live_chain_key(order[m]).slot < slot
  BY DEF slots_below
<1>2. j \in Nat /\ k \in keys
  BY <1>1 DEF iterations
<1>3. decode_live_chain_key(k).slot < slot
  BY <1>1, <1>2
<1>4. PICK a \in Roots : k = live_chain_key(a)
  BY <1>2 DEF LiveKeys
<1> QED
  BY <1>3, <1>4, LiveKey

-----------------------------------------------------------------------------
(***************************************************************************)
(* The invariant is inductive                                              *)
(***************************************************************************)
LEMMA InitIInv == Init => IInv
<1> SUFFICES ASSUME Init PROVE IInv
  OBVIOUS
<1>1. TablesInv
  <2>1. /\ db = [t \in Tables |-> db[t]]
        /\ db["BlockSignatures"] = {}
        /\ db["LiveChain"] = {live_chain_key(Anchor)}
    BY DEF Init, Tables
  <2> QED
    BY <2>1, RootsAssumption DEF TablesInv, LiveKeys, Whole
<1>2. WriterInv
  BY DEF Init, WriterInv, NoPruning
<1>3. CallsInv
  BY RootsAssumption DEF Init, CallsInv, CallInv
<1> QED
  BY <1>1, <1>2, <1>3 DEF IInv

\* A step that does not commit leaves the tables, and one of the writer the calls.
LEMMA SameTables ==
    ASSUME TablesInv, UNCHANGED db
    PROVE  TablesInv'
  BY DEF TablesInv, Whole

LEMMA SameCalls ==
    ASSUME CallsInv, UNCHANGED <<db, call>>
    PROVE  CallsInv'
  BY DEF CallsInv, CallInv, stored

\* The views of the readers are no concern of the writer.
LEMMA SameWriter ==
    ASSUME WriterInv, NEW r \in Readers, UNCHANGED <<backend, db, writer, op, batch>>,
           views' \in {views, views \cup {r}, views \ {r}}
    PROVE  WriterInv'
<1>1. Writer \in views' <=> Writer \in views
  BY ReadersAssumption
<1> QED
  BY <1>1 DEF WriterInv, Inserts, PrunesLiveChain, PrunesBlocks, puts, deletes, Sorted

LEMMA InsertStep ==
    ASSUME WriterInv, NEW root \in Roots, insert_pending_block(root) \/ insert_signed_block(root)
    PROVE  WriterInv'
<1> DEFINE ops == write_signed_block(no_ops, root)
<1>1. /\ Operations(ops)
      /\ \A t : keys_of(ops, t, "delete") = {}
      /\ \A t \in rows_of(root) : keys_of(ops, t, "put") = {root_key(root)}
      /\ root \notin Bodies => keys_of(ops, "BlockBodies", "put") = {}
      /\ keys_of(ops, "LiveChain", "put") = {}
  BY WriteSignedBlock
<1> HIDE DEF ops
<1>2. /\ writer' = "commit" /\ op' = NoPruning /\ views' = views /\ writer = "idle"
      /\ \/ batch' = ops
         \/ batch' = with_ops(ops, "LiveChain", {live_chain_key(root)}, "put")
  BY DEF insert_pending_block, insert_signed_block, StartCommit, put_batch, ops
<1>3. /\ \A t : keys_of(batch', t, "delete") = {}
      /\ \A t : t # "LiveChain" => keys_of(batch', t, "put") = keys_of(ops, t, "put")
      /\ keys_of(batch', "LiveChain", "put") \subseteq {live_chain_key(root)}
  <2>1. CASE batch' = ops
    BY <1>1, <2>1
  <2>2. CASE batch' = with_ops(ops, "LiveChain", {live_chain_key(root)}, "put")
    <3>1. /\ keys_of(batch', "LiveChain", "put")
               = keys_of(ops, "LiveChain", "put") \cup {live_chain_key(root)}
          /\ \A t, k : t # "LiveChain" => keys_of(batch', t, k) = keys_of(ops, t, k)
          /\ keys_of(batch', "LiveChain", "delete")
               = keys_of(ops, "LiveChain", "delete") \ {live_chain_key(root)}
      BY <1>1, <2>2, WithOps
    <3> QED
      BY <1>1, <3>1
  <2> QED
    BY <1>2, <2>1, <2>2
<1>4. Inserts(root)'
  BY <1>1, <1>2, <1>3 DEF Inserts, puts, deletes, rows_of, NoPruning
<1> QED
  BY <1>2, <1>4 DEF WriterInv, NoPruning

LEMMA OpenPruningStep ==
    ASSUME WriterInv, NEW slot \in Nat, NEW name \in {"live_chain", "old_blocks"},
           OpenPruning(name, slot)
    PROVE  WriterInv'
  BY DEF WriterInv, OpenPruning

\* The keys that prune_live_chain collects, and what a batch that deletes them does.
LEMMA PruneLiveChainStep ==
    ASSUME TablesInv, WriterInv, prune_live_chain
    PROVE  /\ WriterInv'
           /\ Sorted /\ writer' = "idle" => \A k \in db["LiveChain"] : SlotOf[k[3]] >= op.slot
<1>1. PICK order \in iterations(db["LiveChain"]) :
          IF slots_below(order, op.slot) = {} THEN writer' = "idle"
          ELSE StartCommit(delete_batch(no_ops, "LiveChain", slots_below(order, op.slot)))
  BY DEF prune_live_chain
<1> DEFINE keys == slots_below(order, op.slot)
<1>2. Sorted => \A k \in db["LiveChain"] : SlotOf[k[3]] < op.slot => k \in keys
  <2>1. db["LiveChain"] \in SUBSET LiveKeys /\ op.slot \in Nat
    BY DEF TablesInv, WriterInv
  <2> QED
    BY <2>1, EarlyStop
<1>3. \A k \in keys : SlotOf[k[3]] < op.slot
  <2>1. db["LiveChain"] \in SUBSET LiveKeys /\ op.slot \in Nat
    BY DEF TablesInv, WriterInv
  <2> QED
    BY <2>1, OnlyBelow
<1> HIDE DEF keys
<1>4. /\ views' = views \ {Writer} /\ op' = op /\ db' = db /\ backend' = backend
      /\ op.name = "live_chain" /\ op.slot \in Nat
  BY DEF prune_live_chain, WriterInv
<1>5. CASE keys = {}
  <2>1. writer' = "idle"
    BY <1>1, <1>5 DEF keys
  <2>2. WriterInv'
    BY <1>4, <2>1 DEF WriterInv
  <2>3. Sorted => \A k \in db["LiveChain"] : SlotOf[k[3]] >= op.slot
    <3>1. \A k \in db["LiveChain"] : SlotOf[k[3]] \in Nat
      BY KeySlots DEF TablesInv
    <3> QED
      BY <1>2, <1>4, <1>5, <3>1
  <2> QED
    BY <2>2, <2>3
<1>6. CASE keys # {}
  <2>1. writer' = "commit" /\ batch' = with_ops(no_ops, "LiveChain", keys, "delete")
    BY <1>1, <1>6 DEF keys, StartCommit, delete_batch
  <2>2. /\ keys_of(batch', "LiveChain", "delete") = keys
        /\ keys_of(batch', "LiveChain", "put") = {}
        /\ \A t, k : t # "LiveChain" => keys_of(batch', t, k) = {}
    <3>1. /\ keys_of(batch', "LiveChain", "delete")
               = keys_of(no_ops, "LiveChain", "delete") \cup keys
          /\ keys_of(batch', "LiveChain", "put") = keys_of(no_ops, "LiveChain", "put") \ keys
          /\ \A t, k : t # "LiveChain" => keys_of(batch', t, k) = keys_of(no_ops, t, k)
      BY <2>1, NoOps, WithOps
    <3> QED
      BY <3>1, NoOps
  <2>3. PrunesLiveChain'
    BY <1>2, <1>3, <1>4, <2>2 DEF PrunesLiveChain, puts, deletes, Sorted
  <2> QED
    BY <1>4, <2>1, <2>3 DEF WriterInv
<1> QED
  BY <1>5, <1>6

LEMMA PruneOldBlocksStep ==
    ASSUME WriterInv, prune_old_blocks
    PROVE  WriterInv'
<1>1. /\ views' = views \ {Writer} /\ op' = op
      /\ op.name = "old_blocks" /\ op.slot \in Nat
      /\ \/ writer' = "idle"
         \/ writer' = "commit" /\ \E keys : batch' = delete_blocks(keys)
  BY DEF prune_old_blocks, WriterInv, StartCommit
<1>2. CASE writer' = "idle"
  BY <1>1, <1>2 DEF WriterInv
<1>3. CASE writer' = "commit" /\ \E keys : batch' = delete_blocks(keys)
  <2>1. PICK keys : batch' = delete_blocks(keys)
    BY <1>3
  <2>2. /\ \A t : keys_of(batch', t, "put") = {}
        /\ \A t \in Tables \ {"LiveChain"} : keys_of(batch', t, "delete") = keys
        /\ keys_of(batch', "LiveChain", "delete") = {}
    BY <2>1, DeleteBlocks
  <2>3. PrunesBlocks'
    BY <1>1, <2>2 DEF PrunesBlocks, puts, deletes, Tables
  <2> QED
    BY <1>1, <1>3, <2>3 DEF WriterInv
<1> QED
  BY <1>1, <1>2, <1>3

\* A commit keeps every block whole: it writes all rows of one, or deletes them all.
LEMMA CommitTables ==
    ASSUME TablesInv, WriterInv, commit
    PROVE  TablesInv'
<1>1. /\ db' = [t \in Tables |-> (db[t] \cup puts(t)) \ deletes(t)]
      /\ writer = "commit"
  BY DEF commit, puts, deletes
<1>2. \A t \in Tables : db'[t] = (db[t] \cup puts(t)) \ deletes(t)
  BY <1>1
<1>3. db' = [t \in Tables |-> db'[t]]
  BY <1>1
<1>4. db'["LiveChain"] \subseteq LiveKeys
  <2>1. puts("LiveChain") \subseteq LiveKeys
    BY <1>1 DEF WriterInv, Inserts, PrunesLiveChain, PrunesBlocks, LiveKeys, Tables
  <2> QED
    BY <1>2, <2>1 DEF TablesInv, Tables
<1>5. ASSUME NEW root \in Roots PROVE Whole(root)'
  <2> DEFINE k == root_key(root)
  <2>1. k \in db["BlockSignatures"] =>
            k \in db["BlockHeaders"] /\ (root \in Bodies => k \in db["BlockBodies"])
    BY DEF TablesInv, Whole
  <2>2. SUFFICES k \in db'["BlockSignatures"] =>
            k \in db'["BlockHeaders"] /\ (root \in Bodies => k \in db'["BlockBodies"])
    BY DEF Whole
  <2>3. {"BlockHeaders", "BlockBodies", "BlockSignatures"} \subseteq Tables \ {"LiveChain"}
    BY DEF Tables
  <2>4. CASE \E other \in Roots : Inserts(other)
    <3>1. PICK other \in Roots : Inserts(other)
      BY <2>4
    <3>2. /\ deletes("BlockHeaders") = {} /\ deletes("BlockBodies") = {}
          /\ deletes("BlockSignatures") = {}
          /\ puts("BlockHeaders") = {root_key(other)}
          /\ puts("BlockSignatures") = {root_key(other)}
          /\ other \in Bodies => puts("BlockBodies") = {root_key(other)}
      BY <2>3, <3>1 DEF Inserts, rows_of
    <3>3. CASE root = other
      BY <1>2, <2>3, <3>2, <3>3
    <3>4. CASE root # other
      <4>1. k # root_key(other)
        BY <3>4, RootKeys
      <4> QED
        BY <1>2, <2>1, <2>3, <3>2, <4>1
    <3> QED
      BY <3>3, <3>4
  <2>5. CASE PrunesLiveChain
    BY <1>2, <2>1, <2>3, <2>5 DEF PrunesLiveChain
  <2>6. CASE PrunesBlocks
    BY <1>2, <2>1, <2>3, <2>6 DEF PrunesBlocks
  <2> QED
    BY <1>1, <2>4, <2>5, <2>6 DEF WriterInv
<1> QED
  BY <1>3, <1>4, <1>5 DEF TablesInv, LiveKeys

\* The history of a call notes a commit after which the block is not stored.
LEMMA CommitCalls ==
    ASSUME CallsInv, Commit
    PROVE  CallsInv'
<1>1. call' = [r \in Readers |->
                  [call[r] EXCEPT !.absent = @ \/ ~stored(call[r].root, db')]]
  BY DEF Commit
<1>2. ASSUME NEW r \in Readers PROVE CallInv(call[r])'
  <2> DEFINE c == call[r]
             away == c.absent \/ ~stored(c.root, db')
  <2>1. CallInv(c)
    BY DEF CallsInv
  <2>2. call'[r] = [at |-> c.at, root |-> c.root, found |-> c.found, absent |-> away]
    <3>1. c = [at |-> c.at, root |-> c.root, found |-> c.found, absent |-> c.absent]
      BY <2>1 DEF CallInv
    <3>2. call'[r] = [c EXCEPT !.absent = away]
      BY <1>1
    <3> QED
      BY <3>1, <3>2
  <2>3. away \/ stored(c.root, db')
    BY ZenonT(30)
  <2>4. c.absent => away
    BY ZenonT(30)
  <2> HIDE DEF away, c
  <2>5. /\ call'[r].at = c.at /\ call'[r].root = c.root
        /\ call'[r].found = c.found /\ call'[r].absent = away
    BY <2>2
  <2> QED
    BY ZenonT(30), <2>1, <2>2, <2>3, <2>4, <2>5 DEF CallInv
<1> QED
  BY <1>1, <1>2 DEF CallsInv

LEMMA CommitWriter ==
    ASSUME WriterInv, commit
    PROVE  WriterInv'
  BY DEF WriterInv, commit

\* A reader that starts is not the writer.
LEMMA StartReadingStep ==
    ASSUME IInv, NEW r \in Readers, NEW root \in Roots, StartReading(r, root)
    PROVE  IInv'
<1>1. /\ UNCHANGED <<backend, db, writer, op, batch>> /\ views' = views \cup {r}
      /\ call' = [call EXCEPT ![r] = [at |-> "BlockHeaders", root |-> root, found |-> {},
                                      absent |-> ~stored(root, db)]]
  BY DEF StartReading
<1>2. TablesInv'
  BY ZenonT(30), <1>1, SameTables DEF IInv
<1>3. WriterInv'
  BY <1>1, SameWriter DEF IInv
<1>4. CallsInv'
  <2>1. call = [s \in Readers |-> call[s]]
    BY DEF IInv, CallsInv
  <2>2. call' = [s \in Readers |-> call'[s]]
    BY <1>1, <2>1
  <2>3. ASSUME NEW s \in Readers PROVE CallInv(call[s])'
    <3>1. CASE s # r
      <4>1. call'[s] = call[s]
        BY <1>1, <2>1, <3>1
      <4> QED
        BY ZenonT(30), <1>1, <4>1 DEF IInv, CallsInv, CallInv, stored
    <3>2. CASE s = r
      <4>1. call'[s] = [at |-> "BlockHeaders", root |-> root, found |-> {},
                        absent |-> ~stored(root, db)]
        BY <1>1, <2>1, <3>2
      <4>2. /\ call'[s].at = "BlockHeaders" /\ call'[s].root = root
            /\ call'[s].found = {} /\ call'[s].absent = ~stored(root, db)
        BY <4>1
      <4>3. /\ "BlockHeaders" \in Tables \ {"LiveChain"}
            /\ "BlockHeaders" # "done" /\ "BlockHeaders" # "BlockBodies"
            /\ read_before("BlockHeaders") = {}
        BY DEF Tables, read_before
      <4>4. stored(root, db') <=> stored(root, db)
        BY <1>1
      <4> QED
        BY ZenonT(30), <4>1, <4>2, <4>3, <4>4 DEF CallInv
    <3> QED
      BY <3>1, <3>2
  <2> QED
    BY <2>2, <2>3 DEF CallsInv
<1> QED
  BY ZenonT(30), <1>2, <1>3, <1>4 DEF IInv

\* A row that is missing when get_signed_block gets to it means that the block is
\* not stored, now or earlier in the call.
LEMMA GetStep ==
    ASSUME IInv, NEW r \in Readers, get(r)
    PROVE  IInv'
<1> DEFINE c == call[r]
           there == root_key(c.root) \in db[c.at]
           next == IF there THEN next_get(c.at, c.root) ELSE "done"
           found == IF there THEN c.found \cup {c.at} ELSE {}
<1>1. /\ c.at # "done" /\ UNCHANGED <<backend, db, writer, op, batch>>
      /\ call' = [call EXCEPT ![r].at = next, ![r].found = found]
      /\ views' \in {views, views \ {r}}
  BY DEF get
<1>2. TablesInv'
  BY ZenonT(30), <1>1, SameTables DEF IInv
<1>3. WriterInv'
  BY <1>1, SameWriter DEF IInv
<1>4. CallInv(c) /\ TablesInv /\ call = [s \in Readers |-> call[s]]
  BY DEF IInv, CallsInv
<1>5. call' = [s \in Readers |-> call'[s]]
  BY <1>1, <1>4
<1>6. \A s \in Readers : s # r => call'[s] = call[s]
  BY <1>1, <1>4
<1>7. call'[r] = [at |-> next, root |-> c.root, found |-> found, absent |-> c.absent]
  <2>1. c = [at |-> c.at, root |-> c.root, found |-> c.found, absent |-> c.absent]
    BY <1>4 DEF CallInv
  <2>2. call'[r] = [c EXCEPT !.at = next, !.found = found]
    BY <1>1, <1>4
  <2> QED
    BY <2>1, <2>2
<1>8. /\ c.root \in Roots /\ c.found = read_before(c.at)
      /\ c.at \in {"BlockHeaders", "BlockSignatures", "BlockBodies"}
      /\ c.absent \/ stored(c.root, db)
      /\ c.at = "BlockBodies" => c.root \in Bodies
  BY <1>1, <1>4 DEF CallInv, Tables
<1>9. ~there => c.absent
  <2>1. stored(c.root, db) => there
    BY <1>4, <1>8 DEF stored, TablesInv, Whole
  <2> QED
    BY ZenonT(30), <1>8, <2>1
<1>10. /\ next \in (Tables \ {"LiveChain"}) \cup {"done"}
       /\ next # "done" => found = read_before(next)
       /\ next = "BlockBodies" => c.root \in Bodies
       /\ next = "done" => (there /\ found = rows_of(c.root)) \/ (~there /\ found = {})
  <2>1. CASE ~there
    BY <2>1
  <2>2. CASE there /\ c.at = "BlockHeaders"
    BY <1>8, <2>2 DEF next_get, read_before, Tables
  <2>3. CASE there /\ c.at = "BlockSignatures"
    <3>1. c.root \notin Bodies => rows_of(c.root) = {"BlockHeaders", "BlockSignatures"}
      BY DEF rows_of, Tables
    <3> QED
      BY <1>8, <2>3, <3>1 DEF next_get, read_before, Tables
  <2>4. CASE there /\ c.at = "BlockBodies"
    <3>1. rows_of(c.root) = {"BlockHeaders", "BlockSignatures", "BlockBodies"}
      BY <1>8, <2>4 DEF rows_of, Tables
    <3> QED
      BY <1>8, <2>4, <3>1 DEF next_get, read_before, Tables
  <2> QED
    BY <1>8, <2>1, <2>2, <2>3, <2>4
<1> HIDE DEF there, next, found
<1>11. ASSUME NEW s \in Readers PROVE CallInv(call[s])'
  <2>1. CASE s # r
    <3>1. call'[s] = call[s]
      BY <1>6, <2>1
    <3> QED
      BY ZenonT(30), <1>1, <3>1 DEF IInv, CallsInv, CallInv, stored
  <2>2. CASE s = r
    <3>1. /\ call'[s] = [at |-> next, root |-> c.root, found |-> found, absent |-> c.absent]
          /\ call'[s].at = next /\ call'[s].root = c.root
          /\ call'[s].found = found /\ call'[s].absent = c.absent
      BY <1>7, <2>2
    <3>2. stored(c.root, db') <=> stored(c.root, db)
      BY <1>1
    <3> HIDE DEF c
    <3> QED
      BY ZenonT(30), <1>8, <1>9, <1>10, <3>1, <3>2 DEF CallInv
  <2> QED
    BY <2>1, <2>2
<1>12. CallsInv'
  BY <1>5, <1>11 DEF CallsInv
<1> QED
  BY ZenonT(30), <1>2, <1>3, <1>12 DEF IInv

LEMMA StepIInv == IInv /\ [Next]_vars => IInv'
<1> SUFFICES ASSUME IInv, [Next]_vars PROVE IInv'
  OBVIOUS
<1>1. TablesInv /\ WriterInv /\ CallsInv
  BY ZenonT(30) DEF IInv
<1>2. ASSUME UNCHANGED <<db, call>>, WriterInv' PROVE IInv'
  BY ZenonT(30), <1>1, <1>2, SameTables, SameCalls DEF IInv
<1>3. ASSUME NEW root \in Roots, insert_pending_block(root) \/ insert_signed_block(root)
      PROVE  IInv'
  <2>1. UNCHANGED <<db, call>>
    BY <1>3 DEF insert_pending_block, insert_signed_block
  <2> QED
    BY ZenonT(30), <1>1, <1>2, <1>3, <2>1, InsertStep
<1>4. ASSUME NEW slot \in Nat, NEW name \in {"live_chain", "old_blocks"},
             OpenPruning(name, slot)
      PROVE  IInv'
  <2>1. UNCHANGED <<db, call>>
    BY <1>4 DEF OpenPruning
  <2> QED
    BY ZenonT(30), <1>1, <1>2, <1>4, <2>1, OpenPruningStep
<1>5. CASE prune_live_chain
  <2>1. UNCHANGED <<db, call>>
    BY <1>5 DEF prune_live_chain
  <2> QED
    BY ZenonT(30), <1>1, <1>2, <1>5, <2>1, PruneLiveChainStep
<1>6. CASE prune_old_blocks
  <2>1. UNCHANGED <<db, call>>
    BY <1>6 DEF prune_old_blocks
  <2> QED
    BY ZenonT(30), <1>1, <1>2, <1>6, <2>1, PruneOldBlocksStep
<1>7. CASE Commit
  BY ZenonT(30), <1>1, <1>7, CommitTables, CommitCalls, CommitWriter DEF Commit, IInv
<1>8. CASE UNCHANGED vars
  <2>1. UNCHANGED <<db, call>> /\ WriterInv'
    BY <1>1, <1>8 DEF vars, WriterInv, Inserts, PrunesLiveChain, PrunesBlocks, puts, deletes,
                      Sorted
  <2> QED
    BY ZenonT(30), <1>2, <2>1
<1>9. \A root \in Roots : SlotOf[root] \in Nat
  BY RootsAssumption
<1> QED
  BY <1>3, <1>4, <1>5, <1>6, <1>7, <1>8, <1>9, StartReadingStep, GetStep DEF Next, Write

LEMMA Invariance == Spec => []IInv
  BY InitIInv, StepIInv, PTL DEF Spec

-----------------------------------------------------------------------------
(***************************************************************************)
(* The theorems                                                            *)
(***************************************************************************)
\* get_signed_block returns the whole block, or None for a block that was not
\* stored at some moment of the call, over both backends.
THEOREM SignedBlocksAreAtomic == Spec => []SignedBlockIsAtomic
<1>1. IInv => SignedBlockIsAtomic
  BY ZenonT(30) DEF IInv, CallsInv, CallInv, SignedBlockIsAtomic
<1> QED
  BY <1>1, Invariance, PTL

\* When prune_live_chain ends, over either backend every entry at or above the
\* slot is still there, and over RocksDB, despite the early stop, nothing else is.
THEOREM PrunesAllBelow == Spec => PruningIsComplete
<1> DEFINE kept == {k \in db["LiveChain"] : SlotOf[k[3]] >= op.slot}
           Done == writer # "idle" /\ writer' = "idle" /\ op.name = "live_chain" =>
                       kept \subseteq db'["LiveChain"] /\ (Sorted => db'["LiveChain"] = kept)
<1>1. ASSUME IInv, [Next]_vars PROVE [Done]_vars
  <2> SUFFICES ASSUME Next, writer # "idle", writer' = "idle", op.name = "live_chain"
               PROVE  kept \subseteq db'["LiveChain"] /\ (Sorted => db'["LiveChain"] = kept)
    BY <1>1
  <2>1. TablesInv /\ WriterInv
    BY <1>1 DEF IInv
  <2>2. prune_live_chain \/ commit
    BY DEF Next, Write, insert_pending_block, insert_signed_block, StartCommit, OpenPruning,
           prune_old_blocks, StartReading, get, Commit
  <2>3. CASE prune_live_chain
    <3>1. db' = db
      BY <2>3 DEF prune_live_chain
    <3> QED
      BY <2>1, <2>3, <3>1, PruneLiveChainStep
  <2>4. CASE commit
    <3>1. PrunesLiveChain /\ op.slot \in Nat
      BY <2>1, <2>4 DEF commit, WriterInv, Inserts, PrunesBlocks
    <3>2. db'["LiveChain"] = db["LiveChain"] \ deletes("LiveChain")
      BY <2>4, <3>1 DEF commit, PrunesLiveChain, puts, deletes, Tables
    <3>3. \A k \in db["LiveChain"] : SlotOf[k[3]] \in Nat
      BY <2>1, KeySlots DEF TablesInv
    <3>4. \A k \in kept : k \notin deletes("LiveChain")
      BY <3>1, <3>3 DEF PrunesLiveChain
    <3>5. Sorted => \A k \in db["LiveChain"] \ kept : k \in deletes("LiveChain")
      BY <3>1, <3>3 DEF PrunesLiveChain
    <3> QED
      BY <3>2, <3>4, <3>5
  <2> QED
    BY <2>2, <2>3, <2>4
<1> QED
  BY <1>1, Invariance, PTL DEF Spec, PruningIsComplete

\* The writer drops its view before it commits: it never waits for its own read lock.
THEOREM NoCommitUnderOwnView == Spec => [](writer = "commit" => Writer \notin views)
<1>1. IInv => (writer = "commit" => Writer \notin views)
  BY DEF IInv, WriterInv
<1> QED
  BY <1>1, Invariance, PTL
=============================================================================
