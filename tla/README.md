# ethlambda in TLA+

TLA+ models of ethlambda, a Lean-Ethereum consensus client: the 3SF-mini state
transition, fork choice and votes, the building and import of blocks, the fetching
of missing ones, peer connections, the clock that drives the validators, start from
a checkpoint, and the storage below. TLC checks them on small instances; TLAPS
proves the main invariants and refinements for every value of the constants.
`PROJECT.json` has the machine-readable side: components, runs, mutations, the map
from definitions to source lines, findings, hazards and theorems.

## The system

A node is two actors, a task that owns the network, and a store.

* **BlockChainServer** (`crates/blockchain/src/lib.rs`) owns consensus. It
  handles `Tick`, `NewBlock`, `NewAttestation` and `NewAggregatedAttestation`,
  one message at a time, and asks the P2P actor for missing blocks.
* **P2PServer** (`crates/net/p2p/src/lib.rs`) forwards gossip, answers peers,
  fetches blocks by root with retries, and redials bootnodes. It does not own the
  libp2p swarm: a **swarm task** (`swarm_adapter.rs`) takes its commands from one
  channel and reports events through another.
* **Store** (`crates/storage/src/store.rs`) is a set of tables in a backend
  (RocksDB, or hash maps in memory) plus two in-memory buffers of aggregated
  votes. Both actors and the HTTP server hold a clone of it. A batch is atomic; a
  handler makes several, and other tasks read between them.
* **main** starts the node from genesis or from the finalized state of another
  node, over whatever the database holds, and wires the actors while they run.

| Part | What makes it hard |
|---|---|
| State transition | the bit window is re-indexed by finalization in the middle of a block |
| Fork choice and votes | head and safe target count votes at different times; pruning; eviction |
| Block building | rounds until nothing new fits; each may justify, and change what is valid |
| Block import | any order of arrival; a crash after any commit; restart over old tables |
| Block fetch, swarm task | lost, empty and wrong answers; timers racing them; an answer before its request is recorded |
| Peer connections | several connections to one peer; dials crossing; a view built from queued events |
| The actors together | mailboxes, wiring while running, requests dropped or given up |
| Duties | late ticks; two grids of time; one-time keys; restarts |
| Readers | each read sees another state of the tables |
| Checkpoint sync | a state served without its own state root, verified, and made an anchor |

## Modules

| Module | Models |
|---|---|
| `JustifiedSlots` | the bit window (`justified_slots_ops.rs`) and `slot_is_justifiable_after`, as operators |
| `StateTransition` | `process_slots`, `process_block_header`, `process_attestations`, `try_finalize` for one chain |
| `JustificationsCodec` | the flattening of the votes into two SSZ lists between blocks, and back |
| `Finality` | abstract: justification and finalization over absolute slots, with no window |
| `CheckpointSync` | on top of `StateTransition`: serving, verifying and adopting a finalized state, and the blocks after it |
| `BlockBuilding` | on top of `StateTransition`: `build_block`, `select_aggregated_proofs` |
| `ForkChoice` | vote handling, aggregation, head, safe target, own vote, pruning of the vote tables |
| `BlockImport` | `on_block` and everything below it, with the tables and restarts |
| `StoreReaders` | on top of `BlockImport`: handlers of other tasks that read the store |
| `StorageBackend` | keys, views, batches, iteration and locks of both backends, under insert, prune and read |
| `BlockFetch` | the fetch of blocks in the P2P actor, with a request as one step |
| `FetchService` | abstract: what a fetch looks like to the one who asked |
| `SwarmAdapter` | the same fetch with the channels between actor and swarm task |
| `PeerConnections` | `connected_peers`, dials and redial timers |
| `ReqRespCodec` | one request and its response over a stream that may break |
| `BlockSync` | both actors with their mailboxes and their wiring: `BlockImport` and `FetchService` composed |
| `Duties` | `handle_tick`, `on_tick` of actor and store, and what is signed |
| `DutiesRestart` | the same over several processes, one after the other |
| `Maps` | `HashMap` insert and remove |
| `MC*` | instances for TLC |
| `*Proofs` | theorems and proofs |

**StateTransition.** The variables are the fields of `State`. `ProcessBlock` is
all that precedes the attestation loop; each iteration of the loop is a
`ProcessAttestation` or `SkipOversizedAttestation`; `FinishBlock` ends the
block. Error returns are guards, because the caller drops the cloned state on
error. Roots are names: an arbitrary injective function of the slot. The
comparison of the claimed state root with the computed one is left out. `cast` is a
history variable: all votes accepted for each slot.

**CheckpointSync.** The serving node runs `StateTransition` and keeps every post
state; at any moment between two blocks the joining node downloads the finalized
one, runs `verify_checkpoint_state` and `init_store`, and then imports the blocks
that follow. A hash of a state is the state itself, so that roots agree exactly
when the states do. The networks differ from the node's own in genesis time,
validators or their number. The HTTP transfer is external.

**BlockBuilding.** A chain of blocks by others is built with `StateTransition`.
Then the proposer runs rounds, each on a fresh copy of the head's state: process the
candidate block, add the known votes whose source is then the justified checkpoint,
and stop when there is none. Last it selects proofs that cover the votes, and
processes the final block. The order of groups and proofs is any order.

**ForkChoice.** One action per handler. A tick runs one interval (`Duties` has
the catch-up). A block arrives after its parent (`BlockImport` has the rest).
Aggregation of any group of signatures may fail, and then its signatures stay.

**BlockImport.** `pc` orders the steps of `on_block`: one per iteration of a
loop and one per commit, since a process can die after any of them. `Restart`
forgets the memory, keeps the tables and runs `init_store`. Whether a block is
valid and which checkpoints it yields are functions of the block. The head may
be any leaf that LMD-GHOST reaches for some votes. A tick begins with `head_state`,
which panics if the head has no state: `pc` is then `"stopped"`, and only a restart
of the process leads out of it.

**StoreReaders.** A `Store` method opens a view of its own, so `build_status`,
`get_latest_finalized_state` and `get_fork_choice` take one step per read, and any
commit of `BlockImport` may fall between two of them.

**StorageBackend.** `backend` is either of the two. RocksDB iterates in key order
and locks nothing; the in-memory one iterates in any order and a view holds a read
lock that a commit waits for. Keys are sequences of small bytes, so that the
big-endian encoding of a slot has carries.

**BlockFetch.** The variables are the fields of `P2PServer` that concern
fetching. `inflight` and `next_id` stand for libp2p, which ends each request
with one answer or one failure. A peer answers with any set of blocks that
`Answers` allows it; peers of `Faulty` may fail to answer. The model sends to
any peer of the pool where the code picks one at random.

**SwarmAdapter.** A handler queues a command, awaits the request id on a oneshot
channel (`handler` says where it stands), and records the request only then. The
actor takes no message in between, but the swarm task may already queue the answer.
It extends `BlockFetch`, whose computations these are.

**PeerConnections.** Real connections (external) open and close on their own, with
queued events that carry the number of those left; the actor sees the events only.
Dials may be refused, fail or cross with a connection from the other side.

**ReqRespCodec.** A stream is a sequence of bytes (response codes, varint lengths)
and snappy frames, whole or torn. snap and the SSZ decoders are external.

**BlockSync.** It extends `BlockImport` with mailboxes, which are sequences. `main` sends `InitP2P` and
`InitBlockChain` while both actors run. A `FetchBlock` starts a fetch, joins one,
or is dropped when no peer is connected; a fetch delivers or gives up. When a tick
panics, the actor and its mailbox are gone: sends to it fail, which the P2P actor logs
and which ends `main` if it has not sent `InitP2P` yet (external: `spawned` does not
start an actor again).

**Duties, DutiesRestart.** Time is in milliseconds. The clock advances between
steps by any of `Delays`, so a tick may be handled at any later moment. `view` is
what a vote would say now; it may change with any other message. `HandleTick` is
the whole handler: catch up, propose, attest. A restart forgets timer and store
time; the signatures made are in the world. There are two grids of time: ticks are
sent at multiples of 800 ms since the UNIX epoch, intervals begin at multiples of
800 ms since genesis, and genesis is any whole second. `slack` is the time from the
first to the second: 800 ms if they coincide, else 200, 400 or 600 ms. A tick that is
handled `slack` or more after a multiple of 800 ms is in the same interval as the next
one; `late` records the slots of such ticks. `punctual` says that no tick so far was
late by `slack` or more.

How the modules rest on one another: `BlockImport` and `ForkChoice` assume of post
states what `CheckpointsOnChain` of `StateTransition` states. `SwarmAdapter`
implements `BlockFetch`, which implements `FetchService`, on which `BlockSync` is
built; both refinements (of safety) are checked and proved. `BlockSync` assumes that some fetch
delivers, which is `FetchDelivers` of `BlockFetch`. `ForkChoice` starts at the
time to which `Duties` fast-forwards.

## Runs

Runs that pass:

| Run | Instance | States | Shows |
|---|---|---|---|
| `state_transition` | 3 validators, history of 10, blocks in slots 1, 2, 6, 9, 10 and 12 (past the limit), votes between all of these, one by one for two of them; the zero hash, another fork and oversized bit lists; four networks | 255,545 | window, tally, checkpoints, encoding and finalization are right, and `Finality` is implemented; a joining node accepts its own network only and reaches the same states and checkpoints |
| `block_fetch` | 2 peers, 2 roots, 3 attempts, 2 calls, 2 connection changes | 103,526 | one request or timer per root; every fetch ends, and with the block if a connected peer has it; `FetchService` is implemented |
| `swarm_adapter` | 2 peers, 2 roots, 2 attempts, 2 calls, 1 connection change | 104,127 | the actor knows every id it is given; no handler waits for ever; `BlockFetch` is implemented |
| `block_import` | 6 blocks with a fork, one of them bad; two possible anchors; 3 states kept; crashes; a reader | 1,116,941 | no lost wake-up; the walks go up; nobody waits for nothing; a root that was read leads to its rows |
| `block_sync` | a chain of 3 blocks, mailboxes of 1 gossiped block, one restart | 42,657 | no request is lost in the wiring; no missing block is forgotten; the node catches up, or stops on a head without a state |
| `duties` | 2 validators, one ours; genesis off the tick grid; 12.2 s of clock; ticks up to several slots late; one restart | 6,765,584 | no kind of interval is lost; a punctual node signs each slot; only a slot with a start or a late tick in it is signed twice |
| `fork_choice` | 4 validators, 5 blocks with a fork, 9 intervals, 3 gossip messages, buffers of 4 and 8 | 159,162 | the head is heaviest; the safe target has two thirds; the own vote is valid; signatures have their data; no latest vote is lost |
| `peer_connections` | a bootnode and another peer, 2 connections each, 2 inbound, 2 losses | 23,571 | the view is right once it has caught up; no bootnode is forgotten; it is connected again |
| `block_building` | 4 validators, a proposal in slot 4 over blocks in slots 1 to 3, up to 3 overlapping proofs | 117,020 | the proofs cover the included votes within the limit of the list; the proposal never unjustifies; building ends |
| `storage_backend` | 4 blocks, bytes of two bits, 2 blocks kept, one reader, either backend | 99,557 | a block read row by row is whole; pruning takes nothing too many and, over RocksDB, leaves nothing; every commit ends |

The bounds are small but reach the cases of interest. Slots 6, 9 and 12 give
gaps, slots that cannot be justified, chains that finalize and a refused
block. With three attempts a fetch tries both peers and starts over. Three states
for six blocks make pruning meet pending blocks; a seventh block (`b4` on `b3`) gives
more than nine million states and takes more than five minutes. Genesis is at
3 s, so 12.2 s leave two slots and more for a tick that is late by more than a slot.
3000 ms is 600 ms past a multiple of 800; the other offsets were checked by hand
(genesis at 1, 2 and 4 s, with 9, 10 and 12 s of clock).
In `fork_choice` the buffer of four is smaller than the entries of three messages, so
that it evicts, and one of the blocks finalizes. In `storage_backend` the slots lie
on both sides of a carry and more blocks are written than are kept. In
`block_import` no more blocks exist than `BLOCKS_TO_KEEP`: `PruneOldBlocks` runs but
deletes nothing, and `NeverStranded` is claimed within that retention only.

`CHECK_DEADLOCK FALSE` is set where the system may stop: a chain at its history
limit, a fetcher without calls, connections that have used up their bounds, a block
that is built, an exchange that is over, a clock at its bound.

Runs that end in a violation each show a disagreement between the code and a line
of the repository:

| Run | Line | What happens |
|---|---|---|
| `head_state_after_crash` | storage/src/store.rs:1117 | a process dies between the commit of a block and that of its state; the next one finds the LiveChain entry and makes the block its head, without a state; the tick after that panics |
| `req_resp_chunks` | p2p/src/req_resp/codec.rs:188 | the payload of the first chunk is read to the end of the stream, so a response of two chunks fails; the node itself asks for one root at a time |

Further lines the code departs from are stated as properties that no run checks.
Each fails on the instance named, with the property in place of those of the `.cfg`:

| Property | Line | Instance | What happens |
|---|---|---|---|
| `FinalizesByOriginalSlot` | docs/3sf_mini.md:161 | `MCStateTransition`, limit 11, blocks in 1, 2, 7, 10, 11 and votes for 0, 1, 2, 7, 10 | `try_finalize` uses the current finalized slot; a second finalization in one block is judged by the first |
| `PendingIsInProgress` | p2p/src/lib.rs:387 | `MCBlockFetch` | after an answer with other blocks only, a root stays pending and nothing is in progress |
| `HeadStateAvailable` | storage/src/store.rs:1117 | `MCBlockImport`, no crashes, `STATES_TO_KEEP` 2 | headers of pending blocks push the state of the head out of the retention window (which holds thousands in the code) |
| `StoredBlockIsSigned` | blockchain/src/lib.rs:359 | `MCBlockImport`, `Reanchor` | after a restart from an earlier checkpoint the walk meets the former anchor, which has no signature row |
| `FinalizedStateExists` | rpc/src/lib.rs:68 | `MCBlockImport`, `Reanchor` | likewise, a reader meets a finalized block whose state is not there |
| `SignsOncePerSlot` | types/src/signature.rs:86 | `MCDuties`, also with no restart | a node restarted within a slot signs it again; with genesis off the 800 ms grid a late tick and the next one share an interval |
| `SafeTargetBehindHead` | docs/lmd_ghost.md:535 | `MCForkChoice` | the safe target counts votes the head does not count yet |
| `FixedPointReached` | blockchain/src/store.rs:1035 | `MCBlockBuilding`, chain votes of {0, 1}, proofs of {0}, {2} and {3} | the groups of votes come out of a hash map, in another order for the final block than for the last candidate; it can justify another checkpoint, from which further votes would start |

The early stop of `prune_live_chain` relies on the order of keys
(storage/src/store.rs:552), which the in-memory backend does not give: without
`Sorted` in it, `PruningIsComplete` fails there.

`CatchesUp` has an exception, `halted`, and fails without it. It is the crash of
`head_state_after_crash`, seen from the node: the process started next makes the torn
block its head before the block is imported again, a tick panics on `head_state`
(blockchain/src/lib.rs:108), and the blockchain actor handles nothing from then on. A
torn block that is imported again before it becomes the head does no harm, and nothing
but a torn block at the head stops the node: `halted` allows no other end.

### Fairness

* `BlockFetch`: weak fairness of the end of each request (libp2p's timeout ends
  it) and of each timer (`send_after`). No fairness of `FetchBlock` or of
  connections. `FetchEnds` and `FetchDelivers` are claimed for roots about which
  peers answer with the block, with nothing or not at all.
* `SwarmAdapter`: weak fairness of the swarm loop and of the handler once its
  oneshot is filled: tokio runs a task that is ready.
* `PeerConnections`: weak fairness of the swarm's commands and of the end of a dial.
  Strong fairness of handling an event and of a timer, which are only taken while no
  handler awaits. Strong fairness of a dial that succeeds: a peer dialled again and
  again is reached once.
* `BlockSync`: weak fairness of `main` and of both actors. Strong fairness of gossip
  of the tip, of starting a fetch and of its delivery: there is a peer with the block
  again and again. This is an assumption on the network; `FetchDelivers` is the part
  of it the code answers for.
* `BlockBuilding`, `StorageBackend`: weak fairness of the proposer, of the writer and
  of each read: threads that can run do.
* Nothing else is assumed fair; the other modules state safety only.

## Proofs

The theorems hold for every value of the constants that the named assumptions
of the modules admit.

* **StateTransitionProofs**, for any number of validators and any history.
  `IInv` is the conjunction of the checked invariants with `ChainInv`: the
  history has one entry per slot, each the block's root or zero; root_to_slot is
  no newer than the finalized slot; nobody voted for slots to come. It is needed
  because the window, the tally and the checkpoints each rely on the others: a
  shift is right only if the window was exact, and finalization moves forward only
  because a finalized slot is justifiable after itself. `Refinement` shows
  that every step is a step of `Finality` or a stutter. Assumptions: at least one
  validator; roots collision free and not zero. `VotesSurviveTheorem` is about the
  codec: for any finite map of votes and any total order of hashes, reading the two
  flat lists gives the map back. Sorting is by place (`SortedRoots`), and the vote of
  validator v for root number r is bit r n + v, a division with remainder (`FlatIndex`).
* **TransitionUsersProofs**, the two modules above `StateTransition`.
  `SyncRefines`: `CheckpointSync` takes no other steps on the serving node, so that
  `IInv` holds there. `SyncInv` adds that every block of the chain has its stored row,
  with checkpoints that lie on the chain; that the node's own checkpoints are the highest of its
  rows; and that a joining node with head h is at least as far as all rows up to h,
  and no further than the serving node. With the same head both bounds meet, which is
  `CheckpointsAgree`. Assumption: the validators of a network are indexed by
  position, as `GenesisConfig::validators` makes them.
  `BuildInv` counts: each chosen proof covers a vote that none before it covers, so
  there are no more of them than covered voters (`VotesCoveredTheorem`); and every
  vote taken starts at or above the justified slot of the head, so that no vote of
  the block justifies a lower one (`NeverUnjustifiesTheorem`). Assumption: finitely
  many proofs.
* **ForkChoiceProofs**, for any tree, votes and bounds. `IInv` says that imported
  blocks are closed under ancestors, that the LiveChain is complete from the
  finalized slot on, that checkpoints and safe target are imported and the head is
  above the justified block, that the tables of votes have their types, the counter is
  exact and each signature has its data. `VoteTheorem` follows the walk that
  `get_attestation_target` makes down from the head; `HeadTheorem` and
  `SafeTargetTheorem` follow the walk up of `compute_lmd_ghost_head`, where a child is
  taken for its support, and support is the number of latest votes at or above a
  block. `VotesTheorem` is the action property: accepting, importing
  and aggregating replace a latest vote by a newer one only.
* **BlockImportProofs**, for any finite tree. `IInv` adds to the three invariants
  what `pc` implies (`StepInv`). `NeverStrandedTheorem` has a second invariant,
  `SInv`: states descend from the anchor, every header but the anchor's has its
  signature row, and waiting is never for nothing. It assumes that restarts keep
  their anchor and that block retention holds every block. Without the first, rows
  of a former anchor lack signatures; without the second, rows of pending
  blocks are deleted. `RowsInv` and `StatesInv` are about pruning: a row that the
  metadata, the LiveChain or a state lead to is there, or as many blocks as the
  retention keeps are at least as new. For a checkpoint this holds because it lies on a chain that was
  imported block by block. From these follow `RowsTheorem`, under the same two
  assumptions, and `RootsTheorem` for the readers, if restarts keep their anchor and
  fewer states than blocks are kept (3,000 and 21,600 in the code). `ReadersRefine`:
  readers only read.
  For the node of `BlockSync` there are two more. `MailInv` says how far the wiring
  is: until the blockchain actor has its ref to the P2P actor it is idle and `InitP2P`
  comes before any block; until the P2P actor has its own, nothing is asked or fetched;
  a stopped actor has an empty mailbox, and gets nothing.
  So a request is never made into nothing (`RequestsTheorem`), and the node is a
  `BlockImport` whatever the network does (`NodeRefines`), with the invariants above.
  `TrackInv` says that, unless the actor has stopped, a block asked for and not stored is
  in a mailbox, in a fetch, in the hands of the actor, rejected or dropped. With `SInv`, by which whoever waits
  waits for a block in the database or one asked for, this gives
  `NobodyForgetsTheorem`, under the two assumptions of `NeverStrandedTheorem`.
  Assumption: a root is neither of the two wiring messages.
* **FetchProofs**, for any peers, answers and limit; first `BlockFetch`. `IInv` is
  `TypeOK /\ OneOutstanding /\ AttemptsCountSends`: attempts stay in range
  because they count sends, and they do because a root has one thing under way.
  `ServiceRefinement` shows that each step is one of `FetchService` or a stutter.
  Then `SwarmAdapter`. `SwarmInv` says that every request in flight and every queued
  answer has an id below `next_id` and is known: recorded, or the one the handler is
  about to record. So `AnswersKnown` holds, since no event is taken while a handler
  awaits. `SwarmRefinement` maps the state to that of `BlockFetch`: the fetch happens
  when the command is sent, its entries are those the handler will write, and a request
  stays in flight until its outcome is handled.
* **PeerConnectionsProofs**, for any peers and bounds. The events of a peer are
  explained by a sequence of connection counts that starts at what the actor knows
  and ends at what is open (`Explained`). With the queue empty both are the same,
  which is `ViewCorrect`; handling an event shortens the explanation.
* **DutiesProofs**, for any genesis time, clock, delays and validators, and any number
  of restarts. `NextInterval` is about the two grids: the tick after one that was
  handled within `slack` is in a later interval, and it is in the very next one if it is
  itself handled within `slack`. By the first half the ticks of a process that share an
  interval are in a slot of `late`, and a signature belongs to one interval; this gives
  `RestartTheorem`, and `SignsOnceTheorem` (`SignsOnceUnlessLate`) for a process that was
  not restarted. `late` is empty if genesis is a multiple of 800 ms. By the second half a
  punctual node skips no interval, which gives `EverySlotTheorem`.
* **StorageBackendProofs**, for any blocks, byte size, retention and readers, and both
  backends. `IInv` says that a block with signatures is whole, since each batch in
  preparation writes or deletes its rows together, and what a reader between two reads
  may still rely on: the block is there, or was absent once. Hence
  `SignedBlocksAreAtomic`. `PrunesAllBelow` has two halves. Nothing at or above the slot is
  deleted, in whatever order the keys come (`OnlyBelow`). Nothing below it is left over
  RocksDB, since two big-endian bytes order keys as numbers order slots (`KeysOrder`), so
  that the entries before the first one kept are all the older ones. `NoCommitUnderOwnView`: the writer never waits for its own read lock.
  Assumptions: slots fit in the two bytes; the writer is no reader.

What loops and recursive functions compute is proved without the library's induction
theorems, which no installed prover can instantiate. Inclusion is well founded on finite sets
(`FS_StrictSubsetOrderingWellFounded`), so a set of counterexamples has a least one
(`WFMin`) and a finite set of slots a greatest one; the step of the induction then
contradicts its choice.

Each inductive invariant was checked with TLC on the instance of its run first.

Proved and in no run: the type invariants of `StateTransition`, `BlockFetch`,
`BlockImport`, `Duties`, `ForkChoice` and `PeerConnections`; `FinalizedNeverRegresses`,
`AttemptsCountSends`, `LiveChainComplete`, `CounterIsExact` and `RowsHaveHeaders`.

Only model-checked is liveness: `FetchEnds`, `FetchDelivers`, `AwaitEnds`, `CatchesUp`,
`BuildEnds`, `CommitEnds` and `BootnodesReconnect`. Fairness and ENABLED are out of the
prover's reach. Every safety property of a passing run is proved.

Stated, and checked by hand on the instances of the runs: `RedialsBounded` of
`PeerConnections`, and, with `MaxChunks` 1 or `Breaks`, `RoundTrip` and
`NothingInvented` of `ReqRespCodec`.

## Not modelled

* The import of the node's own proposal (`propose_block` of the blockchain actor):
  it calls `store::on_block` without the cascade and the pruning. `Duties` has the
  signature it makes and `BlockBuilding` its content.
* SSZ, hashing and signature schemes: roots are names, and the outcome of a
  verification or an aggregation is an input.
* The snappy encoding of gossip messages: one call each way, without state.
* libp2p and RocksDB themselves: they are modelled from how the code uses them.
* The rendering of the fork-choice tree, JSON, metrics and heap profiling: nothing in
  the node reads them back. Parsing of configuration files.
* `BlockImport` beyond `BLOCKS_TO_KEEP`: rows of pending blocks are then deleted
  while the pending maps keep them, so that a block may wait until the next restart;
  `StorageBackend` has the pruning itself.
