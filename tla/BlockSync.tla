----------------------------- MODULE BlockSync ------------------------------
(***************************************************************************)
(* The two actors of the node and what they send each other: the           *)
(* blockchain actor (BlockImport) asks for missing blocks, the P2P actor   *)
(* (FetchService, which BlockFetch implements) fetches them and forwards   *)
(* what it fetched and what gossip brought.  main wires the actors while   *)
(* both are already running, and the process may die and start again.      *)
(*                                                                         *)
(* A mailbox is a sequence: spawned delivers the messages to an actor in   *)
(* the order they were sent.                                               *)
(***************************************************************************)
EXTENDS BlockImport

CONSTANTS
    Tips,          \* blocks the network goes on gossiping or building on
    MaxMail,       \* bound: gossip waits while a mailbox is this long
    MaxRestarts    \* bound: restarts of the process

VARIABLES
    p2p,            \* BlockChainServer.p2p is set
    \* the P2P actor
    fetching, forwarded,
    blockchain,     \* P2PServer.blockchain is set
    dropped,        \* history: roots whose last fetch was not started, or given up
    \* the mailboxes, and main
    to_chain,       \* InitP2P and NewBlock messages
    to_p2p,         \* InitBlockChain and FetchBlock messages
    main,           \* what main does next
    restarts,
    torn            \* history: blocks whose import a crash cut between block and state

Fetch == INSTANCE FetchService

fetch_vars == <<fetching, forwarded>>
chain_vars == <<vars, p2p>>
p2p_vars == <<fetch_vars, blockchain, dropped>>
node == <<main, restarts, torn>>

NodeVars == <<chain_vars, p2p_vars, to_chain, to_p2p, node>>

InitP2P == "InitP2P"
InitBlockChain == "InitBlockChain"

ASSUME MessagesAssumption == Roots \cap {InitP2P, InitBlockChain} = {}

NodeInit ==
    /\ Init
    /\ Fetch!Init
    /\ p2p = FALSE
    /\ blockchain = FALSE
    /\ dropped = {}
    /\ to_chain = <<>>
    /\ to_p2p = <<>>
    /\ main = InitP2P
    /\ restarts = 0
    /\ torn = {}

WireActors_swapped ==
    \/ /\ main = InitP2P
       /\ to_p2p' = Append(to_p2p, InitBlockChain)
       /\ main' = InitBlockChain
       /\ UNCHANGED <<chain_vars, p2p_vars, to_chain, restarts, torn>>
    \/ /\ main = InitBlockChain
       /\ to_chain' = Append(to_chain, InitP2P)
       /\ main' = "running"
       /\ UNCHANGED <<chain_vars, p2p_vars, to_p2p, restarts, torn>>

\* main: InitP2P to the blockchain actor, then InitBlockChain to the P2P actor.  If
\* the first has stopped the send fails and main returns.
WireActors ==
    \/ /\ main = InitP2P
       /\ pc # "stopped"
       /\ to_chain' = Append(to_chain, InitP2P)
       /\ main' = InitBlockChain
       /\ UNCHANGED <<chain_vars, p2p_vars, to_p2p, restarts, torn>>
    \/ /\ main = InitBlockChain
       /\ to_p2p' = Append(to_p2p, InitBlockChain)
       /\ main' = "running"
       /\ UNCHANGED <<chain_vars, p2p_vars, to_chain, restarts, torn>>

-----------------------------------------------------------------------------
(***************************************************************************)
(* The blockchain actor                                                    *)
(***************************************************************************)
HandleInitP2P ==
    /\ pc = "idle"
    /\ to_chain # <<>> /\ Head(to_chain) = InitP2P
    /\ to_chain' = Tail(to_chain)
    /\ p2p' = TRUE
    /\ UNCHANGED <<vars, p2p_vars, to_p2p, node>>

HandleNewBlock ==
    /\ to_chain # <<>> /\ Head(to_chain) \in Blocks
    /\ NewBlock(Head(to_chain))
    /\ to_chain' = Tail(to_chain)
    /\ UNCHANGED <<p2p, p2p_vars, to_p2p, node>>

request_missing_block_once ==
    /\ RequestMissing
    /\ to_p2p' = IF p2p /\ missing_root \notin requested
                 THEN Append(to_p2p, missing_root) ELSE to_p2p
    /\ UNCHANGED <<p2p, p2p_vars, to_chain, node>>

\* request_missing_block: without the ref to the P2P actor nothing is sent.
request_missing_block ==
    /\ RequestMissing
    /\ to_p2p' = IF p2p THEN Append(to_p2p, missing_root) ELSE to_p2p
    /\ UNCHANGED <<p2p, p2p_vars, to_chain, node>>

\* The steps of on_block that send nothing, and the head update of a tick.
ChainStep ==
    /\ \/ NextInQueue
       \/ WalkLineage
       \/ PendBlock
       \/ WalkHeaders
       \/ EnqueueStored
       \/ ImportDuplicate
       \/ RejectBlock
       \/ AdvanceCheckpoints
       \/ PruneLiveChain
       \/ InsertSignedBlock
       \/ InsertState
       \/ FinishImport
       \/ PruneOldStates
       \/ PruneOldBlocks
    /\ UNCHANGED <<p2p, p2p_vars, to_chain, to_p2p, node>>

\* A tick that panics ends the actor; the messages in its mailbox are lost.
ChainTick ==
    /\ Tick
    /\ to_chain' = IF pc' = "stopped" THEN <<>> ELSE to_chain
    /\ UNCHANGED <<p2p, p2p_vars, to_p2p, node>>

-----------------------------------------------------------------------------
(***************************************************************************)
(* The P2P actor                                                           *)
(***************************************************************************)
HandleInitBlockChain ==
    /\ to_p2p # <<>> /\ Head(to_p2p) = InitBlockChain
    /\ to_p2p' = Tail(to_p2p)
    /\ blockchain' = TRUE
    /\ UNCHANGED <<chain_vars, fetch_vars, dropped, to_chain, node>>

\* NewBlock to the blockchain actor, if the actors are wired; the send fails, which
\* is logged, if that actor has stopped.
new_block(b) ==
    to_chain' = IF blockchain /\ pc # "stopped" THEN Append(to_chain, b) ELSE to_chain

\* handle_gossipsub_message.
Gossip(b) ==
    /\ Len(to_chain) < MaxMail /\ Len(to_p2p) < MaxMail
    /\ new_block(b)
    /\ UNCHANGED <<chain_vars, p2p_vars, to_p2p, node>>

fetch_message(root) == to_p2p # <<>> /\ Head(to_p2p) = root

\* Handler<FetchBlock>: a fetch begins ...
StartFetch(root) ==
    /\ fetch_message(root)
    /\ Fetch!Start(root)
    /\ to_p2p' = Tail(to_p2p)
    /\ dropped' = dropped \ {root}
    /\ UNCHANGED <<chain_vars, blockchain, to_chain, node>>

IgnoreFetch_any(root) ==
    /\ fetch_message(root)
    /\ fetching # {}
    /\ to_p2p' = Tail(to_p2p)
    /\ UNCHANGED <<chain_vars, p2p_vars, to_chain, node>>

\* ... or one is under way ...
IgnoreFetch(root) ==
    /\ fetch_message(root)
    /\ root \in fetching
    /\ to_p2p' = Tail(to_p2p)
    /\ UNCHANGED <<chain_vars, p2p_vars, to_chain, node>>

\* ... or no peer is connected: the message is dropped.
DropFetch(root) ==
    /\ fetch_message(root)
    /\ root \notin fetching
    /\ to_p2p' = Tail(to_p2p)
    /\ dropped' = dropped \cup {root}
    /\ UNCHANGED <<chain_vars, fetch_vars, blockchain, to_chain, node>>

\* handle_blocks_by_root_response, with the block that was asked for.
DeliverFetch(root) ==
    /\ root \in SignedBlocks
    /\ Fetch!Deliver(root)
    /\ new_block(root)
    /\ UNCHANGED <<chain_vars, blockchain, dropped, to_p2p, node>>

\* handle_fetch_failure after the last attempt, handle_retry_block_fetch without peers.
GiveUpFetch(root) ==
    /\ Fetch!GiveUp(root)
    /\ dropped' = dropped \cup {root}
    /\ UNCHANGED <<chain_vars, blockchain, to_chain, to_p2p, node>>

-----------------------------------------------------------------------------
\* The process dies and starts again: only the database survives.
RestartNode ==
    /\ restarts < MaxRestarts
    /\ restarts' = restarts + 1
    /\ torn' = IF pc = "state" THEN torn \cup {block} ELSE torn
    /\ Restart
    /\ fetching' = {}
    /\ forwarded' = {}
    /\ dropped' = {}
    /\ p2p' = FALSE
    /\ blockchain' = FALSE
    /\ to_chain' = <<>>
    /\ to_p2p' = <<>>
    /\ main' = InitP2P

ChainActor == HandleInitP2P \/ HandleNewBlock \/ request_missing_block \/ ChainStep

P2PActor ==
    \/ HandleInitBlockChain
    \/ \E root \in Roots : StartFetch(root) \/ IgnoreFetch(root) \/ DropFetch(root)

NodeNext ==
    \/ WireActors
    \/ ChainActor
    \/ ChainTick
    \/ P2PActor
    \/ \E b \in SignedBlocks : Gossip(b)
    \/ \E root \in Roots : DeliverFetch(root)
    \/ \E root \in Roots : GiveUpFetch(root)
    \/ RestartNode

NodeSpec == NodeInit /\ [][NodeNext]_NodeVars

(***************************************************************************)
(* main and the actors run.  A peer that has the block is there again and  *)
(* again: of the messages that ask for a root one starts a fetch, and of   *)
(* the fetches one delivers (BlockFetch!FetchDelivers).  Gossip goes on.   *)
(***************************************************************************)
NodeFairness ==
    /\ WF_NodeVars(WireActors)
    /\ WF_NodeVars(ChainActor)
    /\ WF_NodeVars(P2PActor)
    /\ \A root \in SignedBlocks : SF_NodeVars(StartFetch(root)) /\ SF_NodeVars(DeliverFetch(root))
    /\ \A b \in Tips : SF_NodeVars(Gossip(b))

NodeFairSpec == NodeSpec /\ NodeFairness

-----------------------------------------------------------------------------
(***************************************************************************)
(* Properties                                                              *)
(***************************************************************************)
NodeTypeOK ==
    /\ TypeOK
    /\ fetching \subseteq Roots
    /\ forwarded \subseteq Roots
    /\ dropped \subseteq Roots
    /\ p2p \in BOOLEAN /\ blockchain \in BOOLEAN
    /\ to_chain \in Seq(Blocks \cup {InitP2P})
    /\ to_p2p \in Seq(Roots \cup {InitBlockChain})
    /\ main \in {InitP2P, InitBlockChain, "running"}
    /\ restarts \in 0 .. MaxRestarts
    /\ torn \subseteq Blocks

(***************************************************************************)
(* No request is lost in the wiring: whatever the actors do while main     *)
(* wires them, when on_block gets to request_missing_block the blockchain  *)
(* actor has its ref to the P2P actor.  (No NewBlock can be sent before    *)
(* InitBlockChain, which is sent after InitP2P.)                           *)
(***************************************************************************)
RequestsAreSent == pc = "db" => p2p

(***************************************************************************)
(* Nobody forgets a missing block.  Between two blocks, the root that a    *)
(* pending block waits for is itself pending, or is in one of the two      *)
(* mailboxes, or is being fetched, or failed; or the P2P actor dropped it, *)
(* having no peer or no attempts left.                                     *)
(***************************************************************************)
members(mailbox) == {mailbox[i] : i \in DOMAIN mailbox}

NobodyForgets ==
    pc = "idle" =>
        \A r \in Roots :
            pending_blocks[r] # {} =>
                \/ registered(r)
                \/ r \in members(to_p2p) \cup fetching \cup members(to_chain)
                \/ r \in rejected \cup dropped

(***************************************************************************)
(* A node that has fallen behind catches up: although a FetchBlock with no *)
(* peer connected is dropped and a fetch may be given up, and although the *)
(* process may restart in the middle, the next blocks of the chain ask for *)
(* the missing one again, until the whole chain is imported.  There is one *)
(* way to fail: a crash cut the import of a block between the commit of    *)
(* the block and that of its state (on_block_core), the fork choice made   *)
(* that block the head before it was imported again, and a tick panicked   *)
(* on the state it has not got (head_state).  The actor is stopped then    *)
(* for as long as the process runs.                                        *)
(***************************************************************************)
halted == pc = "stopped" /\ head \in torn \ states

CatchesUp ==
    \A b \in Tips :
        ({b} \cup Ancestors[b]) \cap Bad = {} => <>[](b \in states \/ halted)
=============================================================================
