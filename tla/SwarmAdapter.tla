---------------------------- MODULE SwarmAdapter ----------------------------
(***************************************************************************)
(* The block fetches of BlockFetch with the channels between the P2P actor *)
(* and the task that owns the libp2p swarm (crates/net/p2p/src/            *)
(* swarm_adapter.rs).                                                      *)
(*                                                                         *)
(* A handler that sends a request puts a command into a channel and awaits *)
(* the request id on a oneshot channel; only then does it record the       *)
(* request.  Meanwhile the swarm loop goes on: the answer may be in the    *)
(* actor's mailbox before the actor knows the id.  The actor handles no    *)
(* message while a handler awaits, so at most one request is in the        *)
(* command channel.  Both channels are unbounded.                          *)
(*                                                                         *)
(* What the handlers compute is BlockFetch's; this module adds when.       *)
(***************************************************************************)
EXTENDS BlockFetch

VARIABLES
    handler,    \* what the actor awaits, or Idle
    events      \* request id -> [root, peer, result] not yet handled

actor == <<connected_peers, pending_requests, request_id_map, retries, forwarded, sent>>
bounds == <<calls, churn>>
SwarmVars == <<actor, bounds, handler, inflight, next_id, events>>

Idle == [awaits |-> "nothing"]
Status == [awaits |-> "status"]
Queued(root, peer) == [awaits |-> "id", root |-> root, peer |-> peer]
Replied(root, id) == [awaits |-> "resume", root |-> root, id |-> id]

Failed == [failed |-> TRUE]
Success(blocks) == [failed |-> FALSE, blocks |-> blocks]

SwarmInit ==
    /\ Init
    /\ handler = Idle
    /\ events = EmptyMap

-----------------------------------------------------------------------------
(***************************************************************************)
(* The actor                                                               *)
(***************************************************************************)
\* fetch_block_from_peer up to the await: a round of elimination that is over
\* has been cleared, the command is in the channel.
send_request(root) ==
    \E peer \in pool(root) :
        /\ handler' = Queued(root, peer)
        /\ pending_requests' = IF pending(root)
                               THEN Put(pending_requests, root, tracked(root))
                               ELSE pending_requests
        /\ sent' = [sent EXCEPT ![root] = IF pending(root) THEN @ + 1 ELSE 1]

HandleFetchBlock(root) ==
    /\ handler = Idle
    /\ calls < MaxCalls
    /\ calls' = calls + 1
    /\ IF ~pending(root) /\ connected_peers # {}
       THEN send_request(root)
       ELSE UNCHANGED <<handler, pending_requests, sent>>
    /\ UNCHANGED <<connected_peers, request_id_map, retries, forwarded, churn, inflight, next_id,
                   events>>

HandleRetryBlockFetch(root) ==
    /\ handler = Idle
    /\ retries[root] > 0
    /\ retries' = [retries EXCEPT ![root] = @ - 1]
    /\ IF pending(root)
       THEN IF connected_peers # {}
            THEN send_request(root)
            ELSE /\ pending_requests' = Without(pending_requests, root)
                 /\ UNCHANGED <<handler, sent>>
       ELSE UNCHANGED <<handler, pending_requests, sent>>
    /\ UNCHANGED <<connected_peers, request_id_map, forwarded, bounds, inflight, next_id, events>>

Resume_new_only ==
    /\ handler.awaits = "resume"
    /\ handler' = Idle
    /\ IF pending(handler.root)
       THEN UNCHANGED <<pending_requests, request_id_map>>
       ELSE /\ pending_requests' = Put(pending_requests, handler.root, tracked(handler.root))
            /\ request_id_map' = Put(request_id_map, handler.id, handler.root)
    /\ UNCHANGED <<connected_peers, retries, forwarded, sent, bounds, inflight, next_id, events>>

\* fetch_block_from_peer after the await: the request is recorded under its id.
Resume ==
    /\ handler.awaits = "resume"
    /\ handler' = Idle
    /\ pending_requests' = IF pending(handler.root) THEN pending_requests
                           ELSE Put(pending_requests, handler.root, tracked(handler.root))
    /\ request_id_map' = Put(request_id_map, handler.id, handler.root)
    /\ UNCHANGED <<connected_peers, retries, forwarded, sent, bounds, inflight, next_id, events>>

ReceiveOutcome_while_awaiting(id) ==
    /\ events' = Without(events, id)
    /\ LET root   == request_id_map[id]
           event  == events[id]
       IN  IF id \notin DOMAIN request_id_map
           THEN UNCHANGED <<pending_requests, request_id_map, retries, forwarded>>
           ELSE IF event.result.failed
           THEN /\ request_id_map' = Without(request_id_map, id)
                /\ handle_fetch_failure(root, event.peer)
                /\ UNCHANGED forwarded
           ELSE IF event.result.blocks = {}
           THEN /\ handle_fetch_failure(root, event.peer)
                /\ UNCHANGED <<request_id_map, forwarded>>
           ELSE /\ request_id_map' = Without(request_id_map, id)
                /\ IF root \in event.result.blocks
                   THEN /\ pending_requests' = Without(pending_requests, root)
                        /\ forwarded' = forwarded \cup {root}
                   ELSE UNCHANGED <<pending_requests, forwarded>>
                /\ UNCHANGED retries
    /\ UNCHANGED <<connected_peers, sent, bounds, handler, inflight, next_id>>

\* Handler<WrappedSwarmEvent>: an id the actor has not recorded is ignored.
ReceiveOutcome(id) ==
    /\ handler = Idle
    /\ events' = Without(events, id)
    /\ LET root   == request_id_map[id]
           event  == events[id]
       IN  IF id \notin DOMAIN request_id_map
           THEN UNCHANGED <<pending_requests, request_id_map, retries, forwarded>>
           ELSE IF event.result.failed
           THEN /\ request_id_map' = Without(request_id_map, id)
                /\ handle_fetch_failure(root, event.peer)
                /\ UNCHANGED forwarded
           ELSE IF event.result.blocks = {}
           THEN /\ handle_fetch_failure(root, event.peer)
                /\ UNCHANGED <<request_id_map, forwarded>>
           ELSE /\ request_id_map' = Without(request_id_map, id)
                /\ IF root \in event.result.blocks
                   THEN /\ pending_requests' = Without(pending_requests, root)
                        /\ forwarded' = forwarded \cup {root}
                   ELSE UNCHANGED <<pending_requests, forwarded>>
                /\ UNCHANGED retries
    /\ UNCHANGED <<connected_peers, sent, bounds, handler, inflight, next_id>>

\* The first connection to a peer is answered with a Status request, whose id
\* is awaited and forgotten: no entry waits for its answer.
HandleConnectionEstablished(peer) ==
    /\ handler = Idle
    /\ churn < MaxChurn
    /\ peer \notin connected_peers
    /\ connected_peers' = connected_peers \cup {peer}
    /\ churn' = churn + 1
    /\ handler' = Status
    /\ UNCHANGED <<pending_requests, request_id_map, retries, forwarded, sent, calls, inflight,
                   next_id, events>>

HandleConnectionClosed(peer) ==
    /\ handler = Idle
    /\ churn < MaxChurn
    /\ peer \in connected_peers
    /\ connected_peers' = connected_peers \ {peer}
    /\ churn' = churn + 1
    /\ UNCHANGED <<pending_requests, request_id_map, retries, forwarded, sent, calls, handler,
                   inflight, next_id, events>>

-----------------------------------------------------------------------------
(***************************************************************************)
(* The swarm loop                                                          *)
(***************************************************************************)
execute_block_request_when_drained ==
    /\ handler.awaits = "id"
    /\ events = EmptyMap
    /\ inflight' = Put(inflight, next_id, [root |-> handler.root, peer |-> handler.peer])
    /\ next_id' = next_id + 1
    /\ handler' = Replied(handler.root, next_id)
    /\ UNCHANGED <<actor, bounds, events>>

\* SwarmCommand::SendRequest: libp2p takes the request and names it, and the
\* name goes back through the oneshot channel.
execute_block_request ==
    /\ handler.awaits = "id"
    /\ inflight' = Put(inflight, next_id, [root |-> handler.root, peer |-> handler.peer])
    /\ next_id' = next_id + 1
    /\ handler' = Replied(handler.root, next_id)
    /\ UNCHANGED <<actor, bounds, events>>

execute_status_request ==
    /\ handler.awaits = "status"
    /\ handler' = Idle
    /\ UNCHANGED <<actor, bounds, inflight, next_id, events>>

execute_command == execute_block_request \/ execute_status_request

\* swarm.next(): libp2p ends a request with an answer or a failure, and the
\* loop passes it on.
SwarmEvent(id) ==
    /\ id \in DOMAIN inflight
    /\ LET request == inflight[id]
       IN  \E result \in {Success(blocks) : blocks \in Answers[request.peer][request.root]}
                         \cup {Failed} :
               events' = Put(events, id, [root |-> request.root, peer |-> request.peer,
                                          result |-> result])
    /\ inflight' = Without(inflight, id)
    /\ UNCHANGED <<actor, bounds, handler, next_id>>

SwarmNext ==
    \/ \E root \in Roots : HandleFetchBlock(root) \/ HandleRetryBlockFetch(root)
    \/ Resume
    \/ \E id \in DOMAIN events : ReceiveOutcome(id)
    \/ \E peer \in Peers : HandleConnectionEstablished(peer) \/ HandleConnectionClosed(peer)
    \/ execute_command
    \/ \E id \in DOMAIN inflight : SwarmEvent(id)

SwarmSpec == SwarmInit /\ [][SwarmNext]_SwarmVars

\* tokio runs the loop and wakes the handler.
SwarmFairness == WF_SwarmVars(execute_command) /\ WF_SwarmVars(Resume)

SwarmFairSpec == SwarmSpec /\ SwarmFairness

-----------------------------------------------------------------------------
(***************************************************************************)
(* Properties                                                              *)
(***************************************************************************)
SwarmTypeOK ==
    /\ handler \in {Idle, Status}
                   \cup {Queued(r, p) : r \in Roots, p \in Peers}
                   \cup {Replied(r, i) : r \in Roots, i \in 0 .. next_id - 1}
    /\ next_id \in Nat
    /\ DOMAIN inflight \cup DOMAIN events \cup DOMAIN request_id_map \subseteq 0 .. next_id - 1
    /\ DOMAIN inflight \cap DOMAIN events = {}
    /\ \A i \in DOMAIN inflight : inflight[i] \in [root : Roots, peer : Peers]
    /\ \A i \in DOMAIN events :
           /\ events[i].root \in Roots /\ events[i].peer \in Peers
           /\ events[i].result \in
                  {Success(blocks) : blocks \in Answers[events[i].peer][events[i].root]}
                  \cup {Failed}
    /\ DOMAIN pending_requests \subseteq Roots

(***************************************************************************)
(* An answer finds its request.  The event may be queued before the actor  *)
(* has the id, but whenever the actor takes an event its id is recorded:   *)
(* the branch "Received response for unknown request_id" of                *)
(* handle_blocks_by_root_response is not taken.                            *)
(***************************************************************************)
AnswerFindsRequest ==
    handler = Idle => \A i \in DOMAIN events :
                          i \in DOMAIN request_id_map /\ request_id_map[i] = events[i].root

(***************************************************************************)
(* The actor and the loop do not wait for each other: a handler that       *)
(* awaits a request id goes on, however many events wait for the actor.    *)
(***************************************************************************)
AwaitEnds == handler # Idle ~> handler = Idle

-----------------------------------------------------------------------------
(***************************************************************************)
(* The atomic fetch of BlockFetch happens when the command is sent: its    *)
(* request is in flight from then until the actor handles its outcome, and *)
(* its entries are the ones Resume will write.                             *)
(***************************************************************************)
awaited_root == handler.root
awaited_id == IF handler.awaits = "id" THEN next_id ELSE handler.id
fetching == handler.awaits \in {"id", "resume"}

abstract_pending ==
    IF fetching /\ ~pending(awaited_root)
    THEN Put(pending_requests, awaited_root, [attempts |-> 1, failed_peers |-> {}])
    ELSE pending_requests

abstract_ids ==
    IF fetching THEN Put(request_id_map, awaited_id, awaited_root) ELSE request_id_map

request_of(i) ==
    IF i \in DOMAIN inflight THEN inflight[i]
    ELSE IF i \in DOMAIN events THEN [root |-> events[i].root, peer |-> events[i].peer]
    ELSE [root |-> awaited_root, peer |-> handler.peer]

abstract_inflight ==
    [i \in DOMAIN inflight \cup DOMAIN events
           \cup (IF handler.awaits = "id" THEN {next_id} ELSE {}) |-> request_of(i)]

abstract_next_id == IF handler.awaits = "id" THEN next_id + 1 ELSE next_id

\* A connection may be lost at any time, so a request to any peer may fail.
Fetch == INSTANCE BlockFetch WITH
    Faulty           <- Peers,
    pending_requests <- abstract_pending,
    request_id_map   <- abstract_ids,
    inflight         <- abstract_inflight,
    next_id          <- abstract_next_id

(***************************************************************************)
(* The channels do not show: the actor and the swarm task together behave  *)
(* as BlockFetch, where sending and recording a request is one step.       *)
(***************************************************************************)
ImplementsBlockFetch == Fetch!Spec
=============================================================================
