----------------------------- MODULE BlockFetch -----------------------------
(***************************************************************************)
(* How the P2P actor fetches a missing block                               *)
(* (crates/net/p2p/src/lib.rs and req_resp/handlers.rs): a BlocksByRoot    *)
(* request to one random peer, and after a failure another one, with an    *)
(* exponential backoff, until MAX_FETCH_RETRIES attempts were made.        *)
(*                                                                         *)
(* The actor handles one message at a time, so each handler is one action. *)
(* Between handlers anything may happen: answers, failures and timers      *)
(* arrive in any order, and peers come and go.  libp2p is external: it     *)
(* ends every request it accepted with one answer or one failure.          *)
(***************************************************************************)
EXTENDS Naturals, FiniteSets, Maps

CONSTANTS
    Peers,
    Roots,              \* roots of the blocks the node may ask for
    BlockRoots,         \* roots of the blocks there are
    MAX_FETCH_RETRIES,
    Answers,            \* Answers[p][r]: what p may answer when asked for r,
                        \*   each answer being the roots of the blocks it carries
    Faulty,             \* the peers requests to which may fail
    MaxCalls,           \* bound: FetchBlock messages
    MaxChurn            \* bound: connections opened or closed

ASSUME RetriesAssumption == MAX_FETCH_RETRIES \in Nat \ {0}

ASSUME PeersAssumption ==
    /\ Faulty \subseteq Peers
    /\ Answers \in [Peers -> [Roots -> SUBSET (SUBSET BlockRoots)]]

ASSUME BoundsAssumption == MaxCalls \in Nat /\ MaxChurn \in Nat

VARIABLES
    connected_peers,
    pending_requests,  \* root -> [attempts, failed_peers]
    request_id_map,    \* request id -> root
    inflight,          \* external: request id -> [root, peer], not yet ended
    next_id,           \* external: the id libp2p gives the next request
    retries,           \* root -> number of RetryBlockFetch timers running
    forwarded,         \* the blocks handed to the blockchain actor
    sent,              \* history: root -> requests sent since it became pending
    calls, churn       \* what is used up of MaxCalls and MaxChurn

tracking == <<pending_requests, request_id_map, inflight, next_id, retries, sent>>

vars == <<connected_peers, tracking, forwarded, calls, churn>>

pending(root) == root \in DOMAIN pending_requests

Init ==
    /\ connected_peers \in SUBSET Peers
    /\ pending_requests = EmptyMap
    /\ request_id_map = EmptyMap
    /\ inflight = EmptyMap
    /\ next_id = 0
    /\ retries = [r \in Roots |-> 0]
    /\ forwarded = {}
    /\ sent = [r \in Roots |-> 0]
    /\ calls = 0
    /\ churn = 0

failed_peers(root) == IF pending(root) THEN pending_requests[root].failed_peers ELSE {}

\* Every connected peer has failed: the round of elimination starts afresh.
exhausted(root) == connected_peers \subseteq failed_peers(root)

pool_of_all(root) == connected_peers

pool(root) == IF exhausted(root) THEN connected_peers
                                 ELSE connected_peers \ failed_peers(root)

\* The entry of a root once a request for it is sent.
tracked(root) ==
    IF ~pending(root) THEN [attempts |-> 1, failed_peers |-> {}]
    ELSE IF exhausted(root)
    THEN [attempts |-> pending_requests[root].attempts, failed_peers |-> {}]
    ELSE pending_requests[root]

\* The part of fetch_block_from_peer that runs when some peer is connected.
fetch_block_from_peer(root) ==
    \E peer \in pool(root) :
        /\ inflight' = Put(inflight, next_id, [root |-> root, peer |-> peer])
        /\ request_id_map' = Put(request_id_map, next_id, root)
        /\ pending_requests' = Put(pending_requests, root, tracked(root))
        /\ next_id' = next_id + 1
        /\ sent' = [sent EXCEPT ![root] = IF pending(root) THEN @ + 1 ELSE 1]

FetchBlock_undeduplicated(root) ==
    /\ calls < MaxCalls
    /\ calls' = calls + 1
    /\ IF connected_peers # {}
       THEN fetch_block_from_peer(root) /\ UNCHANGED retries
       ELSE UNCHANGED tracking
    /\ UNCHANGED <<connected_peers, forwarded, churn>>

\* Handler<FetchBlock>: a root already pending is ignored, and so is one that
\* no peer is there to be asked for (nothing is recorded, nothing is retried).
FetchBlock(root) ==
    /\ calls < MaxCalls
    /\ calls' = calls + 1
    /\ IF ~pending(root) /\ connected_peers # {}
       THEN fetch_block_from_peer(root) /\ UNCHANGED retries
       ELSE UNCHANGED tracking
    /\ UNCHANGED <<connected_peers, forwarded, churn>>

handle_retry_block_fetch(root) ==
    /\ retries[root] > 0
    /\ retries' = [retries EXCEPT ![root] = @ - 1]
    /\ IF pending(root)
       THEN IF connected_peers # {}
            THEN fetch_block_from_peer(root)
            ELSE /\ pending_requests' = Without(pending_requests, root)
                 /\ UNCHANGED <<request_id_map, inflight, next_id, sent>>
       ELSE UNCHANGED <<pending_requests, request_id_map, inflight, next_id, sent>>
    /\ UNCHANGED <<connected_peers, forwarded, calls, churn>>

gives_up(attempts) == attempts >= MAX_FETCH_RETRIES

handle_fetch_failure_untimed(root, peer) ==
    IF ~pending(root) THEN UNCHANGED <<pending_requests, retries>>
    ELSE LET entry == pending_requests[root]
         IN  /\ IF gives_up(entry.attempts)
                THEN pending_requests' = Without(pending_requests, root)
                ELSE pending_requests' =
                         Put(pending_requests, root,
                             [attempts |-> entry.attempts + 1,
                              failed_peers |-> entry.failed_peers \cup {peer}])
             /\ UNCHANGED retries

handle_fetch_failure(root, peer) ==
    IF ~pending(root) THEN UNCHANGED <<pending_requests, retries>>
    ELSE LET entry == pending_requests[root]
         IN  IF gives_up(entry.attempts)
             THEN /\ pending_requests' = Without(pending_requests, root)
                  /\ UNCHANGED retries
             ELSE /\ pending_requests' =
                         Put(pending_requests, root,
                             [attempts |-> entry.attempts + 1,
                              failed_peers |-> entry.failed_peers \cup {peer}])
                  /\ retries' = [retries EXCEPT ![root] = @ + 1]

handle_blocks_by_root_response_unchecked(id, blocks) ==
    LET root == request_id_map[id]
    IN  /\ id \in DOMAIN inflight
        /\ id \in DOMAIN request_id_map
        /\ inflight' = Without(inflight, id)
        /\ IF blocks = {}
           THEN /\ handle_fetch_failure(root, inflight[id].peer)
                /\ UNCHANGED <<request_id_map, forwarded>>
           ELSE /\ request_id_map' = Without(request_id_map, id)
                /\ pending_requests' = Without(pending_requests, root)
                /\ forwarded' = forwarded \cup blocks
                /\ UNCHANGED retries
        /\ UNCHANGED <<connected_peers, next_id, sent, calls, churn>>

\* A response without blocks counts as a failure and puts the id back into the
\* map; blocks other than the requested one are ignored.
handle_blocks_by_root_response(id, blocks) ==
    LET root == request_id_map[id]
    IN  /\ id \in DOMAIN inflight
        /\ id \in DOMAIN request_id_map
        /\ inflight' = Without(inflight, id)
        /\ IF blocks = {}
           THEN /\ handle_fetch_failure(root, inflight[id].peer)
                /\ UNCHANGED <<request_id_map, forwarded>>
           ELSE /\ request_id_map' = Without(request_id_map, id)
                /\ IF root \in blocks
                   THEN /\ pending_requests' = Without(pending_requests, root)
                        /\ forwarded' = forwarded \cup {root}
                   ELSE UNCHANGED <<pending_requests, forwarded>>
                /\ UNCHANGED retries
        /\ UNCHANGED <<connected_peers, next_id, sent, calls, churn>>

OutboundFailure(id) ==
    /\ id \in DOMAIN inflight
    /\ id \in DOMAIN request_id_map
    /\ inflight[id].peer \in Faulty \/ inflight[id].peer \notin connected_peers
    /\ inflight' = Without(inflight, id)
    /\ request_id_map' = Without(request_id_map, id)
    /\ handle_fetch_failure(request_id_map[id], inflight[id].peer)
    /\ UNCHANGED <<connected_peers, forwarded, next_id, sent, calls, churn>>

\* The first connection to a peer opens, the last one closes.
ConnectionEstablished(peer) ==
    /\ churn < MaxChurn
    /\ peer \notin connected_peers
    /\ connected_peers' = connected_peers \cup {peer}
    /\ churn' = churn + 1
    /\ UNCHANGED <<tracking, forwarded, calls>>

ConnectionClosed(peer) ==
    /\ churn < MaxChurn
    /\ peer \in connected_peers
    /\ connected_peers' = connected_peers \ {peer}
    /\ churn' = churn + 1
    /\ UNCHANGED <<tracking, forwarded, calls>>

Response(id) ==
    \E blocks \in Answers[inflight[id].peer][inflight[id].root] :
        handle_blocks_by_root_response(id, blocks)

Next ==
    \/ \E root \in Roots : FetchBlock(root)
    \/ \E root \in Roots : handle_retry_block_fetch(root)
    \/ \E id \in DOMAIN inflight : Response(id)
    \/ \E id \in DOMAIN inflight : OutboundFailure(id)
    \/ \E peer \in Peers : ConnectionEstablished(peer)
    \/ \E peer \in Peers : ConnectionClosed(peer)

Spec == Init /\ [][Next]_vars

\* libp2p ends every request (its timeout is 10 s), and send_after fires.
RequestEnds(root) ==
    \E id \in DOMAIN inflight : /\ inflight[id].root = root
                                /\ Response(id) \/ OutboundFailure(id)

Fairness ==
    \A root \in Roots : /\ WF_vars(RequestEnds(root))
                        /\ WF_vars(handle_retry_block_fetch(root))

FairSpec == Spec /\ Fairness

-----------------------------------------------------------------------------
(***************************************************************************)
(* Properties                                                              *)
(***************************************************************************)
TypeOK ==
    /\ connected_peers \subseteq Peers
    /\ DOMAIN pending_requests \subseteq Roots
    /\ \A r \in DOMAIN pending_requests :
           /\ pending_requests[r].attempts \in 1 .. MAX_FETCH_RETRIES
           /\ pending_requests[r].failed_peers \subseteq Peers
    /\ next_id \in Nat
    /\ DOMAIN inflight \subseteq 0 .. next_id - 1
    /\ \A i \in DOMAIN inflight : inflight[i] \in [root : Roots, peer : Peers]
    /\ DOMAIN request_id_map \subseteq 0 .. next_id - 1
    /\ \A i \in DOMAIN request_id_map : request_id_map[i] \in Roots
    /\ retries \in [Roots -> Nat]
    /\ forwarded \subseteq Roots
    /\ sent \in [Roots -> Nat]
    /\ calls \in 0 .. MaxCalls
    /\ churn \in 0 .. MaxChurn

(***************************************************************************)
(* One fetch, one thing under way.  Whatever the order of FetchBlock,      *)
(* answers, failures, late timers and reconnections, a root has at most    *)
(* one request in flight or one timer running, never both, and then it is  *)
(* pending; so no retry races an answer to an earlier request, and an      *)
(* answer always finds its root in request_id_map.                         *)
(***************************************************************************)
OneOutstanding ==
    /\ \A i, j \in DOMAIN inflight : inflight[i].root = inflight[j].root => i = j
    /\ \A i \in DOMAIN inflight : /\ pending(inflight[i].root)
                                  /\ retries[inflight[i].root] = 0
                                  /\ i \in DOMAIN request_id_map
                                  /\ request_id_map[i] = inflight[i].root
    /\ \A r \in Roots : retries[r] > 0 => retries[r] = 1 /\ pending(r)

(***************************************************************************)
(* `attempts` counts the requests really sent for the entry (and the one   *)
(* the running timer will send), over any interleaving, so a root is asked *)
(* for at most MAX_FETCH_RETRIES times before the actor gives up.          *)
(***************************************************************************)
AttemptsCountSends ==
    \A r \in DOMAIN pending_requests :
        /\ pending_requests[r].attempts = sent[r] + retries[r]
        /\ sent[r] <= MAX_FETCH_RETRIES

(***************************************************************************)
(* A fetch that began ends: the block is forwarded or the actor gives up   *)
(* and drops the entry, so that a later FetchBlock can start again.  (As   *)
(* long as no peer answers with other blocks only.)                        *)
(***************************************************************************)
NeverMismatched(root) ==
    \A p \in Peers : \A blocks \in Answers[p][root] : blocks = {} \/ root \in blocks

FetchEnds == \A r \in Roots : NeverMismatched(r) => (pending(r) ~> ~pending(r))

(***************************************************************************)
(* Eliminating failed peers finds the one that has the block: if, from the *)
(* first request on, a peer that answers with it stays connected, and      *)
(* there are no more peers than attempts, the fetch delivers the block.    *)
(***************************************************************************)
Serves(peer, root) == peer \notin Faulty /\ Answers[peer][root] = {{root}}

FirstAttempt(root) == pending(root) /\ pending_requests[root].attempts = 1

FetchDelivers ==
    Cardinality(Peers) <= MAX_FETCH_RETRIES =>
        \A r \in Roots : \A p \in Peers :
            Serves(p, r) =>
                []( FirstAttempt(r) /\ [](p \in connected_peers) => <>(r \in forwarded) )

(***************************************************************************)
(* The fetcher, with its peers, retries, timers and late answers, is a     *)
(* FetchService: a fetch is started once, hands over the block that was    *)
(* asked for and nothing else, at most once, or is given up.               *)
(***************************************************************************)
Service == INSTANCE FetchService WITH fetching <- DOMAIN pending_requests

ImplementsFetchService == Service!Spec

(***************************************************************************)
(* Handler<FetchBlock> drops a duplicate with "Block fetch already in      *)
(* progress, ignoring duplicate" (p2p/src/lib.rs): a pending root has a    *)
(* request in flight or a timer running.                                   *)
(***************************************************************************)
PendingIsInProgress ==
    \A r \in DOMAIN pending_requests :
        \/ retries[r] > 0
        \/ \E i \in DOMAIN inflight : inflight[i].root = r
=============================================================================
