----------------------------- MODULE FetchProofs ----------------------------
(***************************************************************************)
(* Proofs about BlockFetch and SwarmAdapter, for any peers, roots, answers *)
(* and bounds.                                                             *)
(***************************************************************************)
EXTENDS SwarmAdapter, TLAPS

\* The time the provers have for a leaf; the leaves that are pure logic name Zenon.
USE SMTT(30), ZenonT(30)

-----------------------------------------------------------------------------
(***************************************************************************)
(* BlockFetch                                                              *)
(***************************************************************************)
\* The three invariants are inductive together.
IInv == TypeOK /\ OneOutstanding /\ AttemptsCountSends

-----------------------------------------------------------------------------
\* The actor starts with no fetch under way.
LEMMA InitIInv == Init => IInv
  BY RetriesAssumption, BoundsAssumption
     DEF Init, EmptyMap, IInv, TypeOK, OneOutstanding, AttemptsCountSends, pending

-----------------------------------------------------------------------------
(***************************************************************************)
(* Sending.  The root has nothing under way: either it is not pending, or  *)
(* its timer just fired.                                                   *)
(***************************************************************************)
LEMMA SendPreserves ==
    ASSUME IInv, NEW root \in Roots, fetch_block_from_peer(root),
           \A i \in DOMAIN inflight : inflight[i].root # root,
           retries' \in [Roots -> Nat],
           retries'[root] = 0,
           \A r \in Roots \ {root} : retries'[r] = retries[r],
           pending(root) => retries[root] = 1,
           calls' \in 0 .. MaxCalls,
           UNCHANGED <<connected_peers, forwarded, churn>>
    PROVE  IInv'
<1>1. PICK peer \in pool(root) :
          /\ inflight' = Put(inflight, next_id, [root |-> root, peer |-> peer])
          /\ request_id_map' = Put(request_id_map, next_id, root)
          /\ pending_requests' = Put(pending_requests, root, tracked(root))
          /\ next_id' = next_id + 1
          /\ sent' = [sent EXCEPT ![root] = IF pending(root) THEN @ + 1 ELSE 1]
  BY DEF fetch_block_from_peer
<1>2. peer \in Peers
  BY <1>1 DEF pool, IInv, TypeOK
<1>3. /\ tracked(root).attempts = IF pending(root) THEN pending_requests[root].attempts ELSE 1
      /\ tracked(root).attempts \in 1 .. MAX_FETCH_RETRIES
      /\ tracked(root).failed_peers \subseteq Peers
  BY RetriesAssumption DEF tracked, pending, IInv, TypeOK
<1>4. /\ next_id \in Nat
      /\ \A i \in DOMAIN inflight : i \in 0 .. next_id - 1
      /\ \A i \in DOMAIN request_id_map : i \in 0 .. next_id - 1
      /\ \A i \in 0 .. next_id - 1 : i # next_id /\ i \in 0 .. (next_id + 1) - 1
      /\ next_id \in 0 .. (next_id + 1) - 1
  BY DEF IInv, TypeOK
<1>5. /\ DOMAIN inflight' = DOMAIN inflight \cup {next_id}
      /\ inflight'[next_id] = [root |-> root, peer |-> peer]
      /\ \A i \in DOMAIN inflight : inflight'[i] = inflight[i]
  BY <1>1, <1>4 DEF Put
<1>6. /\ DOMAIN request_id_map' = DOMAIN request_id_map \cup {next_id}
      /\ request_id_map'[next_id] = root
      /\ \A i \in DOMAIN request_id_map : request_id_map'[i] = request_id_map[i]
  BY <1>1, <1>4 DEF Put
<1>7. /\ DOMAIN pending_requests' = DOMAIN pending_requests \cup {root}
      /\ pending_requests'[root] = tracked(root)
      /\ \A r \in DOMAIN pending_requests : r # root => pending_requests'[r] = pending_requests[r]
  BY <1>1 DEF Put
<1>8. /\ sent' \in [Roots -> Nat]
      /\ sent'[root] = IF pending(root) THEN sent[root] + 1 ELSE 1
      /\ \A r \in Roots \ {root} : sent'[r] = sent[r]
  BY <1>1 DEF IInv, TypeOK
<1>9. TypeOK'
  <2>1. \A r \in DOMAIN pending_requests' :
            /\ pending_requests'[r].attempts \in 1 .. MAX_FETCH_RETRIES
            /\ pending_requests'[r].failed_peers \subseteq Peers
    BY <1>3, <1>7 DEF IInv, TypeOK
  <2>2. next_id' \in Nat /\ DOMAIN inflight' \subseteq 0 .. next_id' - 1
    BY <1>1, <1>4, <1>5
  <2>3. DOMAIN request_id_map' \subseteq 0 .. next_id' - 1
    BY <1>1, <1>4, <1>6
  <2> QED
    BY <1>2, <1>5, <1>6, <1>7, <1>8, <2>1, <2>2, <2>3 DEF IInv, TypeOK
<1>10. OneOutstanding'
  <2>1. \A i, j \in DOMAIN inflight' : inflight'[i].root = inflight'[j].root => i = j
    BY <1>5 DEF IInv, OneOutstanding
  <2>2. \A i \in DOMAIN inflight' : /\ inflight'[i].root \in DOMAIN pending_requests'
                                    /\ retries'[inflight'[i].root] = 0
                                    /\ i \in DOMAIN request_id_map'
                                    /\ request_id_map'[i] = inflight'[i].root
    BY <1>5, <1>6, <1>7 DEF IInv, OneOutstanding, TypeOK, pending
  <2>3. \A r \in Roots : retries'[r] > 0 => retries'[r] = 1 /\ r \in DOMAIN pending_requests'
    BY <1>7 DEF IInv, OneOutstanding, pending
  <2> QED
    BY <2>1, <2>2, <2>3 DEF OneOutstanding, pending
<1>11. AttemptsCountSends'
  <2> SUFFICES ASSUME NEW r \in DOMAIN pending_requests'
               PROVE  /\ pending_requests'[r].attempts = sent'[r] + retries'[r]
                      /\ sent'[r] <= MAX_FETCH_RETRIES
    BY DEF AttemptsCountSends
  <2>1. CASE r # root
    BY <1>7, <1>8, <2>1 DEF IInv, AttemptsCountSends, TypeOK
  <2>2. CASE r = root
    <3>1. pending(root) => /\ pending_requests[root].attempts = sent[root] + 1
                           /\ sent[root] \in Nat
      BY DEF IInv, AttemptsCountSends, pending, TypeOK
    <3> QED
      BY <1>3, <1>7, <1>8, <2>2, <3>1, RetriesAssumption
  <2> QED
    BY <2>1, <2>2
<1> QED
  BY <1>9, <1>10, <1>11 DEF IInv

\* FetchBlock: a pending root is left alone, and one that is not pending has no
\* request in flight and no timer.
LEMMA FetchBlockPreserves ==
    ASSUME IInv, NEW root \in Roots, FetchBlock(root)
    PROVE  IInv'
<1>1. calls' \in 0 .. MaxCalls /\ UNCHANGED <<connected_peers, forwarded, churn>>
  BY BoundsAssumption DEF FetchBlock, IInv, TypeOK
<1>2. CASE ~pending(root) /\ connected_peers # {}
  <2>1. /\ \A i \in DOMAIN inflight : inflight[i].root # root
        /\ retries[root] = 0
    BY <1>2 DEF IInv, OneOutstanding, TypeOK
  <2>2. fetch_block_from_peer(root) /\ retries' = retries
    BY <1>2 DEF FetchBlock
  <2>3. retries' \in [Roots -> Nat]
    BY <2>2 DEF IInv, TypeOK
  <2> QED
    BY <1>1, <1>2, <2>1, <2>2, <2>3, SendPreserves
<1>3. CASE ~(~pending(root) /\ connected_peers # {})
  BY <1>1, <1>3 DEF FetchBlock, tracking, IInv, TypeOK, OneOutstanding,
                    AttemptsCountSends, pending
<1> QED
  BY <1>2, <1>3

\* A timer fires for a root that is pending and has no request in flight; with no
\* peer connected the entry is dropped, and nothing of the fetch is left behind.
LEMMA RetryPreserves ==
    ASSUME IInv, NEW root \in Roots, handle_retry_block_fetch(root)
    PROVE  IInv'
<1>1. /\ pending(root)
      /\ retries[root] = 1
      /\ \A i \in DOMAIN inflight : inflight[i].root # root
  BY DEF handle_retry_block_fetch, IInv, OneOutstanding, TypeOK
<1>2. /\ retries' \in [Roots -> Nat]
      /\ retries'[root] = 0
      /\ \A r \in Roots \ {root} : retries'[r] = retries[r]
  BY <1>1 DEF handle_retry_block_fetch, IInv, TypeOK
<1>3. UNCHANGED <<connected_peers, forwarded, calls, churn>> /\ calls' \in 0 .. MaxCalls
  BY DEF handle_retry_block_fetch, IInv, TypeOK
<1>4. CASE connected_peers # {}
  <2>1. fetch_block_from_peer(root)
    BY <1>1, <1>4 DEF handle_retry_block_fetch
  <2> QED
    BY <1>1, <1>2, <1>3, <2>1, SendPreserves
<1>5. CASE connected_peers = {}
  <2>1. /\ UNCHANGED <<request_id_map, inflight, next_id, sent>>
        /\ DOMAIN pending_requests' = DOMAIN pending_requests \ {root}
        /\ \A r \in DOMAIN pending_requests' : pending_requests'[r] = pending_requests[r]
    BY <1>1, <1>5 DEF handle_retry_block_fetch, Without
  <2>2. TypeOK'
    BY <1>2, <1>3, <2>1 DEF IInv, TypeOK
  <2>3. OneOutstanding'
    BY <1>1, <1>2, <2>1 DEF IInv, TypeOK, OneOutstanding, pending
  <2>4. AttemptsCountSends'
    BY <1>2, <2>1 DEF IInv, TypeOK, AttemptsCountSends
  <2> QED
    BY <2>2, <2>3, <2>4 DEF IInv
<1> QED
  BY <1>4, <1>5

-----------------------------------------------------------------------------
(***************************************************************************)
(* The end of a request.  It was the only one of its root and no timer is  *)
(* running, so a failure may start one, and giving up leaves nothing.      *)
(***************************************************************************)
LEMMA FailurePreserves ==
    ASSUME IInv, NEW id \in DOMAIN inflight,
           inflight' = Without(inflight, id),
           handle_fetch_failure(inflight[id].root, inflight[id].peer),
           DOMAIN request_id_map \ {id} \subseteq DOMAIN request_id_map',
           DOMAIN request_id_map' \subseteq DOMAIN request_id_map,
           \A i \in DOMAIN request_id_map' : request_id_map'[i] = request_id_map[i],
           UNCHANGED <<connected_peers, forwarded, next_id, sent, calls, churn>>
    PROVE  IInv'
<1> DEFINE root == inflight[id].root
           peer == inflight[id].peer
<1>1. /\ root \in Roots /\ peer \in Peers
      /\ pending(root)
      /\ retries[root] = 0
      /\ \A i \in DOMAIN inflight \ {id} : inflight[i].root # root
  BY DEF IInv, OneOutstanding, TypeOK
<1>2. /\ DOMAIN inflight' = DOMAIN inflight \ {id}
      /\ \A i \in DOMAIN inflight' : inflight'[i] = inflight[i]
  BY DEF Without
<1>3. handle_fetch_failure(root, peer)
  OBVIOUS
<1> HIDE DEF root, peer
<1>4. /\ pending_requests[root].attempts \in 1 .. MAX_FETCH_RETRIES
      /\ pending_requests[root].attempts = sent[root]
      /\ pending_requests[root].failed_peers \subseteq Peers
      /\ sent[root] \in Nat
  BY <1>1 DEF IInv, TypeOK, AttemptsCountSends, pending
<1>5. CASE gives_up(pending_requests[root].attempts)
  <2>1. /\ UNCHANGED retries
        /\ DOMAIN pending_requests' = DOMAIN pending_requests \ {root}
        /\ \A r \in DOMAIN pending_requests' : pending_requests'[r] = pending_requests[r]
    BY <1>1, <1>3, <1>5 DEF handle_fetch_failure, Without
  <2>2. TypeOK'
    BY <1>2, <2>1 DEF IInv, TypeOK
  <2>3. OneOutstanding'
    BY <1>1, <1>2, <2>1 DEF IInv, TypeOK, OneOutstanding, pending
  <2>4. AttemptsCountSends'
    BY <2>1 DEF IInv, TypeOK, AttemptsCountSends
  <2> QED
    BY <2>2, <2>3, <2>4 DEF IInv
<1>6. CASE ~gives_up(pending_requests[root].attempts)
  <2>1. /\ DOMAIN pending_requests' = DOMAIN pending_requests
        /\ pending_requests'[root].attempts = pending_requests[root].attempts + 1
        /\ pending_requests'[root].failed_peers = pending_requests[root].failed_peers \cup {peer}
        /\ \A r \in DOMAIN pending_requests : r # root => pending_requests'[r] = pending_requests[r]
    <3> DEFINE entry == [attempts |-> pending_requests[root].attempts + 1,
                         failed_peers |-> pending_requests[root].failed_peers \cup {peer}]
    <3>1. pending_requests' = Put(pending_requests, root, entry)
      BY <1>1, <1>3, <1>6 DEF handle_fetch_failure
    <3>2. /\ entry.attempts = pending_requests[root].attempts + 1
          /\ entry.failed_peers = pending_requests[root].failed_peers \cup {peer}
      OBVIOUS
    <3> HIDE DEF entry
    <3> QED
      BY <1>1, <3>1, <3>2 DEF Put, pending
  <2>2. /\ retries' \in [Roots -> Nat]
        /\ retries'[root] = 1
        /\ \A r \in Roots \ {root} : retries'[r] = retries[r]
    BY <1>1, <1>3, <1>6 DEF handle_fetch_failure, IInv, TypeOK
  <2>3. /\ pending_requests'[root].attempts \in 1 .. MAX_FETCH_RETRIES
        /\ pending_requests'[root].attempts = sent[root] + retries'[root]
        /\ sent[root] <= MAX_FETCH_RETRIES
    BY <1>4, <1>6, <2>1, <2>2, RetriesAssumption DEF gives_up
  <2>4. TypeOK'
    BY <1>1, <1>2, <1>4, <2>1, <2>2, <2>3 DEF IInv, TypeOK
  <2>5. OneOutstanding'
    BY <1>1, <1>2, <2>1, <2>2 DEF IInv, TypeOK, OneOutstanding, pending
  <2>6. AttemptsCountSends'
    BY <1>1, <2>1, <2>2, <2>3 DEF IInv, TypeOK, AttemptsCountSends
  <2> QED
    BY <2>4, <2>5, <2>6 DEF IInv
<1> QED
  BY <1>5, <1>6

\* Handler of an answer: a failure, a delivery, or blocks nobody asked for.
LEMMA ResponsePreserves ==
    ASSUME IInv, NEW id \in DOMAIN inflight, NEW blocks,
           handle_blocks_by_root_response(id, blocks)
    PROVE  IInv'
<1> DEFINE root == inflight[id].root
<1>1. /\ root \in Roots
      /\ request_id_map[id] = root
      /\ \A i \in DOMAIN inflight \ {id} : inflight[i].root # root
      /\ retries[root] = 0
  BY DEF IInv, OneOutstanding, TypeOK
<1>2. /\ inflight' = Without(inflight, id)
      /\ UNCHANGED <<connected_peers, next_id, sent, calls, churn>>
  BY DEF handle_blocks_by_root_response
<1>3. CASE blocks = {}
  <2>1. /\ handle_fetch_failure(root, inflight[id].peer)
        /\ UNCHANGED <<request_id_map, forwarded>>
    BY <1>1, <1>3 DEF handle_blocks_by_root_response
  <2> QED
    BY <1>2, <2>1, FailurePreserves
<1>4. CASE blocks # {}
  <2>1. /\ DOMAIN inflight' = DOMAIN inflight \ {id}
        /\ \A i \in DOMAIN inflight' : inflight'[i] = inflight[i]
    BY <1>2 DEF Without
  <2>2. /\ DOMAIN request_id_map' = DOMAIN request_id_map \ {id}
        /\ \A i \in DOMAIN request_id_map' : request_id_map'[i] = request_id_map[i]
        /\ UNCHANGED retries
    BY <1>4 DEF handle_blocks_by_root_response, Without
  <2>3. /\ forwarded' \subseteq Roots
        /\ DOMAIN pending_requests' \in {DOMAIN pending_requests, DOMAIN pending_requests \ {root}}
        /\ \A r \in DOMAIN pending_requests' : pending_requests'[r] = pending_requests[r]
    BY <1>1, <1>4 DEF handle_blocks_by_root_response, Without, IInv, TypeOK
  <2> HIDE DEF root
  <2>4. TypeOK'
    BY <1>2, <2>1, <2>2, <2>3 DEF IInv, TypeOK
  <2>5. OneOutstanding'
    BY <1>1, <2>1, <2>2, <2>3 DEF IInv, TypeOK, OneOutstanding, pending
  <2>6. AttemptsCountSends'
    BY <1>2, <2>2, <2>3 DEF IInv, TypeOK, AttemptsCountSends
  <2> QED
    BY <2>4, <2>5, <2>6 DEF IInv
<1> QED
  BY <1>3, <1>4

\* A failed request: the same as an answer without blocks, with its id forgotten.
LEMMA OutboundFailurePreserves ==
    ASSUME IInv, NEW id \in DOMAIN inflight, OutboundFailure(id)
    PROVE  IInv'
<1>1. /\ inflight' = Without(inflight, id)
      /\ UNCHANGED <<connected_peers, forwarded, next_id, sent, calls, churn>>
      /\ handle_fetch_failure(inflight[id].root, inflight[id].peer)
  BY DEF OutboundFailure, IInv, OneOutstanding
<1>2. /\ DOMAIN request_id_map' = DOMAIN request_id_map \ {id}
      /\ \A i \in DOMAIN request_id_map' : request_id_map'[i] = request_id_map[i]
  BY DEF OutboundFailure, Without
<1> QED
  BY <1>1, <1>2, FailurePreserves

-----------------------------------------------------------------------------
\* Every handler of the actor, and every connection change, keeps the invariant.
LEMMA StepPreserves == IInv /\ [Next]_vars => IInv'
<1> SUFFICES ASSUME IInv, [Next]_vars PROVE IInv'
  OBVIOUS
<1>1. CASE UNCHANGED vars
  BY <1>1 DEF vars, tracking, IInv, TypeOK, OneOutstanding, AttemptsCountSends, pending
<1>2. CASE \E root \in Roots : FetchBlock(root)
  BY <1>2, FetchBlockPreserves
<1>3. CASE \E root \in Roots : handle_retry_block_fetch(root)
  BY <1>3, RetryPreserves
<1>4. CASE \E id \in DOMAIN inflight : Response(id)
  BY <1>4, ResponsePreserves DEF Response
<1>5. CASE \E id \in DOMAIN inflight : OutboundFailure(id)
  BY <1>5, OutboundFailurePreserves
<1>6. CASE \E peer \in Peers : ConnectionEstablished(peer) \/ ConnectionClosed(peer)
  <2>1. /\ connected_peers' \subseteq Peers
        /\ churn' \in 0 .. MaxChurn
        /\ UNCHANGED <<pending_requests, request_id_map, inflight, next_id, retries, sent,
                       forwarded, calls>>
    BY <1>6, BoundsAssumption
       DEF ConnectionEstablished, ConnectionClosed, tracking, IInv, TypeOK
  <2> QED
    BY <2>1 DEF IInv, TypeOK, OneOutstanding, AttemptsCountSends, pending
<1> QED
  BY <1>1, <1>2, <1>3, <1>4, <1>5, <1>6 DEF Next

(***************************************************************************)
(* For every set of peers and roots, every behaviour of the peers and any  *)
(* retry limit, the bookkeeping of the P2P actor is well formed, a root    *)
(* has at most one request or timer under way, and attempts are counted    *)
(* exactly.  TypeOK alone is not inductive: that attempts stay within the  *)
(* limit rests on AttemptsCountSends, which rests on OneOutstanding.       *)
(***************************************************************************)
THEOREM Invariance == Spec => []IInv
  BY InitIInv, StepPreserves, PTL DEF Spec

\* P2PServer's maps stay well formed, and attempts within MAX_FETCH_RETRIES.
THEOREM TypeCorrect == Spec => []TypeOK
<1>1. IInv => TypeOK
  BY DEF IInv
<1> QED
  BY <1>1, Invariance, PTL

\* No retry ever races an answer: one request or one timer per pending root.
THEOREM OneOutstandingTheorem == Spec => []OneOutstanding
<1>1. IInv => OneOutstanding
  BY DEF IInv
<1> QED
  BY <1>1, Invariance, PTL

\* The attempts of an entry are the requests sent for it, at most
\* MAX_FETCH_RETRIES of them.
THEOREM AttemptsTheorem == Spec => []AttemptsCountSends
<1>1. IInv => AttemptsCountSends
  BY DEF IInv
<1> QED
  BY <1>1, Invariance, PTL

-----------------------------------------------------------------------------
\* What a request sent for a root means to the blockchain actor: a fetch of it
\* began, or goes on.
LEMMA SendStarts ==
    ASSUME NEW root \in Roots, fetch_block_from_peer(root), UNCHANGED forwarded
    PROVE  [Service!Next]_Service!vars
<1>1. DOMAIN pending_requests' = DOMAIN pending_requests \cup {root}
  BY DEF fetch_block_from_peer, Put
<1>2. CASE root \in DOMAIN pending_requests
  BY <1>1, <1>2 DEF Service!vars
<1>3. CASE root \notin DOMAIN pending_requests
  <2>1. Service!Start(root)
    BY <1>1, <1>3 DEF Service!Start
  <2> QED
    BY <2>1 DEF Service!Next
<1> QED
  BY <1>2, <1>3

\* ... an attempt that failed: nothing, or the fetch is given up.
LEMMA FailureGivesUp ==
    ASSUME NEW root \in Roots, NEW peer, handle_fetch_failure(root, peer), UNCHANGED forwarded
    PROVE  [Service!Next]_Service!vars
<1>1. CASE ~pending(root)
  BY <1>1 DEF handle_fetch_failure, Service!vars
<1>2. CASE pending(root) /\ gives_up(pending_requests[root].attempts)
  <2>1. DOMAIN pending_requests' = DOMAIN pending_requests \ {root}
    BY <1>2 DEF handle_fetch_failure, Without
  <2>2. Service!GiveUp(root)
    BY <1>2, <2>1 DEF Service!GiveUp, pending
  <2> QED
    BY <2>2 DEF Service!Next
<1>3. CASE pending(root) /\ ~gives_up(pending_requests[root].attempts)
  <2>1. DOMAIN pending_requests' = DOMAIN pending_requests
    BY ZenonT(30), <1>3 DEF handle_fetch_failure, Put, pending
  <2> QED
    BY <2>1 DEF Service!vars
<1> QED
  BY <1>1, <1>2, <1>3

\* ... and an answer: the delivery of what was asked for, which OneOutstanding
\* says is still being fetched, or a failure, or nothing.
LEMMA ResponseDelivers ==
    ASSUME IInv, NEW id \in DOMAIN inflight, NEW blocks,
           handle_blocks_by_root_response(id, blocks)
    PROVE  [Service!Next]_Service!vars
<1> DEFINE root == inflight[id].root
<1>1. root \in Roots /\ request_id_map[id] = root /\ pending(root)
  BY DEF IInv, OneOutstanding, TypeOK
<1>2. CASE blocks = {}
  <2>1. handle_fetch_failure(root, inflight[id].peer) /\ UNCHANGED forwarded
    BY <1>1, <1>2 DEF handle_blocks_by_root_response
  <2> QED
    BY <1>1, <2>1, FailureGivesUp
<1>3. CASE blocks # {} /\ root \in blocks
  <2>1. /\ DOMAIN pending_requests' = DOMAIN pending_requests \ {root}
        /\ forwarded' = forwarded \cup {root}
    BY <1>1, <1>3 DEF handle_blocks_by_root_response, Without
  <2>2. Service!Deliver(root)
    BY <1>1, <2>1 DEF Service!Deliver, pending
  <2> QED
    BY <1>1, <2>2 DEF Service!Next
<1>4. CASE blocks # {} /\ root \notin blocks
  BY <1>1, <1>4 DEF handle_blocks_by_root_response, Service!vars
<1> QED
  BY <1>2, <1>3, <1>4

\* Every step of the P2P actor is a step of the service or changes nothing in it.
LEMMA StepServes == IInv /\ [Next]_vars => [Service!Next]_Service!vars
<1> SUFFICES ASSUME IInv, [Next]_vars PROVE [Service!Next]_Service!vars
  OBVIOUS
<1>1. CASE UNCHANGED vars
  BY <1>1 DEF vars, tracking, Service!vars
<1>2. ASSUME NEW root \in Roots, FetchBlock(root) PROVE [Service!Next]_Service!vars
  <2>1. CASE ~pending(root) /\ connected_peers # {}
    BY <1>2, <2>1, SendStarts DEF FetchBlock
  <2>2. CASE ~(~pending(root) /\ connected_peers # {})
    BY <1>2, <2>2 DEF FetchBlock, tracking, Service!vars
  <2> QED
    BY <2>1, <2>2
<1>3. ASSUME NEW root \in Roots, handle_retry_block_fetch(root)
      PROVE  [Service!Next]_Service!vars
  <2>1. CASE pending(root) /\ connected_peers # {}
    BY <1>3, <2>1, SendStarts DEF handle_retry_block_fetch
  <2>2. CASE pending(root) /\ connected_peers = {}
    <3>1. /\ DOMAIN pending_requests' = DOMAIN pending_requests \ {root}
          /\ UNCHANGED forwarded
      BY <1>3, <2>2 DEF handle_retry_block_fetch, Without
    <3>2. Service!GiveUp(root)
      BY <2>2, <3>1 DEF Service!GiveUp, pending
    <3> QED
      BY <3>2 DEF Service!Next
  <2>3. CASE ~pending(root)
    BY <1>3, <2>3 DEF handle_retry_block_fetch, Service!vars
  <2> QED
    BY <2>1, <2>2, <2>3
<1>4. ASSUME NEW id \in DOMAIN inflight, Response(id) PROVE [Service!Next]_Service!vars
  BY <1>4, ResponseDelivers DEF Response
<1>5. ASSUME NEW id \in DOMAIN inflight, OutboundFailure(id)
      PROVE  [Service!Next]_Service!vars
  <2>1. inflight[id].root \in Roots /\ request_id_map[id] = inflight[id].root
    BY DEF IInv, OneOutstanding, TypeOK
  <2>2. /\ handle_fetch_failure(inflight[id].root, inflight[id].peer)
        /\ UNCHANGED forwarded
    BY <1>5, <2>1 DEF OutboundFailure
  <2> QED
    BY <2>1, <2>2, FailureGivesUp
<1>6. CASE \E peer \in Peers : ConnectionEstablished(peer) \/ ConnectionClosed(peer)
  BY <1>6 DEF ConnectionEstablished, ConnectionClosed, tracking, Service!vars
<1> QED
  BY <1>1, <1>2, <1>3, <1>4, <1>5, <1>6 DEF Next

(***************************************************************************)
(* The fetcher implements the service that BlockSync relies on, whatever   *)
(* the peers answer and however the connections change: in particular a    *)
(* late or repeated answer never hands a block over twice for one fetch.   *)
(***************************************************************************)
THEOREM ServiceRefinement == Spec => ImplementsFetchService
<1>1. Init => Service!Init
  BY DEF Init, EmptyMap, Service!Init
<1> QED
  BY <1>1, StepServes, Invariance, PTL DEF Spec, Service!Spec, ImplementsFetchService

-----------------------------------------------------------------------------
(***************************************************************************)
(* SwarmAdapter implements BlockFetch.  The inductive invariant says where *)
(* the id of a request is: recorded in request_id_map, or with the handler *)
(* that has not resumed yet.                                               *)
(***************************************************************************)
Requests == [root : Roots, peer : Peers]

Known(i, root) ==
    \/ i \in DOMAIN request_id_map /\ request_id_map[i] = root
    \/ handler.awaits = "resume" /\ handler.id = i /\ handler.root = root

Outcome(e) ==
    /\ e.root \in Roots /\ e.peer \in Peers
    /\ \/ e.result = Failed
       \/ \E blocks \in Answers[e.peer][e.root] : e.result = Success(blocks)

HandlerOK ==
    \/ handler = Idle
    \/ handler = Status
    \/ \E r \in Roots, p \in Peers : handler = Queued(r, p)
    \/ \E r \in Roots, i \in 0 .. next_id - 1 : handler = Replied(r, i)

\* The id a handler comes back with is new.
FreshId ==
    /\ DOMAIN request_id_map \subseteq 0 .. next_id - 1
    /\ handler.awaits = "resume" => handler.id \notin DOMAIN request_id_map

SwarmInv ==
    /\ next_id \in Nat
    /\ connected_peers \subseteq Peers
    /\ DOMAIN inflight \subseteq 0 .. next_id - 1
    /\ DOMAIN events \subseteq 0 .. next_id - 1
    /\ DOMAIN inflight \cap DOMAIN events = {}
    /\ \A i \in DOMAIN inflight : inflight[i] \in Requests /\ Known(i, inflight[i].root)
    /\ \A i \in DOMAIN events : Outcome(events[i]) /\ Known(i, events[i].root)
    /\ HandlerOK
    /\ FreshId

\* The handler's states are told apart by what they await.
LEMMA HandlerFacts ==
    /\ Idle.awaits = "nothing"
    /\ Status.awaits = "status"
    /\ \A r, p : /\ Queued(r, p).awaits = "id"
                 /\ Queued(r, p).root = r
                 /\ Queued(r, p).peer = p
    /\ \A r, i : /\ Replied(r, i).awaits = "resume"
                 /\ Replied(r, i).root = r
                 /\ Replied(r, i).id = i
  BY DEF Idle, Status, Queued, Replied

\* BlockFetch's maps are this module's.
LEMMA SameMaps ==
    /\ Fetch!EmptyMap = EmptyMap
    /\ \A f, k, v : Fetch!Put(f, k, v) = Put(f, k, v)
    /\ \A f, k : Fetch!Without(f, k) = Without(f, k)
  BY DEF EmptyMap, Put, Without, Fetch!EmptyMap, Fetch!Put, Fetch!Without

LEMMA PoolConnected == ASSUME NEW r PROVE pool(r) \subseteq connected_peers
  BY DEF pool

-----------------------------------------------------------------------------
LEMMA SwarmInvInit == SwarmInit => SwarmInv
<1> SUFFICES ASSUME SwarmInit PROVE SwarmInv
  OBVIOUS
<1>1. /\ next_id = 0 /\ connected_peers \in SUBSET Peers
      /\ inflight = EmptyMap /\ events = EmptyMap /\ request_id_map = EmptyMap
      /\ handler = Idle
  BY SameMaps DEF SwarmInit, Init
<1>2. DOMAIN EmptyMap = {}
  BY DEF EmptyMap
<1> QED BY <1>1, <1>2, HandlerFacts DEF SwarmInv, HandlerOK, FreshId

\* Steps that leave the requests alone.
LEMMA SwarmInvFrame ==
    ASSUME SwarmInv, UNCHANGED <<inflight, events, next_id>>, HandlerOK', FreshId',
           connected_peers' \subseteq Peers,
           \A i, r : Known(i, r) => Known(i, r)'
    PROVE  SwarmInv'
<1>1. \A i : Outcome(events[i]) => Outcome(events[i])'
  BY DEF Outcome
<1> QED BY <1>1 DEF SwarmInv

LEMMA SendRequestSwarmInv ==
    ASSUME SwarmInv, NEW r \in Roots, handler = Idle, send_request(r),
           UNCHANGED <<connected_peers, request_id_map, inflight, events, next_id>>
    PROVE  SwarmInv'
<1>1. PICK p \in pool(r) : handler' = Queued(r, p)
  BY ZenonT(30) DEF send_request
<1>2. HandlerOK'
  BY <1>1, PoolConnected DEF HandlerOK, SwarmInv
<1>3. \A i, q : Known(i, q) => Known(i, q)'
  BY ZenonT(30), HandlerFacts DEF Known
<1>4. FreshId'
  BY <1>1, HandlerFacts DEF SwarmInv, FreshId
<1> QED BY <1>2, <1>3, <1>4, SwarmInvFrame DEF SwarmInv

\* What the handler awaits tells what it is.
LEMMA HandlerKinds ==
    ASSUME SwarmInv
    PROVE  /\ handler.awaits = "id" => \E r \in Roots, p \in Peers : handler = Queued(r, p)
           /\ handler.awaits = "resume" =>
                  \E r \in Roots, id \in 0 .. next_id - 1 : handler = Replied(r, id)
           /\ handler.awaits = "status" => handler = Status
<1>1. HandlerOK
  BY DEF SwarmInv
<1> QED BY <1>1, HandlerFacts DEF HandlerOK

\* The adapter takes the request the handler waits to have named.
LEMMA ExecuteFacts ==
    ASSUME SwarmInv, execute_block_request
    PROVE  \E r \in Roots, p \in Peers :
               /\ handler = Queued(r, p)
               /\ inflight' = Put(inflight, next_id, [root |-> r, peer |-> p])
               /\ handler' = Replied(r, next_id)
               /\ next_id' = next_id + 1
               /\ UNCHANGED <<events, connected_peers, pending_requests, request_id_map>>
<1>1. PICK r \in Roots, p \in Peers : handler = Queued(r, p)
  BY HandlerKinds DEF execute_block_request
<1>2. handler.root = r /\ handler.peer = p
  BY <1>1, HandlerFacts
<1> QED BY <1>1, <1>2 DEF execute_block_request, actor

LEMMA SwarmInvStep == SwarmInv /\ [SwarmNext]_SwarmVars => SwarmInv'
<1> SUFFICES ASSUME SwarmInv, [SwarmNext]_SwarmVars PROVE SwarmInv'
  OBVIOUS
<1>0. ASSUME UNCHANGED <<connected_peers, request_id_map, handler, inflight, events, next_id>>
      PROVE  SwarmInv'
  <2>1. HandlerOK' /\ FreshId' /\ \A i, q : Known(i, q) => Known(i, q)'
    BY <1>0 DEF SwarmInv, HandlerOK, FreshId, Known
  <2> QED BY ZenonT(30), <1>0, <2>1, SwarmInvFrame DEF SwarmInv
<1>1. ASSUME NEW r \in Roots, HandleFetchBlock(r)
      PROVE  SwarmInv'
  BY <1>0, <1>1, SendRequestSwarmInv DEF HandleFetchBlock
<1>2. ASSUME NEW r \in Roots, HandleRetryBlockFetch(r)
      PROVE  SwarmInv'
  BY ZenonT(30), <1>0, <1>2, SendRequestSwarmInv DEF HandleRetryBlockFetch
<1>3. CASE Resume
  <2>1. HandlerOK'
    BY <1>3 DEF Resume, HandlerOK
  <2>2. ASSUME NEW i, NEW q, Known(i, q) PROVE Known(i, q)'
    BY <1>3, <2>2, HandlerFacts DEF Put, Resume, Known, SwarmInv, FreshId
  <2>3. FreshId'
    <3>1. PICK r \in Roots, i \in 0 .. next_id - 1 : handler = Replied(r, i)
      BY <1>3, HandlerKinds DEF Resume
    <3>2. handler.id \in 0 .. next_id - 1
      BY <3>1, HandlerFacts
    <3> QED BY ZenonT(30), <1>3, <3>2, HandlerFacts DEF Resume, SwarmInv, FreshId, Put
  <2> QED BY ZenonT(30), <1>3, <2>1, <2>2, <2>3, SwarmInvFrame DEF Resume, SwarmInv
<1>4. ASSUME NEW id \in DOMAIN events, ReceiveOutcome(id)
      PROVE  SwarmInv'
  <2>1. /\ handler = Idle /\ events' = Without(events, id)
        /\ UNCHANGED <<connected_peers, handler, inflight, next_id>>
        /\ request_id_map' = request_id_map \/ request_id_map' = Without(request_id_map, id)
    BY <1>4 DEF ReceiveOutcome
  <2>2. ASSUME NEW i, NEW q, i # id, Known(i, q) PROVE Known(i, q)'
    BY <2>1, <2>2 DEF Put, Without, Known
  <2>3. \A i \in DOMAIN inflight : i # id
    BY DEF SwarmInv
  <2>4. \A i \in DOMAIN events' : i \in DOMAIN events /\ i # id /\ events'[i] = events[i]
    BY <2>1 DEF Put, Without
  <2>5. \A i \in DOMAIN events' : Outcome(events[i])' /\ Known(i, events[i].root)'
    BY ZenonT(30), <2>2, <2>4 DEF SwarmInv, Outcome
  <2>6. \A i \in DOMAIN inflight' : inflight'[i] \in Requests /\ Known(i, inflight[i].root)'
    BY <2>1, <2>2, <2>3 DEF SwarmInv
  <2>7. HandlerOK'
    BY <2>1 DEF HandlerOK
  <2>8. /\ DOMAIN events' \subseteq 0 .. next_id' - 1
        /\ DOMAIN inflight' \cap DOMAIN events' = {}
    BY <2>1, <2>4 DEF SwarmInv
  <2>9. FreshId'
    BY ZenonT(30), <2>1, HandlerFacts DEF SwarmInv, FreshId, Without
  <2> QED BY <2>1, <2>5, <2>6, <2>7, <2>8, <2>9 DEF SwarmInv
<1>5. ASSUME NEW p \in Peers, HandleConnectionEstablished(p)
      PROVE  SwarmInv'
  <2>1. HandlerOK'
    BY ZenonT(30), <1>5 DEF HandleConnectionEstablished, HandlerOK
  <2>2. \A i, q : Known(i, q) => Known(i, q)'
    BY <1>5, HandlerFacts DEF HandleConnectionEstablished, Known
  <2>3. FreshId'
    BY ZenonT(30), <1>5, HandlerFacts DEF HandleConnectionEstablished, SwarmInv, FreshId
  <2> QED BY <1>5, <2>1, <2>2, <2>3, SwarmInvFrame DEF HandleConnectionEstablished, SwarmInv
<1>6. ASSUME NEW p \in Peers, HandleConnectionClosed(p)
      PROVE  SwarmInv'
  <2>1. HandlerOK' /\ FreshId' /\ \A i, q : Known(i, q) => Known(i, q)'
    BY ZenonT(30), <1>6 DEF HandleConnectionClosed, SwarmInv, HandlerOK, FreshId, Known
  <2> QED BY ZenonT(30), <1>6, <2>1, SwarmInvFrame DEF HandleConnectionClosed, SwarmInv
<1>7. CASE execute_block_request
  <2>1. PICK r \in Roots, p \in Peers :
            /\ handler = Queued(r, p)
            /\ inflight' = Put(inflight, next_id, [root |-> r, peer |-> p])
            /\ handler' = Replied(r, next_id)
            /\ next_id' = next_id + 1
            /\ UNCHANGED <<events, connected_peers, pending_requests, request_id_map>>
    BY <1>7, ExecuteFacts
  <2>2. /\ inflight' = Put(inflight, next_id, [root |-> r, peer |-> p])
        /\ handler' = Replied(r, next_id)
        /\ next_id' = next_id + 1
        /\ UNCHANGED <<events, connected_peers, request_id_map>>
    BY ZenonT(30), <2>1
  <2>3. next_id \in Nat /\ next_id \in 0 .. next_id' - 1 /\ next_id \notin 0 .. next_id - 1
    BY <2>2 DEF SwarmInv
  <2>4. 0 .. next_id - 1 \subseteq 0 .. next_id' - 1
    BY <2>2, <2>3
  <2>5. HandlerOK'
    BY <2>2, <2>3 DEF HandlerOK
  <2>6. ASSUME NEW i, NEW q, Known(i, q) PROVE Known(i, q)'
    BY ZenonT(30), <2>1, <2>2, <2>6, HandlerFacts DEF Known
  <2>7. \A i \in DOMAIN events' : Outcome(events[i])' /\ Known(i, events[i].root)'
    BY ZenonT(30), <2>2, <2>6 DEF SwarmInv, Outcome
  <2>8. \A i : i = next_id => Known(i, r)'
    BY <2>2, HandlerFacts DEF Known
  <2>9. ASSUME NEW i \in DOMAIN inflight'
        PROVE  inflight'[i] \in Requests /\ Known(i, inflight[i].root)'
    <3>1. CASE i = next_id
      BY <2>2, <2>8, <3>1 DEF Put, Without, Requests
    <3>2. CASE i # next_id
      <4>1. i \in DOMAIN inflight /\ inflight'[i] = inflight[i]
        BY ZenonT(30), <2>2, <3>2 DEF Put, Without
      <4> QED BY <2>6, <4>1 DEF SwarmInv
    <3> QED BY <3>1, <3>2
  <2>10. /\ DOMAIN inflight' \subseteq 0 .. next_id' - 1
         /\ DOMAIN events' \subseteq 0 .. next_id' - 1
         /\ DOMAIN inflight' \cap DOMAIN events' = {}
    BY ZenonT(30), <2>2, <2>3, <2>4 DEF Put, Without, SwarmInv
  <2>11. FreshId'
    <3>1. DOMAIN request_id_map \subseteq 0 .. next_id - 1
      BY ZenonT(30) DEF SwarmInv, FreshId
    <3>2. handler'.id = next_id
      BY <2>2 DEF Replied
    <3> QED BY ZenonT(30), <2>2, <2>3, <2>4, <3>1, <3>2 DEF FreshId
  <2> QED BY <2>2, <2>3, <2>5, <2>7, <2>9, <2>10, <2>11 DEF SwarmInv
<1>8. CASE execute_status_request
  <2>1. HandlerOK'
    BY <1>8 DEF execute_status_request, HandlerOK
  <2>2. \A i, q : Known(i, q) => Known(i, q)'
    BY <1>8, HandlerFacts DEF execute_status_request, Known, actor
  <2>3. FreshId'
    BY ZenonT(30), <1>8, HandlerFacts DEF execute_status_request, SwarmInv, FreshId, actor
  <2> QED BY <1>8, <2>1, <2>2, <2>3, SwarmInvFrame DEF execute_status_request, SwarmInv, actor
<1>9. ASSUME NEW id \in DOMAIN inflight, SwarmEvent(id)
      PROVE  SwarmInv'
  <2> DEFINE request == inflight[id]
  <2>1. PICK result : /\ \/ result = Failed
                         \/ \E blocks \in Answers[request.peer][request.root] :
                                result = Success(blocks)
                      /\ events' = Put(events, id, [root |-> request.root, peer |-> request.peer,
                                                    result |-> result])
    BY ZenonT(30), <1>9 DEF SwarmEvent
  <2>2. /\ inflight' = Without(inflight, id)
        /\ UNCHANGED <<connected_peers, request_id_map, handler, next_id>>
    BY <1>9 DEF SwarmEvent, actor
  <2>3. /\ request \in Requests /\ request.root \in Roots /\ request.peer \in Peers
        /\ Known(id, request.root) /\ id \in 0 .. next_id - 1
    BY DEF SwarmInv, Requests
  <2>4. ASSUME NEW i, NEW q, Known(i, q) PROVE Known(i, q)'
    BY <2>2, <2>4 DEF Known
  <2>5. ASSUME NEW i \in DOMAIN events'
        PROVE  Outcome(events[i])' /\ Known(i, events[i].root)'
    <3>1. CASE i = id
      <4>1. events'[i] = [root |-> request.root, peer |-> request.peer, result |-> result]
        BY <2>1, <3>1 DEF Put, Without
      <4>2. events'[i].root = request.root /\ events'[i].peer = request.peer
            /\ events'[i].result = result
        BY <4>1
      <4> HIDE DEF request
      <4> QED BY ZenonT(30), <2>1, <2>3, <2>4, <3>1, <4>2 DEF Outcome
    <3>2. CASE i # id
      <4>1. i \in DOMAIN events /\ events'[i] = events[i]
        BY <2>1, <3>2 DEF Put, Without
      <4> QED BY ZenonT(30), <2>4, <4>1 DEF SwarmInv, Outcome
    <3> QED BY ZenonT(30), <3>1, <3>2
  <2>6. \A i \in DOMAIN inflight' : i \in DOMAIN inflight /\ i # id /\ inflight'[i] = inflight[i]
    BY <2>2 DEF Put, Without
  <2>7. \A i \in DOMAIN inflight' : inflight'[i] \in Requests /\ Known(i, inflight[i].root)'
    BY <2>4, <2>6 DEF SwarmInv
  <2>8. DOMAIN events' = DOMAIN events \cup {id}
    BY ZenonT(30), <2>1 DEF Put, Without
  <2>9. /\ DOMAIN inflight' \subseteq 0 .. next_id' - 1
        /\ DOMAIN events' \subseteq 0 .. next_id' - 1
        /\ DOMAIN inflight' \cap DOMAIN events' = {}
    BY ZenonT(30), <2>2, <2>3, <2>6, <2>8 DEF SwarmInv
  <2>10. HandlerOK' /\ FreshId'
    BY <2>2 DEF SwarmInv, HandlerOK, FreshId
  <2> QED BY <2>2, <2>5, <2>7, <2>9, <2>10 DEF SwarmInv
<1>10. CASE UNCHANGED SwarmVars
  BY <1>0, <1>10 DEF SwarmVars, actor
<1> QED BY ZenonT(30), <1>1, <1>2, <1>3, <1>4, <1>5, <1>6, <1>7, <1>8, <1>9, <1>10
        DEF SwarmNext, execute_command

-----------------------------------------------------------------------------
(***************************************************************************)
(* The refinement mapping, handler by handler                              *)
(***************************************************************************)
LEMMA AbstractIdle ==
    ASSUME handler = Idle \/ handler = Status
    PROVE  /\ abstract_pending = pending_requests
           /\ abstract_ids = request_id_map
           /\ abstract_next_id = next_id
           /\ abstract_inflight = [i \in DOMAIN inflight \cup DOMAIN events |-> request_of(i)]
<1>1. handler.awaits # "id" /\ handler.awaits # "resume"
  BY HandlerFacts
<1> QED BY <1>1 DEF abstract_pending, abstract_ids, abstract_next_id, abstract_inflight, fetching

LEMMA AbstractIdleNext ==
    ASSUME handler' = Idle \/ handler' = Status
    PROVE  /\ abstract_pending' = pending_requests'
           /\ abstract_ids' = request_id_map'
           /\ abstract_next_id' = next_id'
           /\ abstract_inflight' = [i \in DOMAIN inflight' \cup DOMAIN events' |-> request_of(i)']
<1>1. handler'.awaits # "id" /\ handler'.awaits # "resume"
  BY HandlerFacts
<1> QED BY <1>1 DEF abstract_pending, abstract_ids, abstract_next_id, abstract_inflight, fetching

LEMMA AbstractQueued ==
    ASSUME NEW r, NEW p, handler = Queued(r, p)
    PROVE  /\ abstract_pending = IF pending(r) THEN pending_requests
                                 ELSE Put(pending_requests, r, [attempts |-> 1, failed_peers |-> {}])
           /\ abstract_ids = Put(request_id_map, next_id, r)
           /\ abstract_next_id = next_id + 1
           /\ abstract_inflight =
                  [i \in DOMAIN inflight \cup DOMAIN events \cup {next_id} |-> request_of(i)]
<1>1. handler.awaits = "id" /\ handler.root = r
  BY ZenonT(30), HandlerFacts
<1> QED BY <1>1 DEF abstract_pending, abstract_ids, abstract_next_id, abstract_inflight, fetching,
                    awaited_root, awaited_id

LEMMA AbstractQueuedNext ==
    ASSUME NEW r, NEW p, handler' = Queued(r, p)
    PROVE  /\ abstract_pending' = IF pending(r)' THEN pending_requests'
                                 ELSE Put(pending_requests', r, [attempts |-> 1, failed_peers |-> {}])
           /\ abstract_ids' = Put(request_id_map', next_id', r)
           /\ abstract_next_id' = next_id' + 1
           /\ abstract_inflight' =
                  [i \in DOMAIN inflight' \cup DOMAIN events' \cup {next_id'} |-> request_of(i)']
<1>1. handler'.awaits = "id" /\ handler'.root = r
  BY HandlerFacts
<1> QED BY <1>1 DEF abstract_pending, abstract_ids, abstract_next_id, abstract_inflight, fetching,
                    awaited_root, awaited_id

LEMMA AbstractReplied ==
    ASSUME NEW r, NEW id, handler = Replied(r, id)
    PROVE  /\ abstract_pending = IF pending(r) THEN pending_requests
                                 ELSE Put(pending_requests, r, [attempts |-> 1, failed_peers |-> {}])
           /\ abstract_ids = Put(request_id_map, id, r)
           /\ abstract_next_id = next_id
           /\ abstract_inflight = [i \in DOMAIN inflight \cup DOMAIN events |-> request_of(i)]
<1>1. handler.awaits = "resume" /\ handler.root = r /\ handler.id = id
  BY HandlerFacts
<1> QED BY <1>1 DEF abstract_pending, abstract_ids, abstract_next_id, abstract_inflight, fetching,
                    awaited_root, awaited_id

LEMMA AbstractRepliedNext ==
    ASSUME NEW r, NEW id, handler' = Replied(r, id)
    PROVE  /\ abstract_pending' = IF pending(r)' THEN pending_requests'
                                 ELSE Put(pending_requests', r, [attempts |-> 1, failed_peers |-> {}])
           /\ abstract_ids' = Put(request_id_map', id, r)
           /\ abstract_next_id' = next_id'
           /\ abstract_inflight' = [i \in DOMAIN inflight' \cup DOMAIN events' |-> request_of(i)']
<1>1. handler'.awaits = "resume" /\ handler'.root = r /\ handler'.id = id
  BY HandlerFacts
<1> QED BY <1>1 DEF abstract_pending, abstract_ids, abstract_next_id, abstract_inflight, fetching,
                    awaited_root, awaited_id

\* An idle actor computes what BlockFetch computes.
LEMMA SameOperators ==
    ASSUME handler = Idle, NEW r
    PROVE  /\ Fetch!pending(r) <=> pending(r)
           /\ Fetch!pool(r) = pool(r)
           /\ Fetch!tracked(r) = tracked(r)
<1>1. abstract_pending = pending_requests
  BY AbstractIdle
<1> QED BY <1>1 DEF Fetch!pending, Fetch!pool, Fetch!tracked, Fetch!exhausted, Fetch!failed_peers,
                    pending, pool, tracked, exhausted, failed_peers

LEMMA SendRequestRefines ==
    ASSUME SwarmInv, NEW r \in Roots, handler = Idle, send_request(r),
           UNCHANGED <<request_id_map, inflight, events, next_id>>
    PROVE  Fetch!fetch_block_from_peer(r)
<1>1. PICK p \in pool(r) :
          /\ handler' = Queued(r, p)
          /\ pending_requests' = IF pending(r) THEN Put(pending_requests, r, tracked(r))
                                 ELSE pending_requests
          /\ sent' = [sent EXCEPT ![r] = IF pending(r) THEN @ + 1 ELSE 1]
  BY DEF send_request
<1>2. p \in Fetch!pool(r)
  BY SameOperators
<1>3. abstract_inflight' = Fetch!Put(abstract_inflight, abstract_next_id, [root |-> r, peer |-> p])
  <2>1. abstract_inflight' =
            [i \in DOMAIN inflight \cup DOMAIN events \cup {next_id} |-> request_of(i)']
    BY <1>1, AbstractQueuedNext
  <2>2. /\ abstract_inflight = [i \in DOMAIN inflight \cup DOMAIN events |-> request_of(i)]
        /\ abstract_next_id = next_id
    BY ZenonT(30), AbstractIdle
  <2>3. next_id \notin DOMAIN inflight /\ next_id \notin DOMAIN events
    BY DEF SwarmInv
  <2>4. ASSUME NEW i, i = next_id PROVE request_of(i)' = [root |-> r, peer |-> p]
    <3>1. handler'.root = r /\ handler'.peer = p
      BY <1>1, HandlerFacts
    <3> QED BY <2>3, <2>4, <3>1 DEF request_of, awaited_root
  <2>5. \A i \in DOMAIN inflight \cup DOMAIN events : request_of(i)' = request_of(i)
    BY DEF request_of
  <2>6. abstract_inflight' = Put(abstract_inflight, next_id, [root |-> r, peer |-> p])
    BY <2>1, <2>2, <2>3, <2>4, <2>5 DEF Put
  <2> QED BY ZenonT(30), <2>2, <2>6, SameMaps
<1>4. abstract_ids' = Fetch!Put(abstract_ids, abstract_next_id, r)
  <2>1. abstract_ids' = Put(request_id_map, next_id, r)
    BY <1>1, AbstractQueuedNext
  <2> QED BY <2>1, AbstractIdle, SameMaps
<1>5. abstract_pending' = Fetch!Put(abstract_pending, r, Fetch!tracked(r))
  <2>1. abstract_pending' = IF r \in DOMAIN pending_requests' THEN pending_requests'
                            ELSE Put(pending_requests', r, [attempts |-> 1, failed_peers |-> {}])
    BY ZenonT(30), <1>1, AbstractQueuedNext DEF pending
  <2>2. CASE pending(r)
    <3>1. pending_requests' = Put(pending_requests, r, tracked(r))
      BY <1>1, <2>2
    <3>2. r \in DOMAIN pending_requests'
      BY ZenonT(30), <3>1 DEF Put
    <3> QED BY <2>1, <3>1, <3>2, SameOperators, SameMaps, AbstractIdle
  <2>3. CASE ~pending(r)
    <3>1. pending_requests' = pending_requests /\ r \notin DOMAIN pending_requests
      BY <1>1, <2>3 DEF pending
    <3>2. tracked(r) = [attempts |-> 1, failed_peers |-> {}]
      BY <2>3 DEF tracked
    <3> QED BY ZenonT(30), <2>1, <3>1, <3>2, SameOperators, SameMaps, AbstractIdle
  <2> QED BY ZenonT(30), <2>2, <2>3
<1>6. abstract_next_id' = abstract_next_id + 1
  <2>1. abstract_next_id' = next_id + 1
    BY <1>1, AbstractQueuedNext
  <2> QED BY <2>1, AbstractIdle
<1>7. sent' = [sent EXCEPT ![r] = IF Fetch!pending(r) THEN @ + 1 ELSE 1]
  BY Zenon, <1>1, SameOperators
<1> QED BY <1>2, <1>3, <1>4, <1>5, <1>6, <1>7 DEF Fetch!fetch_block_from_peer

\* Idle before and after, with nothing the mapping shows changed.
LEMMA IdleStutters ==
    ASSUME handler = Idle \/ handler = Status, handler' = Idle \/ handler' = Status,
           UNCHANGED <<pending_requests, request_id_map, inflight, events, next_id>>
    PROVE  UNCHANGED <<abstract_pending, abstract_ids, abstract_inflight, abstract_next_id>>
<1>1. /\ abstract_pending' = pending_requests' /\ abstract_ids' = request_id_map'
      /\ abstract_next_id' = next_id'
      /\ abstract_inflight' = [i \in DOMAIN inflight' \cup DOMAIN events' |-> request_of(i)']
  BY AbstractIdleNext
<1>2. \A i \in DOMAIN inflight \cup DOMAIN events : request_of(i)' = request_of(i)
  BY DEF request_of
<1> QED BY <1>1, <1>2, AbstractIdle

LEMMA FailureRefines ==
    ASSUME handler = Idle, handler' = Idle, NEW r, NEW p, handle_fetch_failure(r, p)
    PROVE  Fetch!handle_fetch_failure(r, p)
<1>1. abstract_pending = pending_requests /\ abstract_pending' = pending_requests'
  BY AbstractIdle, AbstractIdleNext
<1> QED BY <1>1, SameMaps DEF Fetch!handle_fetch_failure, handle_fetch_failure, Fetch!pending, pending,
                             Fetch!gives_up, gives_up

LEMMA ReceiveRefines ==
    ASSUME SwarmInv, NEW id \in DOMAIN events, ReceiveOutcome(id)
    PROVE  Fetch!Next
<1> DEFINE root == request_id_map[id]
           event == events[id]
<1>1. /\ handler = Idle /\ handler' = Idle /\ events' = Without(events, id)
      /\ UNCHANGED <<connected_peers, sent, calls, churn, inflight, next_id>>
  BY ZenonT(30) DEF ReceiveOutcome, bounds
<1>2. /\ id \in DOMAIN request_id_map /\ root = event.root
      /\ id \notin DOMAIN inflight
  BY ZenonT(30), <1>1, HandlerFacts DEF SwarmInv, Known
<1>3. /\ abstract_pending = pending_requests /\ abstract_pending' = pending_requests'
      /\ abstract_ids = request_id_map /\ abstract_ids' = request_id_map'
      /\ abstract_next_id' = abstract_next_id
  BY <1>1, AbstractIdle, AbstractIdleNext
<1>4. /\ id \in DOMAIN abstract_inflight
      /\ abstract_inflight[id].root = event.root /\ abstract_inflight[id].peer = event.peer
  BY <1>1, <1>2, AbstractIdle DEF request_of
<1>5. abstract_inflight' = Fetch!Without(abstract_inflight, id)
  <2>1. abstract_inflight = [i \in DOMAIN inflight \cup DOMAIN events |-> request_of(i)]
    BY <1>1, AbstractIdle
  <2>2. abstract_inflight' = [i \in DOMAIN inflight' \cup DOMAIN events' |-> request_of(i)']
    BY ZenonT(30), <1>1, AbstractIdleNext
  <2>3. DOMAIN inflight' \cup DOMAIN events' = (DOMAIN inflight \cup DOMAIN events) \ {id}
    BY ZenonT(30), <1>1, <1>2 DEF Without
  <2>4. \A i \in DOMAIN inflight' \cup DOMAIN events' : request_of(i)' = request_of(i)
    BY ZenonT(30), <1>1 DEF request_of, Without
  <2>5. abstract_inflight' = Without(abstract_inflight, id)
    BY <2>1, <2>2, <2>3, <2>4 DEF Without
  <2> QED BY ZenonT(30), <2>5, SameMaps
<1>6. CASE event.result.failed
  <2>1. /\ request_id_map' = Without(request_id_map, id)
        /\ handle_fetch_failure(root, event.peer)
        /\ UNCHANGED forwarded
    BY <1>2, <1>6 DEF ReceiveOutcome
  <2>2. Fetch!handle_fetch_failure(root, event.peer)
    BY <1>1, <2>1, FailureRefines
  <2>3. event.peer \in Peers
    BY DEF SwarmInv, Outcome
  <2> HIDE DEF root, event
  <2>4. abstract_ids[id] = root /\ abstract_ids' = Fetch!Without(abstract_ids, id)
    BY ZenonT(30), <1>3, <2>1, SameMaps DEF root
  <2>5. Fetch!OutboundFailure(id)
    BY ZenonT(30), <1>1, <1>2, <1>3, <1>4, <1>5, <2>1, <2>2, <2>3, <2>4 DEF Fetch!OutboundFailure
  <2> QED BY ZenonT(30), <1>4, <2>5 DEF Fetch!Next
<1>7. CASE ~event.result.failed
  <2>1. PICK blocks \in Answers[event.peer][event.root] : event.result = Success(blocks)
    <3>1. Outcome(event)
      BY ZenonT(30) DEF SwarmInv
    <3>2. Failed.failed = TRUE
      BY DEF Failed
    <3>3. event.result # Failed
      BY ZenonT(30), <1>7, <3>2
    <3> QED
      BY ZenonT(30), <3>1, <3>3 DEF Outcome
  <2>2. event.result.blocks = blocks
    BY <2>1 DEF Success
  <2>3. IF blocks = {}
        THEN /\ handle_fetch_failure(root, event.peer)
             /\ UNCHANGED <<request_id_map, forwarded>>
        ELSE /\ request_id_map' = Without(request_id_map, id)
             /\ IF root \in blocks
                THEN /\ pending_requests' = Without(pending_requests, root)
                     /\ forwarded' = forwarded \cup {root}
                ELSE UNCHANGED <<pending_requests, forwarded>>
             /\ UNCHANGED retries
    BY ZenonT(30), <1>2, <1>7, <2>2 DEF ReceiveOutcome
  <2>4. blocks = {} => Fetch!handle_fetch_failure(root, event.peer)
    BY ZenonT(30), <1>1, <2>3, FailureRefines
  <2> HIDE DEF root, event
  <2>5. abstract_ids[id] = root
    BY <1>3 DEF root
  <2>6. Fetch!handle_blocks_by_root_response(id, blocks)
    <3>1. CASE blocks = {}
      BY <1>1, <1>2, <1>3, <1>4, <1>5, <2>3, <2>4, <2>5, <3>1
         DEF Fetch!handle_blocks_by_root_response
    <3>2. CASE blocks # {}
      BY ZenonT(30), <1>1, <1>2, <1>3, <1>4, <1>5, <2>3, <2>5, <3>2, SameMaps
         DEF Fetch!handle_blocks_by_root_response
    <3> QED BY <3>1, <3>2
  <2>7. Fetch!Response(id)
    BY <1>4, <2>6 DEF Fetch!Response
  <2> QED BY <1>4, <2>7 DEF Fetch!Next
<1> QED BY <1>6, <1>7

LEMMA SwarmEventStutters ==
    ASSUME SwarmInv, NEW id \in DOMAIN inflight, SwarmEvent(id)
    PROVE  UNCHANGED <<abstract_pending, abstract_ids, abstract_inflight, abstract_next_id>>
<1> DEFINE request == inflight[id]
<1>1. PICK result : events' = Put(events, id, [root |-> request.root, peer |-> request.peer,
                                               result |-> result])
  BY ZenonT(30) DEF SwarmEvent
<1>2. /\ inflight' = Without(inflight, id)
      /\ UNCHANGED <<pending_requests, request_id_map, handler, next_id>>
  BY ZenonT(30) DEF SwarmEvent, actor
<1>3. UNCHANGED <<abstract_pending, abstract_ids, abstract_next_id>>
  BY <1>2 DEF abstract_pending, abstract_ids, abstract_next_id, fetching, awaited_root, awaited_id,
              pending
<1>4. DOMAIN inflight' \cup DOMAIN events' = DOMAIN inflight \cup DOMAIN events
  BY <1>1, <1>2 DEF Put, Without
<1>5. ASSUME NEW i PROVE request_of(i)' = request_of(i)
  <2>1. CASE i = id
    <3>1. /\ i \notin DOMAIN inflight' /\ i \in DOMAIN events'
          /\ events'[i].root = request.root /\ events'[i].peer = request.peer
      BY ZenonT(30), <1>1, <1>2, <2>1 DEF Put, Without
    <3>2. request = [root |-> request.root, peer |-> request.peer]
      BY ZenonT(30) DEF SwarmInv, Requests
    <3> QED BY ZenonT(30), <2>1, <3>1, <3>2 DEF request_of
  <2>2. CASE i # id
    BY <1>1, <1>2, <2>2 DEF request_of, awaited_root, Put, Without
  <2> QED BY <2>1, <2>2
<1>6. abstract_inflight' = abstract_inflight
  BY <1>2, <1>4, <1>5 DEF abstract_inflight
<1> QED BY <1>3, <1>6

LEMMA ExecuteStutters ==
    ASSUME SwarmInv, execute_block_request
    PROVE  UNCHANGED <<abstract_pending, abstract_ids, abstract_inflight, abstract_next_id>>
<1>1. PICK r \in Roots, p \in Peers :
          /\ handler = Queued(r, p)
          /\ inflight' = Put(inflight, next_id, [root |-> r, peer |-> p])
          /\ handler' = Replied(r, next_id)
          /\ next_id' = next_id + 1
          /\ UNCHANGED <<events, connected_peers, pending_requests, request_id_map>>
  BY ExecuteFacts
<1>2. /\ inflight' = Put(inflight, next_id, [root |-> r, peer |-> p])
      /\ handler' = Replied(r, next_id)
      /\ next_id' = next_id + 1
      /\ UNCHANGED <<events, pending_requests, request_id_map>>
  BY <1>1
<1>3. /\ abstract_pending' = IF pending(r)' THEN pending_requests'
                             ELSE Put(pending_requests', r, [attempts |-> 1, failed_peers |-> {}])
      /\ abstract_ids' = Put(request_id_map', next_id, r)
      /\ abstract_next_id' = next_id'
      /\ abstract_inflight' = [i \in DOMAIN inflight' \cup DOMAIN events' |-> request_of(i)']
  BY <1>2, AbstractRepliedNext
<1>4. next_id \notin DOMAIN inflight /\ next_id \notin DOMAIN events
  BY DEF SwarmInv
<1>5. ASSUME NEW i \in DOMAIN inflight \cup DOMAIN events \cup {next_id}
      PROVE  request_of(i)' = request_of(i)
  <2>1. handler.root = r /\ handler.peer = p
    BY <1>1, HandlerFacts
  <2> QED BY ZenonT(30), <1>2, <1>4, <2>1 DEF request_of, awaited_root, Put
<1>6. DOMAIN inflight' \cup DOMAIN events' = DOMAIN inflight \cup DOMAIN events \cup {next_id}
  BY <1>2 DEF Put
<1>7. abstract_inflight' = abstract_inflight
  BY <1>1, <1>3, <1>5, <1>6, AbstractQueued
<1>8. abstract_pending' = abstract_pending
  BY <1>1, <1>2, <1>3, AbstractQueued DEF pending
<1> QED BY <1>1, <1>2, <1>3, <1>7, <1>8, AbstractQueued

LEMMA ResumeStutters ==
    ASSUME SwarmInv, Resume
    PROVE  UNCHANGED <<abstract_pending, abstract_ids, abstract_inflight, abstract_next_id>>
<1>1. PICK r \in Roots, id \in 0 .. next_id - 1 : handler = Replied(r, id)
  BY HandlerKinds DEF Resume
<1>2. /\ handler' = Idle
      /\ pending_requests' = IF pending(r) THEN pending_requests
                             ELSE Put(pending_requests, r, tracked(r))
      /\ request_id_map' = Put(request_id_map, id, r)
      /\ UNCHANGED <<inflight, next_id, events>>
  BY <1>1, HandlerFacts DEF Resume
<1>3. ~pending(r) => tracked(r) = [attempts |-> 1, failed_peers |-> {}]
  BY ZenonT(30) DEF tracked
<1>4. \A i \in DOMAIN inflight \cup DOMAIN events : request_of(i)' = request_of(i)
  BY ZenonT(30), <1>2 DEF request_of
<1>5. /\ abstract_pending' = pending_requests' /\ abstract_ids' = request_id_map'
      /\ abstract_next_id' = next_id'
      /\ abstract_inflight' = [i \in DOMAIN inflight' \cup DOMAIN events' |-> request_of(i)']
  BY <1>2, AbstractIdleNext
<1> QED BY ZenonT(30), <1>1, <1>2, <1>3, <1>4, <1>5, AbstractReplied

LEMMA StepRefines == SwarmInv /\ [SwarmNext]_SwarmVars => [Fetch!Next]_(Fetch!vars)
<1> SUFFICES ASSUME SwarmInv, [SwarmNext]_SwarmVars PROVE [Fetch!Next]_(Fetch!vars)
  OBVIOUS
<1>0. ASSUME UNCHANGED <<abstract_pending, abstract_ids, abstract_inflight, abstract_next_id>>,
             UNCHANGED <<connected_peers, retries, sent, forwarded, calls, churn>>
      PROVE  UNCHANGED Fetch!vars
  BY <1>0 DEF Fetch!vars, Fetch!tracking
<1>1. ASSUME NEW r \in Roots, HandleFetchBlock(r)
      PROVE  Fetch!Next
  <2>1. CASE ~pending(r) /\ connected_peers # {}
    <3>1. Fetch!fetch_block_from_peer(r)
      BY <1>1, <2>1, SendRequestRefines DEF HandleFetchBlock
    <3>2. Fetch!FetchBlock(r)
      BY <1>1, <2>1, <3>1, SameOperators DEF HandleFetchBlock, Fetch!FetchBlock
    <3> QED BY <3>2 DEF Fetch!Next
  <2>2. CASE ~(~pending(r) /\ connected_peers # {})
    <3>1. UNCHANGED <<abstract_pending, abstract_ids, abstract_inflight, abstract_next_id>>
      BY <1>1, <2>2, IdleStutters DEF HandleFetchBlock
    <3>2. Fetch!FetchBlock(r)
      BY <1>1, <2>2, <3>1, SameOperators DEF HandleFetchBlock, Fetch!FetchBlock, Fetch!tracking
    <3> QED BY <3>2 DEF Fetch!Next
  <2> QED BY <2>1, <2>2
<1>2. ASSUME NEW r \in Roots, HandleRetryBlockFetch(r)
      PROVE  Fetch!Next
  <2>1. CASE pending(r) /\ connected_peers # {}
    <3>1. Fetch!fetch_block_from_peer(r)
      BY <1>2, <2>1, SendRequestRefines DEF HandleRetryBlockFetch
    <3>2. Fetch!handle_retry_block_fetch(r)
      BY <1>2, <2>1, <3>1, SameOperators
         DEF HandleRetryBlockFetch, Fetch!handle_retry_block_fetch, bounds
    <3> QED BY <3>2 DEF Fetch!Next
  <2>2. CASE pending(r) /\ connected_peers = {}
    <3>1. /\ handler = Idle /\ handler' = Idle
          /\ pending_requests' = Without(pending_requests, r)
          /\ UNCHANGED <<request_id_map, inflight, events, next_id>>
      BY <1>2, <2>2 DEF HandleRetryBlockFetch
    <3>2. /\ abstract_pending = pending_requests
          /\ abstract_pending' = pending_requests'
          /\ abstract_ids' = abstract_ids
          /\ abstract_next_id' = abstract_next_id
      BY <3>1, AbstractIdle, AbstractIdleNext
    <3>3. abstract_inflight' = abstract_inflight
      <4>1. \A i \in DOMAIN inflight \cup DOMAIN events : request_of(i)' = request_of(i)
        BY <3>1 DEF request_of
      <4> QED BY <3>1, <4>1, AbstractIdle, AbstractIdleNext
    <3>4. Fetch!handle_retry_block_fetch(r)
      BY <1>2, <2>2, <3>1, <3>2, <3>3, SameOperators, SameMaps
         DEF HandleRetryBlockFetch, Fetch!handle_retry_block_fetch, bounds
    <3> QED BY <3>4 DEF Fetch!Next
  <2>3. CASE ~pending(r)
    <3>1. UNCHANGED <<abstract_pending, abstract_ids, abstract_inflight, abstract_next_id>>
      BY <1>2, <2>3, IdleStutters DEF HandleRetryBlockFetch
    <3>2. Fetch!handle_retry_block_fetch(r)
      BY ZenonT(30), <1>2, <2>3, <3>1, SameOperators
         DEF HandleRetryBlockFetch, Fetch!handle_retry_block_fetch, bounds
    <3> QED BY <3>2 DEF Fetch!Next
  <2> QED BY <2>1, <2>2, <2>3
<1>3. CASE Resume
  BY ZenonT(30), <1>0, <1>3, ResumeStutters DEF Resume, bounds
<1>4. ASSUME NEW id \in DOMAIN events, ReceiveOutcome(id)
      PROVE  Fetch!Next
  BY <1>4, ReceiveRefines
<1>5. ASSUME NEW p \in Peers, HandleConnectionEstablished(p)
      PROVE  Fetch!Next
  <2>1. UNCHANGED <<abstract_pending, abstract_ids, abstract_inflight, abstract_next_id>>
    BY <1>5, IdleStutters DEF HandleConnectionEstablished
  <2>2. Fetch!ConnectionEstablished(p)
    BY <1>5, <2>1 DEF HandleConnectionEstablished, Fetch!ConnectionEstablished, Fetch!tracking
  <2> QED BY <2>2 DEF Fetch!Next
<1>6. ASSUME NEW p \in Peers, HandleConnectionClosed(p)
      PROVE  Fetch!Next
  <2>1. UNCHANGED <<abstract_pending, abstract_ids, abstract_inflight, abstract_next_id>>
    BY <1>6, IdleStutters DEF HandleConnectionClosed
  <2>2. Fetch!ConnectionClosed(p)
    BY <1>6, <2>1 DEF HandleConnectionClosed, Fetch!ConnectionClosed, Fetch!tracking
  <2> QED BY <2>2 DEF Fetch!Next
<1>7. CASE execute_block_request
  BY <1>0, <1>7, ExecuteStutters DEF execute_block_request, actor, bounds
<1>8. CASE execute_status_request
  <2>1. handler = Status
    BY <1>8, HandlerKinds DEF execute_status_request
  <2>2. UNCHANGED <<abstract_pending, abstract_ids, abstract_inflight, abstract_next_id>>
    BY ZenonT(30), <1>8, <2>1, IdleStutters DEF execute_status_request, actor
  <2> QED BY <1>0, <1>8, <2>2 DEF execute_status_request, actor, bounds
<1>9. ASSUME NEW id \in DOMAIN inflight, SwarmEvent(id)
      PROVE  UNCHANGED Fetch!vars
  BY ZenonT(30), <1>0, <1>9, SwarmEventStutters DEF SwarmEvent, actor, bounds
<1>10. CASE UNCHANGED SwarmVars
  <2>1. UNCHANGED <<abstract_pending, abstract_ids, abstract_inflight, abstract_next_id>>
    BY <1>10 DEF SwarmVars, actor, abstract_pending, abstract_ids, abstract_inflight, abstract_next_id,
                 fetching, awaited_root, awaited_id, request_of, pending
  <2> QED BY ZenonT(30), <1>0, <1>10, <2>1 DEF SwarmVars, actor, bounds
<1> QED BY <1>1, <1>2, <1>3, <1>4, <1>5, <1>6, <1>7, <1>8, <1>9, <1>10
        DEF SwarmNext, execute_command

LEMMA InitRefines == SwarmInit => Fetch!Init
<1> SUFFICES ASSUME SwarmInit PROVE Fetch!Init
  OBVIOUS
<1>1. handler = Idle /\ inflight = EmptyMap /\ events = EmptyMap
  BY SameMaps DEF SwarmInit, Init
<1>2. abstract_inflight = EmptyMap
  BY <1>1, AbstractIdle DEF EmptyMap
<1> QED BY <1>1, <1>2, AbstractIdle, SameMaps DEF SwarmInit, Init, Fetch!Init

-----------------------------------------------------------------------------
\* Each request id is where the invariant says, in every state.
THEOREM SwarmInvariance == SwarmSpec => []SwarmInv
<1> QED BY SwarmInvInit, SwarmInvStep, PTL DEF SwarmSpec

(***************************************************************************)
(* For any peers, roots, answers and bounds: with the channels of          *)
(* swarm_adapter.rs between them the actor and the swarm still behave as   *)
(* BlockFetch, so what is proved about BlockFetch holds of them.           *)
(***************************************************************************)
THEOREM SwarmRefinement == SwarmSpec => ImplementsBlockFetch
<1> QED BY SwarmInvariance, StepRefines, InitRefines, PTL DEF SwarmSpec, ImplementsBlockFetch, Fetch!Spec

(***************************************************************************)
(* For any peers, roots, answers and bounds: handle_blocks_by_root_        *)
(* response never sees an unknown request id.                              *)
(***************************************************************************)
THEOREM AnswersKnown == SwarmSpec => []AnswerFindsRequest
<1>1. SwarmInv => AnswerFindsRequest
  BY HandlerFacts DEF SwarmInv, Known, AnswerFindsRequest
<1> QED BY <1>1, SwarmInvariance, PTL
=============================================================================
