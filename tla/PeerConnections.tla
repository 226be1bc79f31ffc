--------------------------- MODULE PeerConnections ---------------------------
(***************************************************************************)
(* Which peers the P2P actor believes it is connected to, and how it gets  *)
(* a lost bootnode back (crates/net/p2p/src/lib.rs, swarm_adapter.rs).     *)
(*                                                                         *)
(* The actor does not see the connections: it sees the swarm's events,     *)
(* queued behind everything else in its mailbox, and it answers with       *)
(* commands queued for the swarm loop.  libp2p is external: connections    *)
(* open and close on their own, and a dial ends with a connection or with  *)
(* an OutgoingConnectionError.  Only events of one peer touch the state of *)
(* that peer, so the queues are kept per peer, each in order.              *)
(***************************************************************************)
EXTENDS Naturals, Sequences, FiniteSets

CONSTANTS
    Peers,
    Bootnodes,       \* the keys of bootnode_addrs
    None,            \* the actor awaits no request id
    MaxConnections,  \* bound: connections to a peer at one time
    MaxInbound,      \* bound: connections a peer opens
    MaxClosed        \* bound: connections to a peer that close

ASSUME PeersAssumption == Bootnodes \subseteq Peers /\ None \notin Peers

ASSUME BoundsAssumption ==
    MaxConnections \in Nat /\ MaxInbound \in Nat /\ MaxClosed \in Nat

VARIABLES
    connected_peers,  \* the actor's view
    awaiting,         \* the peer whose Status request the handler is sending
    timers,           \* peer -> RetryPeerRedial timers running
    commands,         \* peer -> Dial commands the swarm loop has not taken
    events,           \* peer -> swarm events the actor has not handled
    established,      \* external: peer -> connections open in the swarm
    dialing,          \* external: peer -> dials under way
    inbound,          \* what is used up of MaxInbound
    closed,           \* what is used up of MaxClosed
    disconnects       \* history: peer -> times its last connection closed

actor == <<connected_peers, awaiting, timers>>
swarm == <<established, dialing>>
bounds == <<inbound, closed, disconnects>>
vars == <<actor, commands, events, swarm, bounds>>

Event(kind, num) == [kind |-> kind, num_established |-> num]

Emit(peer, event) == events' = [events EXCEPT ![peer] = Append(@, event)]

\* build_swarm dials every bootnode before the actor starts.
Init ==
    /\ connected_peers = {}
    /\ awaiting = None
    /\ timers = [p \in Peers |-> 0]
    /\ commands = [p \in Peers |-> 0]
    /\ events = [p \in Peers |-> <<>>]
    /\ established = [p \in Peers |-> 0]
    /\ dialing = [p \in Peers |-> IF p \in Bootnodes THEN 1 ELSE 0]
    /\ inbound = [p \in Peers |-> 0]
    /\ closed = [p \in Peers |-> 0]
    /\ disconnects = [p \in Peers |-> 0]

-----------------------------------------------------------------------------
(***************************************************************************)
(* The swarm (external) and the loop that runs its commands                *)
(***************************************************************************)
Open(peer) ==
    /\ established[peer] < MaxConnections
    /\ established' = [established EXCEPT ![peer] = @ + 1]
    /\ Emit(peer, Event("ConnectionEstablished", established[peer] + 1))

PeerConnects(peer) ==
    /\ inbound[peer] < MaxInbound
    /\ inbound' = [inbound EXCEPT ![peer] = @ + 1]
    /\ Open(peer)
    /\ UNCHANGED <<actor, commands, dialing, closed, disconnects>>

DialSucceeds(peer) ==
    /\ dialing[peer] > 0
    /\ dialing' = [dialing EXCEPT ![peer] = @ - 1]
    /\ Open(peer)
    /\ UNCHANGED <<actor, commands, bounds>>

DialFails(peer) ==
    /\ dialing[peer] > 0
    /\ dialing' = [dialing EXCEPT ![peer] = @ - 1]
    /\ Emit(peer, Event("OutgoingConnectionError", 0))
    /\ UNCHANGED <<actor, commands, established, bounds>>

ConnectionLost(peer) ==
    /\ established[peer] > 0
    /\ closed[peer] < MaxClosed
    /\ closed' = [closed EXCEPT ![peer] = @ + 1]
    /\ established' = [established EXCEPT ![peer] = @ - 1]
    /\ Emit(peer, Event("ConnectionClosed", established[peer] - 1))
    /\ disconnects' = [disconnects EXCEPT ![peer] =
                           IF established[peer] = 1 THEN @ + 1 ELSE @]
    /\ UNCHANGED <<actor, commands, dialing, inbound>>

\* SwarmCommand::Dial.  libp2p may refuse to dial a peer that is connected or
\* already being dialled; the error is only logged.
ExecuteDial(peer) ==
    /\ commands[peer] > 0
    /\ commands' = [commands EXCEPT ![peer] = @ - 1]
    /\ \/ dialing' = [dialing EXCEPT ![peer] = @ + 1]
       \/ /\ established[peer] > 0 \/ dialing[peer] > 0
          /\ UNCHANGED dialing
    /\ UNCHANGED <<actor, events, established, bounds>>

\* SwarmCommand::SendRequest: the loop reports the request id, and the handler
\* that awaits it ends.
ExecuteStatusRequest ==
    /\ awaiting # None
    /\ awaiting' = None
    /\ UNCHANGED <<connected_peers, timers, commands, events, swarm, bounds>>

-----------------------------------------------------------------------------
(***************************************************************************)
(* The actor: one message at a time, none while a handler awaits           *)
(***************************************************************************)
Receive(peer, kind) ==
    /\ awaiting = None
    /\ events[peer] # <<>>
    /\ Head(events[peer]).kind = kind
    /\ events' = [events EXCEPT ![peer] = Tail(@)]

ScheduleRedial(peer) ==
    timers' = [timers EXCEPT ![peer] = IF peer \in Bootnodes THEN @ + 1 ELSE @]

\* The first connection to a peer is answered with a Status request.
ConnectionEstablished(peer) ==
    /\ Receive(peer, "ConnectionEstablished")
    /\ IF Head(events[peer]).num_established = 1
       THEN connected_peers' = connected_peers \cup {peer} /\ awaiting' = peer
       ELSE UNCHANGED <<connected_peers, awaiting>>
    /\ UNCHANGED <<timers, commands, swarm, bounds>>

ConnectionClosed_any(peer) ==
    /\ Receive(peer, "ConnectionClosed")
    /\ connected_peers' = connected_peers \ {peer}
    /\ ScheduleRedial(peer)
    /\ UNCHANGED <<awaiting, commands, swarm, bounds>>

ConnectionClosed_silent(peer) ==
    /\ Receive(peer, "ConnectionClosed")
    /\ connected_peers' = IF Head(events[peer]).num_established = 0
                          THEN connected_peers \ {peer} ELSE connected_peers
    /\ UNCHANGED <<awaiting, timers, commands, swarm, bounds>>

\* Only the last connection that closes disconnects the peer.
ConnectionClosed(peer) ==
    /\ Receive(peer, "ConnectionClosed")
    /\ IF Head(events[peer]).num_established = 0
       THEN connected_peers' = connected_peers \ {peer} /\ ScheduleRedial(peer)
       ELSE UNCHANGED <<connected_peers, timers>>
    /\ UNCHANGED <<awaiting, commands, swarm, bounds>>

OutgoingConnectionError_ignored(peer) ==
    /\ Receive(peer, "OutgoingConnectionError")
    /\ UNCHANGED <<actor, commands, swarm, bounds>>

OutgoingConnectionError(peer) ==
    /\ Receive(peer, "OutgoingConnectionError")
    /\ IF peer \notin connected_peers THEN ScheduleRedial(peer) ELSE UNCHANGED timers
    /\ UNCHANGED <<connected_peers, awaiting, commands, swarm, bounds>>

\* A timer that fires once the bootnode is back does nothing.
handle_retry_peer_redial(peer) ==
    /\ awaiting = None
    /\ timers[peer] > 0
    /\ timers' = [timers EXCEPT ![peer] = @ - 1]
    /\ commands' = [commands EXCEPT ![peer] = IF peer \in connected_peers THEN @ ELSE @ + 1]
    /\ UNCHANGED <<connected_peers, awaiting, events, swarm, bounds>>

HandleEvent(peer) ==
    \/ ConnectionEstablished(peer)
    \/ ConnectionClosed(peer)
    \/ OutgoingConnectionError(peer)

Next ==
    \/ \E p \in Peers :
           \/ PeerConnects(p) \/ DialSucceeds(p) \/ DialFails(p) \/ ConnectionLost(p)
           \/ ExecuteDial(p)
           \/ HandleEvent(p)
           \/ handle_retry_peer_redial(p)
    \/ ExecuteStatusRequest

Spec == Init /\ [][Next]_vars

\* The actor handles its mailbox, timers fire, the loop takes its commands,
\* every dial ends; and a bootnode dialled again and again is reached once.
Fairness ==
    /\ WF_vars(ExecuteStatusRequest)
    /\ \A p \in Peers :
           /\ SF_vars(HandleEvent(p))
           /\ SF_vars(handle_retry_peer_redial(p))
           /\ WF_vars(ExecuteDial(p))
           /\ WF_vars(DialSucceeds(p) \/ DialFails(p))
           /\ SF_vars(DialSucceeds(p))

FairSpec == Spec /\ Fairness

-----------------------------------------------------------------------------
(***************************************************************************)
(* Properties                                                              *)
(***************************************************************************)
Kinds == {"ConnectionEstablished", "ConnectionClosed", "OutgoingConnectionError"}

Events == [kind : Kinds, num_established : Nat]

TypeOK ==
    /\ connected_peers \subseteq Peers
    /\ awaiting \in Peers \cup {None}
    /\ timers \in [Peers -> Nat]
    /\ commands \in [Peers -> Nat]
    /\ events \in [Peers -> Seq(Events)]
    /\ established \in [Peers -> 0 .. MaxConnections]
    /\ dialing \in [Peers -> Nat]
    /\ inbound \in [Peers -> 0 .. MaxInbound]
    /\ closed \in [Peers -> 0 .. MaxClosed]
    /\ disconnects \in [Peers -> Nat]

(***************************************************************************)
(* connected_peers is maintained from the counters in the events alone: it *)
(* is touched only when a counter is 1 or 0.  Whatever opens and closes    *)
(* while the actor is busy, once the events of a peer are handled it       *)
(* holds the peer exactly when a connection to it is open, so that block   *)
(* requests go to connected peers.                                         *)
(***************************************************************************)
ViewCatchesUp ==
    \A p \in Peers : events[p] = <<>> => (p \in connected_peers <=> established[p] > 0)

(***************************************************************************)
(* No bootnode is forgotten.  The redial timer, the dial, its error and    *)
(* the events of a connection are each handled once, and a dial may be     *)
(* refused; still a bootnode the actor believes disconnected always has    *)
(* one of them left, so it will be dialled again.                          *)
(***************************************************************************)
NeverForgotten ==
    \A p \in Bootnodes \ connected_peers :
        \/ timers[p] > 0
        \/ commands[p] > 0
        \/ dialing[p] > 0
        \/ events[p] # <<>>

errors(p) == {i \in DOMAIN events[p] : events[p][i].kind = "OutgoingConnectionError"}

(***************************************************************************)
(* Redials do not multiply.  A disconnect and a failed dial both start a   *)
(* timer, and a timer may find the bootnode being dialled already; still   *)
(* there are never more timers, dials and errors on their way than times   *)
(* the bootnode was lost, and the first dial.                              *)
(***************************************************************************)
RedialsBounded ==
    \A p \in Peers :
        timers[p] + commands[p] + dialing[p] + Cardinality(errors(p))
            <= disconnects[p] + (IF p \in Bootnodes THEN 1 ELSE 0)

(***************************************************************************)
(* A bootnode that can be reached is connected again, however often it was *)
(* lost and however many dials failed (handle_swarm_event schedules a      *)
(* redial after both).                                                     *)
(***************************************************************************)
BootnodesReconnect ==
    \A p \in Bootnodes : p \notin connected_peers ~> p \in connected_peers
=============================================================================
