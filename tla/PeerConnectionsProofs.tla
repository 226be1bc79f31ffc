------------------------ MODULE PeerConnectionsProofs ------------------------
(***************************************************************************)
(* Proofs about PeerConnections, for any peers and any bounds.             *)
(*                                                                         *)
(* The actor's view and the swarm are related through the events between   *)
(* them.  The inductive invariant names the number of open connections     *)
(* before and after each queued event: it starts with what the actor       *)
(* believes and ends with what is true.                                    *)
(***************************************************************************)
EXTENDS PeerConnections, TLAPS

\* The time the provers have for a leaf; the leaves that are pure logic name Zenon.
USE SMTT(30), ZenonT(30)

\* What an event says when the number of connections goes from a to b.
Tells(e, a, b) ==
    \/ e.kind = "ConnectionEstablished" /\ b = a + 1 /\ e.num_established = b
    \/ e.kind = "ConnectionClosed" /\ a = b + 1 /\ e.num_established = b
    \/ e.kind = "OutgoingConnectionError" /\ b = a

Explains(s, c) ==
    /\ c \in [1 .. Len(s) + 1 -> Nat]
    /\ \A i \in 1 .. Len(s) : Tells(s[i], c[i], c[i + 1])

Explained(p) ==
    \E c : /\ Explains(events[p], c)
           /\ p \in connected_peers <=> c[1] > 0
           /\ established[p] = c[Len(events[p]) + 1]

IInv == /\ TypeOK
        /\ \A p \in Peers : Explained(p)
        /\ NeverForgotten

-----------------------------------------------------------------------------
(***************************************************************************)
(* An explanation is extended by a new event, and shortened by a handled   *)
(* one.                                                                    *)
(***************************************************************************)
LEMMA ExplainsAppend ==
    ASSUME NEW s \in Seq(Events), NEW e \in Events, NEW c, Explains(s, c),
           NEW b \in Nat, Tells(e, c[Len(s) + 1], b)
    PROVE  \E d : /\ Explains(Append(s, e), d)
                  /\ d[1] = c[1]
                  /\ d[Len(Append(s, e)) + 1] = b
<1> DEFINE d == [i \in 1 .. Len(s) + 2 |-> IF i = Len(s) + 2 THEN b ELSE c[i]]
<1>1. Len(s) \in Nat /\ Len(Append(s, e)) = Len(s) + 1
  OBVIOUS
<1>2. d \in [1 .. Len(Append(s, e)) + 1 -> Nat]
  BY <1>1 DEF Explains
<1>3. ASSUME NEW i \in 1 .. Len(Append(s, e))
      PROVE  Tells(Append(s, e)[i], d[i], d[i + 1])
  <2>1. CASE i = Len(s) + 1
    <3>1. Append(s, e)[i] = e /\ d[i] = c[i] /\ d[i + 1] = b
      BY <1>1, <2>1
    <3> QED BY <3>1, <2>1
  <2>2. CASE i \in 1 .. Len(s)
    <3>1. Append(s, e)[i] = s[i] /\ d[i] = c[i] /\ d[i + 1] = c[i + 1]
      BY <1>1, <2>2
    <3> QED BY <3>1, <2>2 DEF Explains
  <2> QED BY <1>1, <2>1, <2>2
<1>4. d[1] = c[1] /\ d[Len(Append(s, e)) + 1] = b
  BY <1>1
<1>5. Explains(Append(s, e), d)
  BY <1>2, <1>3 DEF Explains
<1> HIDE DEF d
<1> QED BY <1>4, <1>5

LEMMA ExplainsTail ==
    ASSUME NEW s \in Seq(Events), s # <<>>, NEW c, Explains(s, c)
    PROVE  /\ Tells(Head(s), c[1], c[2])
           /\ c[1] \in Nat /\ c[2] \in Nat
           /\ \E d : /\ Explains(Tail(s), d)
                     /\ d[1] = c[2]
                     /\ d[Len(Tail(s)) + 1] = c[Len(s) + 1]
<1> DEFINE d == [i \in 1 .. Len(s) |-> c[i + 1]]
<1>1. Len(s) \in Nat \ {0} /\ Len(Tail(s)) = Len(s) - 1 /\ Head(s) = s[1]
  OBVIOUS
<1>2. Tells(Head(s), c[1], c[2]) /\ c[1] \in Nat /\ c[2] \in Nat
  BY <1>1 DEF Explains
<1>3. d \in [1 .. Len(Tail(s)) + 1 -> Nat]
  BY <1>1 DEF Explains
<1>4. ASSUME NEW i \in 1 .. Len(Tail(s))
      PROVE  Tells(Tail(s)[i], d[i], d[i + 1])
  <2>1. Tail(s)[i] = s[i + 1] /\ d[i] = c[i + 1] /\ d[i + 1] = c[(i + 1) + 1]
    BY <1>1
  <2>2. i + 1 \in 1 .. Len(s)
    BY <1>1
  <2> QED BY <2>1, <2>2 DEF Explains
<1>5. d[1] = c[2] /\ d[Len(Tail(s)) + 1] = c[Len(s) + 1]
  BY <1>1
<1>6. Explains(Tail(s), d)
  BY <1>3, <1>4 DEF Explains
<1> HIDE DEF d
<1> QED BY <1>2, <1>5, <1>6

-----------------------------------------------------------------------------
LEMMA TypeInit == Init => TypeOK
  BY PeersAssumption, BoundsAssumption DEF Init, TypeOK

LEMMA TypeStep == TypeOK /\ [Next]_vars => TypeOK'
<1> SUFFICES ASSUME TypeOK, [Next]_vars PROVE TypeOK'
  OBVIOUS
<1>1. ASSUME NEW p \in Peers, NEW e \in Events, Emit(p, e)
      PROVE  events' \in [Peers -> Seq(Events)]
  <2>1. events \in [Peers -> Seq(Events)]
    BY DEF TypeOK
  <2> QED BY <1>1, <2>1 DEF Emit
<1>2. ASSUME NEW p \in Peers, NEW k, Receive(p, k)
      PROVE  events' \in [Peers -> Seq(Events)]
  <2>1. events \in [Peers -> Seq(Events)]
    BY DEF TypeOK
  <2> QED BY <1>2, <2>1 DEF Receive
<1>3. ASSUME NEW p \in Peers, ScheduleRedial(p)
      PROVE  timers' \in [Peers -> Nat]
  <2>1. timers \in [Peers -> Nat]
    BY DEF TypeOK
  <2> QED BY <2>1, <1>3 DEF ScheduleRedial
<1>4. ASSUME NEW p \in Peers, Open(p)
      PROVE  established' \in [Peers -> 0 .. MaxConnections] /\ events' \in [Peers -> Seq(Events)]
  <2>1. established \in [Peers -> 0 .. MaxConnections]
    BY DEF TypeOK
  <2>2. Event("ConnectionEstablished", established[p] + 1) \in Events
    BY <2>1, BoundsAssumption DEF Event, Events, Kinds
  <2>3. established' \in [Peers -> 0 .. MaxConnections]
    BY <1>4, <2>1, BoundsAssumption DEF Open
  <2> QED BY <1>1, <1>4, <2>2, <2>3 DEF Open
<1>5. ASSUME NEW p \in Peers, PeerConnects(p)
      PROVE  TypeOK'
  <2>1. inbound \in [Peers -> 0 .. MaxInbound]
    BY DEF TypeOK
  <2>2. inbound' \in [Peers -> 0 .. MaxInbound]
    BY <1>5, <2>1, BoundsAssumption DEF PeerConnects
  <2> QED BY Zenon, <1>4, <1>5, <2>2 DEF PeerConnects, TypeOK, actor
<1>6. ASSUME NEW p \in Peers, DialSucceeds(p)
      PROVE  TypeOK'
  <2>1. dialing \in [Peers -> Nat]
    BY DEF TypeOK
  <2>2. dialing' \in [Peers -> Nat]
    BY <1>6, <2>1 DEF DialSucceeds
  <2> QED BY Zenon, <1>4, <1>6, <2>2 DEF DialSucceeds, TypeOK, actor, bounds
<1>7. ASSUME NEW p \in Peers, DialFails(p)
      PROVE  TypeOK'
  <2>1. Event("OutgoingConnectionError", 0) \in Events
    BY DEF Event, Events, Kinds
  <2>2. dialing \in [Peers -> Nat]
    BY DEF TypeOK
  <2>3. dialing' \in [Peers -> Nat]
    BY <1>7, <2>2 DEF DialFails
  <2>4. events' \in [Peers -> Seq(Events)]
    BY <1>1, <1>7, <2>1 DEF DialFails
  <2> QED BY Zenon, <1>7, <2>3, <2>4 DEF DialFails, TypeOK, actor, bounds
<1>8. ASSUME NEW p \in Peers, ConnectionLost(p)
      PROVE  TypeOK'
  <2>1. /\ established \in [Peers -> 0 .. MaxConnections]
        /\ closed \in [Peers -> 0 .. MaxClosed]
        /\ disconnects \in [Peers -> Nat]
    BY Zenon DEF TypeOK
  <2>2. Event("ConnectionClosed", established[p] - 1) \in Events
    BY <1>8, <2>1, BoundsAssumption DEF Event, Events, Kinds, ConnectionLost
  <2>3. events' \in [Peers -> Seq(Events)]
    BY <1>1, <1>8, <2>2 DEF ConnectionLost
  <2>4. established' \in [Peers -> 0 .. MaxConnections]
    BY <1>8, <2>1, BoundsAssumption DEF ConnectionLost
  <2>5. closed' \in [Peers -> 0 .. MaxClosed]
    BY <1>8, <2>1, BoundsAssumption DEF ConnectionLost
  <2>6. disconnects' \in [Peers -> Nat]
    BY <1>8, <2>1 DEF ConnectionLost
  <2> QED BY Zenon, <1>8, <2>3, <2>4, <2>5, <2>6 DEF ConnectionLost, TypeOK, actor
<1>9. ASSUME NEW p \in Peers, ExecuteDial(p)
      PROVE  TypeOK'
  <2>1. commands \in [Peers -> Nat] /\ dialing \in [Peers -> Nat]
    BY DEF TypeOK
  <2>2. commands' \in [Peers -> Nat] /\ dialing' \in [Peers -> Nat]
    BY <1>9, <2>1 DEF ExecuteDial
  <2> QED BY Zenon, <1>9, <2>2 DEF ExecuteDial, TypeOK, actor, bounds
<1>10. CASE ExecuteStatusRequest
  BY <1>10 DEF ExecuteStatusRequest, TypeOK, swarm, bounds
<1>11. ASSUME NEW p \in Peers, ConnectionEstablished(p)
       PROVE  TypeOK'
  <2>1. events' \in [Peers -> Seq(Events)]
    BY <1>2, <1>11 DEF ConnectionEstablished
  <2>2. connected_peers' \subseteq Peers /\ awaiting' \in Peers \cup {None}
    BY <1>11 DEF ConnectionEstablished, TypeOK
  <2> QED BY Zenon, <1>11, <2>1, <2>2 DEF ConnectionEstablished, TypeOK, swarm, bounds
<1>12. ASSUME NEW p \in Peers, ConnectionClosed(p)
       PROVE  TypeOK'
  <2>1. events' \in [Peers -> Seq(Events)]
    BY <1>2, <1>12 DEF ConnectionClosed
  <2>2. timers' \in [Peers -> Nat]
    BY <1>3, <1>12 DEF ConnectionClosed, TypeOK
  <2>3. connected_peers' \subseteq Peers
    BY <1>12 DEF ConnectionClosed, TypeOK
  <2> QED BY Zenon, <1>12, <2>1, <2>2, <2>3 DEF ConnectionClosed, TypeOK, swarm, bounds
<1>13. ASSUME NEW p \in Peers, OutgoingConnectionError(p)
       PROVE  TypeOK'
  <2>1. events' \in [Peers -> Seq(Events)]
    BY <1>2, <1>13 DEF OutgoingConnectionError
  <2>2. timers' \in [Peers -> Nat]
    BY <1>3, <1>13 DEF OutgoingConnectionError, TypeOK
  <2> QED BY Zenon, <1>13, <2>1, <2>2 DEF OutgoingConnectionError, TypeOK, swarm, bounds
<1>14. ASSUME NEW p \in Peers, handle_retry_peer_redial(p)
       PROVE  TypeOK'
  <2>1. timers \in [Peers -> Nat] /\ commands \in [Peers -> Nat]
    BY DEF TypeOK
  <2>2. timers' \in [Peers -> Nat] /\ commands' \in [Peers -> Nat]
    BY <1>14, <2>1 DEF handle_retry_peer_redial
  <2> QED BY <1>14, <2>2 DEF handle_retry_peer_redial, TypeOK, swarm, bounds
<1>15. CASE UNCHANGED vars
  BY <1>15 DEF vars, TypeOK, actor, swarm, bounds
<1> QED BY <1>5, <1>6, <1>7, <1>8, <1>9, <1>10, <1>11, <1>12, <1>13, <1>14, <1>15
        DEF Next, HandleEvent

-----------------------------------------------------------------------------
(***************************************************************************)
(* The explanation of a peer's events, kept by each kind of step.          *)
(***************************************************************************)
LEMMA ExplainedFrame ==
    ASSUME NEW p \in Peers, Explained(p), events'[p] = events[p],
           p \in connected_peers' <=> p \in connected_peers,
           established'[p] = established[p]
    PROVE  Explained(p)'
  BY DEF Explained

LEMMA ExplainedEmit ==
    ASSUME TypeOK, TypeOK', NEW p \in Peers, Explained(p), NEW e \in Events, Emit(p, e),
           connected_peers' = connected_peers,
           Tells(e, established[p], established'[p])
    PROVE  Explained(p)'
<1> DEFINE s == events[p]
<1>1. PICK c : /\ Explains(s, c)
               /\ p \in connected_peers <=> c[1] > 0
               /\ established[p] = c[Len(s) + 1]
  BY DEF Explained
<1>2. s \in Seq(Events) /\ established'[p] \in Nat
  BY BoundsAssumption DEF TypeOK
<1>3. events'[p] = Append(s, e)
  BY DEF Emit, TypeOK
<1>4. PICK d : /\ Explains(Append(s, e), d)
               /\ d[1] = c[1]
               /\ d[Len(Append(s, e)) + 1] = established'[p]
  <2> HIDE DEF s
  <2> QED BY <1>1, <1>2, ExplainsAppend
<1> QED BY <1>1, <1>3, <1>4 DEF Explained

\* What a handler finds at the head of the queue, and what it leaves.
LEMMA ExplainedReceive ==
    ASSUME TypeOK, NEW p \in Peers, Explained(p), NEW k, Receive(p, k),
           established' = established
    PROVE  \E a, b \in Nat :
               /\ p \in connected_peers <=> a > 0
               /\ Tells(Head(events[p]), a, b)
               /\ (p \in connected_peers' <=> b > 0) => Explained(p)'
<1> DEFINE s == events[p]
<1>1. PICK c : /\ Explains(s, c)
               /\ p \in connected_peers <=> c[1] > 0
               /\ established[p] = c[Len(s) + 1]
  BY DEF Explained
<1>2. s \in Seq(Events) /\ s # <<>>
  BY DEF TypeOK, Receive
<1>3. events'[p] = Tail(s)
  BY DEF Receive, TypeOK
<1>4. /\ Tells(Head(s), c[1], c[2])
      /\ c[1] \in Nat /\ c[2] \in Nat
      /\ \E d : /\ Explains(Tail(s), d)
                /\ d[1] = c[2]
                /\ d[Len(Tail(s)) + 1] = c[Len(s) + 1]
  <2> HIDE DEF s
  <2> QED BY <1>1, <1>2, ExplainsTail
<1>5. (p \in connected_peers' <=> c[2] > 0) => Explained(p)'
  BY <1>1, <1>3, <1>4 DEF Explained
<1> HIDE DEF s
<1>6. Tells(Head(events[p]), c[1], c[2])
  BY <1>4 DEF s
<1> QED BY <1>1, <1>4, <1>5, <1>6

LEMMA ExplainedStep ==
    ASSUME TypeOK, TypeOK', \A p \in Peers : Explained(p), [Next]_vars
    PROVE  \A p \in Peers : Explained(p)'
<1>0. ASSUME NEW p \in Peers, NEW q \in Peers, q # p, NEW e,
             Emit(p, e) \/ \E k : Receive(p, k)
      PROVE  events'[q] = events[q]
  BY Zenon, <1>0 DEF Emit, Receive, TypeOK
<1>1. ASSUME NEW p \in Peers, Open(p), connected_peers' = connected_peers
      PROVE  \A q \in Peers : Explained(q)'
  <2>0. established \in [Peers -> 0 .. MaxConnections]
    BY DEF TypeOK
  <2>1. Event("ConnectionEstablished", established[p] + 1) \in Events
    BY <2>0, BoundsAssumption DEF Event, Events, Kinds
  <2>2. Tells(Event("ConnectionEstablished", established[p] + 1), established[p], established'[p])
    BY <1>1, <2>0 DEF Open, Tells, Event
  <2>3. Explained(p)'
    BY <1>1, <2>1, <2>2, ExplainedEmit DEF Open
  <2>4. ASSUME NEW q \in Peers, q # p PROVE Explained(q)'
    <3>1. established'[q] = established[q] /\ events'[q] = events[q]
      BY <1>0, <1>1, <2>0, <2>4 DEF Open
    <3> QED BY <1>1, <3>1, ExplainedFrame
  <2> QED BY <2>3, <2>4
<1>2. ASSUME NEW p \in Peers, DialFails(p)
      PROVE  \A q \in Peers : Explained(q)'
  <2>1. Event("OutgoingConnectionError", 0) \in Events
    BY DEF Event, Events, Kinds
  <2>2. Tells(Event("OutgoingConnectionError", 0), established[p], established'[p])
    BY <1>2 DEF DialFails, Tells, Event
  <2>3. Explained(p)'
    BY <1>2, <2>1, <2>2, ExplainedEmit DEF DialFails, actor
  <2>4. ASSUME NEW q \in Peers, q # p PROVE Explained(q)'
    <3>1. events'[q] = events[q]
      BY <1>0, <1>2, <2>4 DEF DialFails
    <3> QED BY <1>2, <3>1, ExplainedFrame DEF DialFails, actor
  <2> QED BY <2>3, <2>4
<1>3. ASSUME NEW p \in Peers, ConnectionLost(p)
      PROVE  \A q \in Peers : Explained(q)'
  <2>0. established \in [Peers -> 0 .. MaxConnections]
    BY DEF TypeOK
  <2>1. Event("ConnectionClosed", established[p] - 1) \in Events
    BY <1>3, <2>0, BoundsAssumption DEF Event, Events, Kinds, ConnectionLost
  <2>2. Tells(Event("ConnectionClosed", established[p] - 1), established[p], established'[p])
    BY <1>3, <2>0, BoundsAssumption DEF ConnectionLost, Tells, Event
  <2>3. Explained(p)'
    BY <1>3, <2>1, <2>2, ExplainedEmit DEF ConnectionLost, actor
  <2>4. ASSUME NEW q \in Peers, q # p PROVE Explained(q)'
    <3>1. established'[q] = established[q] /\ events'[q] = events[q]
      BY <1>0, <1>3, <2>0, <2>4 DEF ConnectionLost
    <3> QED BY <1>3, <3>1, ExplainedFrame DEF ConnectionLost, actor
  <2> QED BY <2>3, <2>4
<1>4. ASSUME NEW p \in Peers, HandleEvent(p)
      PROVE  \A q \in Peers : Explained(q)'
  <2>1. established' = established
    BY <1>4 DEF HandleEvent, ConnectionEstablished, ConnectionClosed, OutgoingConnectionError, swarm
  <2>2. PICK k : Receive(p, k) /\ Head(events[p]).kind = k
    BY Zenon, <1>4 DEF HandleEvent, ConnectionEstablished, ConnectionClosed, OutgoingConnectionError,
                Receive
  <2>3. PICK a \in Nat, b \in Nat :
            /\ p \in connected_peers <=> a > 0
            /\ Tells(Head(events[p]), a, b)
            /\ (p \in connected_peers' <=> b > 0) => Explained(p)'
    BY <2>1, <2>2, ExplainedReceive
  <2>4. ConnectionEstablished(p) => Explained(p)'
    BY <2>3 DEF ConnectionEstablished, Receive, Tells
  <2>5. ConnectionClosed(p) => Explained(p)'
    BY <2>3 DEF ConnectionClosed, Receive, Tells
  <2>6. OutgoingConnectionError(p) => Explained(p)'
    BY <2>3 DEF OutgoingConnectionError, Receive, Tells
  <2>7. ASSUME NEW q \in Peers, q # p PROVE Explained(q)'
    <3>1. q \in connected_peers' <=> q \in connected_peers
      BY <1>4, <2>7 DEF HandleEvent, ConnectionEstablished, ConnectionClosed,
                        OutgoingConnectionError
    <3>2. events'[q] = events[q]
      BY <1>0, <2>2, <2>7
    <3> QED BY <2>1, <3>1, <3>2, ExplainedFrame
  <2> QED BY <1>4, <2>3, <2>4, <2>5, <2>6, <2>7 DEF HandleEvent
<1>5. ASSUME UNCHANGED <<events, connected_peers, established>>
      PROVE  \A q \in Peers : Explained(q)'
  BY <1>5, ExplainedFrame
<1>6. ASSUME NEW p \in Peers, PeerConnects(p) \/ DialSucceeds(p)
      PROVE  \A q \in Peers : Explained(q)'
  BY <1>1, <1>6 DEF PeerConnects, DialSucceeds, actor
<1>7. ASSUME NEW p \in Peers, ExecuteDial(p) \/ handle_retry_peer_redial(p)
      PROVE  \A q \in Peers : Explained(q)'
  BY <1>5, <1>7 DEF ExecuteDial, handle_retry_peer_redial, actor, swarm
<1>8. CASE ExecuteStatusRequest \/ UNCHANGED vars
  BY <1>5, <1>8 DEF ExecuteStatusRequest, vars, actor, swarm
<1> QED BY <1>2, <1>3, <1>4, <1>6, <1>7, <1>8 DEF Next

-----------------------------------------------------------------------------
LEMMA NeverForgottenStep ==
    ASSUME IInv, TypeOK', [Next]_vars
    PROVE  NeverForgotten'
<1> SUFFICES ASSUME NEW q \in Bootnodes, q \notin connected_peers'
             PROVE  \/ timers'[q] > 0 \/ commands'[q] > 0
                    \/ dialing'[q] > 0 \/ events'[q] # <<>>
  BY DEF NeverForgotten
<1>0. /\ q \in Peers /\ TypeOK /\ Explained(q)
      /\ timers[q] \in Nat /\ commands[q] \in Nat /\ dialing[q] \in Nat
  BY Zenon, PeersAssumption DEF IInv, TypeOK
<1>a. timers \in [Peers -> Nat] /\ dialing \in [Peers -> Nat]
  BY Zenon, <1>0 DEF TypeOK
<1>1. q \notin connected_peers =>
          timers[q] > 0 \/ commands[q] > 0 \/ dialing[q] > 0 \/ events[q] # <<>>
  BY DEF IInv, NeverForgotten
<1>2. ASSUME NEW e, Emit(q, e)
      PROVE  events'[q] # <<>>
  BY <1>0, <1>2 DEF Emit, TypeOK
<1>3. ASSUME NEW p \in Peers, PeerConnects(p) \/ DialSucceeds(p) \/ DialFails(p) \/ ConnectionLost(p)
      PROVE  \/ timers'[q] > 0 \/ commands'[q] > 0
             \/ dialing'[q] > 0 \/ events'[q] # <<>>
  <2>1. CASE p = q
    BY <1>2, <1>3, <2>1 DEF PeerConnects, DialSucceeds, DialFails, ConnectionLost, Open
  <2>2. CASE p # q
    <3>1. dialing'[q] = dialing[q] /\ events'[q] = events[q]
      BY ZenonT(30), <1>0, <1>3, <2>2 DEF PeerConnects, DialSucceeds, DialFails, ConnectionLost, Open, Emit,
                              TypeOK
    <3>2. UNCHANGED <<connected_peers, timers, commands>>
      BY <1>3 DEF PeerConnects, DialSucceeds, DialFails, ConnectionLost, actor
    <3> QED BY <1>1, <3>1, <3>2
  <2> QED BY <2>1, <2>2
<1>4. ASSUME NEW p \in Peers, ExecuteDial(p)
      PROVE  \/ timers'[q] > 0 \/ commands'[q] > 0
             \/ dialing'[q] > 0 \/ events'[q] # <<>>
  <2>1. UNCHANGED <<connected_peers, timers, events, established>>
    BY <1>4 DEF ExecuteDial, actor
  <2>2. CASE p = q
    <3>1. CASE dialing' = [dialing EXCEPT ![q] = @ + 1]
      <4>1. dialing'[q] = dialing[q] + 1
        BY <1>0, <1>a, <3>1
      <4> QED BY <1>0, <4>1
    <3>2. CASE established[q] > 0 /\ UNCHANGED dialing
      <4>1. PICK c : /\ Explains(events[q], c)
                     /\ q \in connected_peers <=> c[1] > 0
                     /\ established[q] = c[Len(events[q]) + 1]
        BY <1>0 DEF Explained
      <4>2. events[q] = <<>> => Len(events[q]) + 1 = 1
        OBVIOUS
      <4> QED BY <2>1, <3>2, <4>1, <4>2
    <3>3. CASE dialing[q] > 0 /\ UNCHANGED dialing
      BY <3>3
    <3> QED BY <1>4, <2>2, <3>1, <3>2, <3>3 DEF ExecuteDial
  <2>3. CASE p # q
    <3>1. commands'[q] = commands[q] /\ dialing'[q] = dialing[q]
      BY Zenon, <1>0, <1>4, <2>3 DEF ExecuteDial, TypeOK
    <3> QED BY <1>1, <2>1, <3>1
  <2> QED BY <2>2, <2>3
<1>5. ASSUME NEW p \in Peers, HandleEvent(p)
      PROVE  \/ timers'[q] > 0 \/ commands'[q] > 0
             \/ dialing'[q] > 0 \/ events'[q] # <<>>
  <2>1. UNCHANGED <<commands, dialing, established>>
    BY <1>5 DEF HandleEvent, ConnectionEstablished, ConnectionClosed, OutgoingConnectionError, swarm
  <2>2. CASE p = q
    <3>1. PICK k : Receive(q, k) /\ Head(events[q]).kind = k
      BY Zenon, <1>5, <2>2 DEF HandleEvent, ConnectionEstablished, ConnectionClosed,
                        OutgoingConnectionError, Receive
    <3>2. PICK a \in Nat, b \in Nat : /\ q \in connected_peers <=> a > 0
                                     /\ Tells(Head(events[q]), a, b)
      BY <1>0, <2>1, <3>1, ExplainedReceive
    <3>3. ASSUME ScheduleRedial(q) PROVE timers'[q] > 0
      <4>1. timers'[q] = timers[q] + 1
        BY <1>0, <1>a, <3>3 DEF ScheduleRedial
      <4> QED BY <1>0, <4>1
    <3>4. CASE ConnectionEstablished(q)
      BY <3>2, <3>4 DEF ConnectionEstablished, Receive, Tells
    <3>5. CASE ConnectionClosed(q)
      BY <3>2, <3>3, <3>5 DEF ConnectionClosed, Receive, Tells
    <3>6. CASE OutgoingConnectionError(q)
      BY <3>2, <3>3, <3>6 DEF OutgoingConnectionError, Receive, Tells
    <3> QED BY <1>5, <2>2, <3>4, <3>5, <3>6 DEF HandleEvent
  <2>3. CASE p # q
    <3>1. events'[q] = events[q]
      BY Zenon, <1>0, <1>5, <2>3 DEF HandleEvent, ConnectionEstablished, ConnectionClosed,
                              OutgoingConnectionError, Receive, TypeOK
    <3>2. timers'[q] = timers[q]
      BY Zenon, <1>0, <1>5, <2>3 DEF HandleEvent, ConnectionEstablished, ConnectionClosed,
                              OutgoingConnectionError, ScheduleRedial, TypeOK
    <3>3. q \notin connected_peers
      BY <1>5, <2>3 DEF HandleEvent, ConnectionEstablished, ConnectionClosed,
                        OutgoingConnectionError
    <3> QED BY <1>1, <2>1, <3>1, <3>2, <3>3
  <2> QED BY <2>2, <2>3
<1>6. ASSUME NEW p \in Peers, handle_retry_peer_redial(p)
      PROVE  \/ timers'[q] > 0 \/ commands'[q] > 0
             \/ dialing'[q] > 0 \/ events'[q] # <<>>
  <2>1. UNCHANGED <<connected_peers, events, dialing>>
    BY <1>6 DEF handle_retry_peer_redial, swarm
  <2>2. CASE p = q
    BY <1>0, <1>6, <2>1, <2>2 DEF handle_retry_peer_redial, TypeOK
  <2>3. CASE p # q
    <3>1. timers'[q] = timers[q] /\ commands'[q] = commands[q]
      BY <1>0, <1>6, <2>3 DEF handle_retry_peer_redial, TypeOK
    <3> QED BY <1>1, <2>1, <3>1
  <2> QED BY <2>2, <2>3
<1>7. CASE ExecuteStatusRequest \/ UNCHANGED vars
  BY <1>1, <1>7 DEF ExecuteStatusRequest, vars, actor, swarm
<1> QED BY <1>3, <1>4, <1>5, <1>6, <1>7 DEF Next

-----------------------------------------------------------------------------
LEMMA ExplainedInit == ASSUME Init, NEW p \in Peers PROVE Explained(p)
<1> DEFINE c == [i \in {1} |-> 0]
<1>1. events[p] = <<>> /\ established[p] = 0 /\ connected_peers = {}
  BY DEF Init
<1>2. Explains(<<>>, c)
  BY DEF Explains
<1> QED BY <1>1, <1>2 DEF Explained

\* The explanation of the queued events is inductive together with the types.
THEOREM Invariance == Spec => []IInv
<1>1. Init => IInv
  <2>1. Init => NeverForgotten
    BY PeersAssumption DEF Init, NeverForgotten
  <2> QED BY <2>1, TypeInit, ExplainedInit DEF IInv
<1>2. IInv /\ [Next]_vars => IInv'
  <2> SUFFICES ASSUME IInv, [Next]_vars PROVE IInv'
    OBVIOUS
  <2>1. TypeOK'
    BY TypeStep DEF IInv
  <2>2. \A p \in Peers : Explained(p)'
    BY <2>1, ExplainedStep DEF IInv
  <2>3. NeverForgotten'
    BY <2>1, NeverForgottenStep
  <2> QED BY <2>1, <2>2, <2>3 DEF IInv
<1> QED BY <1>1, <1>2, PTL DEF Spec

(***************************************************************************)
(* For any peers, connections and losses: once a peer's events are handled *)
(* connected_peers holds it exactly when a connection to it is open.       *)
(***************************************************************************)
THEOREM ViewCorrect == Spec => []ViewCatchesUp
<1>1. IInv => ViewCatchesUp
  <2> SUFFICES ASSUME IInv, NEW p \in Peers, events[p] = <<>>
               PROVE  p \in connected_peers <=> established[p] > 0
    BY DEF ViewCatchesUp
  <2>1. PICK c : /\ Explains(events[p], c)
                 /\ p \in connected_peers <=> c[1] > 0
                 /\ established[p] = c[Len(events[p]) + 1]
    BY DEF IInv, Explained
  <2>2. Len(events[p]) + 1 = 1
    OBVIOUS
  <2> QED BY <2>1, <2>2
<1> QED BY <1>1, Invariance, PTL

(***************************************************************************)
(* For any peers, connections and losses: a bootnode handle_swarm_event    *)
(* has recorded as disconnected always has a redial, a dial or an event on *)
(* its way.                                                                *)
(***************************************************************************)
THEOREM BootnodesRemembered == Spec => []NeverForgotten
<1>1. IInv => NeverForgotten
  BY DEF IInv
<1> QED BY <1>1, Invariance, PTL

\* The variables keep their types.
THEOREM TypeCorrect == Spec => []TypeOK
<1>1. IInv => TypeOK
  BY DEF IInv
<1> QED BY <1>1, Invariance, PTL
=============================================================================
