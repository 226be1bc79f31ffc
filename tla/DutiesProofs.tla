---------------------------- MODULE DutiesProofs ----------------------------
(***************************************************************************)
(* Proofs about the clock of the blockchain actor, for every number of     *)
(* validators, every genesis time, every set of delays, every start and    *)
(* every number of restarts.                                               *)
(***************************************************************************)
EXTENDS DutiesRestart, TLAPS

\* The time the provers have for a leaf; the leaves that are pure logic name Zenon.
USE SMTT(30), ZenonT(30)

RestartVars == <<vars, restarts, started>>

\* The interval since genesis that a time belongs to.
Intervals(t) == since_genesis(t) \div MILLISECONDS_PER_INTERVAL

\* The interval in which a signature is made.
Moment(s) == s.slot * INTERVALS_PER_SLOT + IF s.message[1] = "block" THEN 0 ELSE 1

-----------------------------------------------------------------------------
(***************************************************************************)
(* The arithmetic of the clock.                                            *)
(***************************************************************************)
\* The constants of lib.rs are numbers.
LEMMA Numbers ==
    /\ MILLISECONDS_PER_INTERVAL = 800
    /\ INTERVALS_PER_SLOT = 5
    /\ MILLISECONDS_PER_SLOT = 4000
    /\ genesis_time_ms \in Nat
BY DutiesAssumption
   DEF MILLISECONDS_PER_INTERVAL, INTERVALS_PER_SLOT, MILLISECONDS_PER_SLOT, genesis_time_ms

\* A time before genesis counts as genesis (saturating_sub in on_tick).
LEMMA SinceGenesis ==
    ASSUME NEW t \in Nat
    PROVE  /\ since_genesis(t) \in Nat
           /\ t >= genesis_time_ms => since_genesis(t) = t - genesis_time_ms
BY Numbers DEF since_genesis

\* BlockChainServer::on_tick and store::on_tick agree on slot and interval.
LEMMA SlotAndInterval ==
    ASSUME NEW t \in Nat
    PROVE  /\ slot_at(t) \in Nat
           /\ interval_at(t) \in 0 .. 4
           /\ Intervals(t) \in Nat
           /\ Intervals(t) = 5 * slot_at(t) + interval_at(t)
<1> DEFINE d == since_genesis(t)
<1>1. d \in Nat
  BY SinceGenesis
<1>2. slot_at(t) = d \div 4000 /\ interval_at(t) = (d % 4000) \div 800 /\ Intervals(t) = d \div 800
  BY Numbers DEF slot_at, interval_at, Intervals
<1> HIDE DEF d
<1> QED
  BY <1>1, <1>2

\* The timer of handle_tick runs out in the same interval only if the clock was
\* read slack or more after a multiple of 800 ms; and a tick that is handled less
\* than slack after such a multiple is at most one interval further on.
LEMMA NextInterval ==
    ASSUME NEW t \in Nat, t >= genesis_time_ms,
           NEW u \in Nat, u >= t + to_next_interval(t)
    PROVE  /\ Intervals(u) >= Intervals(t)
           /\ Intervals(u) = Intervals(t) => t % 800 >= slack
           /\ u < t + to_next_interval(t) + slack => Intervals(u) <= Intervals(t) + 1
<1> DEFINE g == genesis_time_ms
           o == g % 800
           c == g \div 800
<1>1. g \in Nat /\ o \in 0 .. 799 /\ c \in Nat /\ g = 800 * c + o
  BY Numbers
<1>2. to_next_interval(t) = 800 - (t % 800)
  BY Numbers DEF to_next_interval
<1>3. Intervals(t) = (t - g) \div 800
  BY SinceGenesis, Numbers DEF Intervals
<1>4. u >= g
  BY <1>1, <1>2
<1>5. Intervals(u) = (u - g) \div 800
  BY <1>4, SinceGenesis, Numbers DEF Intervals
<1>6. slack = IF o = 0 THEN 800 ELSE o
  BY Numbers DEF slack
<1> HIDE DEF g, o, c
<1> DEFINE i == (t - g) \div 800
           j == (u - g) \div 800
           k == t \div 800
           r == t % 800
<1>7. /\ i \in Nat /\ 800 * i <= t - g /\ t - g < 800 * i + 800
      /\ k \in Nat /\ r \in 0 .. 799 /\ t = 800 * k + r
  <2>1. t >= g
    BY DEF g
  <2>2. t - g \in Nat
    BY <1>1, <2>1
  <2>3. i \in Nat /\ 800 * i <= t - g /\ t - g < 800 * i + 800
    BY <1>1, <2>2
  <2>4. k \in Nat /\ r \in 0 .. 799 /\ t = 800 * k + r
    OBVIOUS
  <2> QED
    BY <2>3, <2>4
<1>8. j \in Nat /\ 800 * j <= u - g /\ u - g < 800 * j + 800
  <2>1. u - g \in Nat
    BY <1>1, <1>4
  <2> QED
    BY <1>1, <2>1
<1> HIDE DEF i, j, k, r
<1>9. u >= 800 * k + 800
  BY <1>2, <1>7 DEF r
<1>10. j >= i
  BY <1>1, <1>7, <1>8, <1>9
<1>11. ASSUME i = j PROVE r >= slack
  <2>1. 800 * (k - c - i) < o /\ r - o >= 800 * (i + c - k)
    BY <1>1, <1>7, <1>8, <1>9, <1>11
  <2>2. CASE o = 0
    <3>1. k - c - i <= -1
      BY <1>1, <1>7, <2>1, <2>2
    <3> QED
      BY <1>1, <1>6, <1>7, <2>1, <2>2, <3>1
  <2>3. CASE o # 0
    <3>1. k - c - i <= 0
      BY <1>1, <1>7, <2>1
    <3> QED
      BY <1>1, <1>6, <1>7, <2>1, <2>3, <3>1
  <2> QED
    BY <2>2, <2>3
<1>12. ASSUME u < 800 * k + 800 + slack PROVE j <= i + 1
  <2>1. /\ 800 * (j + c - k - 1) < slack - o
        /\ 800 * (k - c - i) + r - o < 800
    BY <1>1, <1>6, <1>7, <1>8, <1>12
  <2>2. CASE o = 0
    <3>1. j + c - k - 1 <= 0
      BY <1>1, <1>6, <1>7, <1>8, <2>1, <2>2
    <3>2. k - c - i <= 0
      BY <1>1, <1>7, <2>1, <2>2
    <3> QED
      BY <1>1, <1>7, <1>8, <3>1, <3>2
  <2>3. CASE o # 0
    <3>1. j + c - k - 1 <= -1
      BY <1>1, <1>6, <1>7, <1>8, <2>1, <2>3
    <3>2. k - c - i <= 1
      BY <1>1, <1>7, <2>1
    <3> QED
      BY <1>1, <1>7, <1>8, <3>1, <3>2
  <2> QED
    BY <2>2, <2>3
<1>13. t + to_next_interval(t) = 800 * k + 800
  BY <1>2, <1>7 DEF r
<1> QED
  BY <1>3, <1>5, <1>10, <1>11, <1>12, <1>13 DEF i, j, r

\* A later time is in the same or a later interval, the same interval in the
\* same slot.
LEMMA LaterInterval ==
    ASSUME NEW t \in Nat, t >= genesis_time_ms, NEW u \in Nat, u >= t
    PROVE  /\ Intervals(t) <= Intervals(u)
           /\ Intervals(t) = Intervals(u) => slot_at(t) = slot_at(u)
<1>1. genesis_time_ms \in Nat
  BY Numbers
<1>2. since_genesis(t) = t - genesis_time_ms /\ since_genesis(u) = u - genesis_time_ms
  BY <1>1, SinceGenesis
<1>3. Intervals(t) = (t - genesis_time_ms) \div 800 /\ Intervals(u) = (u - genesis_time_ms) \div 800
  BY <1>2, Numbers DEF Intervals
<1>4. Intervals(t) <= Intervals(u)
  BY <1>1, <1>3
<1>5. /\ slot_at(t) \in Nat /\ interval_at(t) \in 0 .. 4
      /\ Intervals(t) = 5 * slot_at(t) + interval_at(t)
  BY SlotAndInterval
<1>6. /\ slot_at(u) \in Nat /\ interval_at(u) \in 0 .. 4
      /\ Intervals(u) = 5 * slot_at(u) + interval_at(u)
  BY SlotAndInterval
<1> QED
  BY <1>4, <1>5, <1>6

-----------------------------------------------------------------------------
(***************************************************************************)
(* Types.                                                                  *)
(***************************************************************************)
Signatures == [validator : Ours, slot : Nat, message : {"block", "vote"} \X Views]

\* What a tick signs, and in which interval.
LEMMA DutiesDone ==
    ASSUME NEW slot \in Nat, NEW interval \in 0 .. 4, NEW vote \in Views
    PROVE  \A s \in duties(slot, interval, vote) :
               /\ s \in Signatures
               /\ s.slot = slot
               /\ s.message[2] = vote
               /\ s.message[1] = "block" <=> is_proposer(s.validator, slot)
               /\ Moment(s) = 5 * slot + interval
<1>1. CASE interval = 0
  <2> SUFFICES ASSUME NEW s \in propose_block(slot, vote)
               PROVE  /\ s \in Signatures
                      /\ s.slot = slot
                      /\ s.message[2] = vote
                      /\ s.message[1] = "block" <=> is_proposer(s.validator, slot)
                      /\ Moment(s) = 5 * slot + interval
    BY <1>1 DEF duties
  <2>1. PICK v \in Ours : is_proposer(v, slot) /\ s = signature(v, slot, "block", vote)
    BY DEF propose_block
  <2>2. s = [validator |-> v, slot |-> slot, message |-> <<"block", vote>>]
    BY <2>1 DEF signature
  <2> QED
    BY <1>1, <2>1, <2>2, Numbers DEF Signatures, Moment
<1>2. CASE interval = 1
  <2> SUFFICES ASSUME NEW s \in produce_attestations(slot, vote)
               PROVE  /\ s \in Signatures
                      /\ s.slot = slot
                      /\ s.message[2] = vote
                      /\ s.message[1] = "block" <=> is_proposer(s.validator, slot)
                      /\ Moment(s) = 5 * slot + interval
    BY <1>2 DEF duties
  <2>1. PICK v \in Ours : ~is_proposer(v, slot) /\ s = signature(v, slot, "vote", vote)
    BY DEF produce_attestations
  <2>2. s = [validator |-> v, slot |-> slot, message |-> <<"vote", vote>>]
    BY <2>1 DEF signature
  <2> QED
    BY <1>2, <2>1, <2>2, Numbers DEF Signatures, Moment
<1>3. CASE interval # 0 /\ interval # 1
  BY <1>3 DEF duties
<1> QED
  BY <1>1, <1>2, <1>3

-----------------------------------------------------------------------------
(***************************************************************************)
(* Types and the intervals that are run, whatever the genesis time.        *)
(***************************************************************************)
Started == timer = -1 => timestamp >= 0

TypeInv == TypeOK /\ Started

LEMMA TickTypes ==
    ASSUME TypeInv, HandleTick
    PROVE  TypeInv'
<1> DEFINE target == Intervals(now)
<1>1. target \in Nat /\ slot_at(now) \in Nat /\ interval_at(now) \in 0 .. 4
  BY Zenon, SlotAndInterval DEF TypeInv, TypeOK
<1>2. time' \in Nat
  BY <1>1 DEF HandleTick, on_tick, Intervals, TypeInv, TypeOK
<1>3. last' \in [0 .. INTERVALS_PER_SLOT - 1 -> Nat]
  <2>1. ASSUME NEW k \in 0 .. 4
        PROVE  latest_of_kind(k, target) \in Int
    BY <1>1, Numbers DEF latest_of_kind
  <2>2. fast_forward(target) \in Nat
    BY <1>1, Numbers DEF fast_forward, TypeInv, TypeOK
  <2>3. last \in [0 .. 4 -> Nat]
    BY Numbers DEF TypeInv, TypeOK
  <2>4. last' = [k \in 0 .. 4 |-> IF latest_of_kind(k, target) > fast_forward(target)
                                  THEN latest_of_kind(k, target)
                                  ELSE last[k]]
    BY <2>3 DEF HandleTick, on_tick, Intervals
  <2> HIDE DEF target
  <2>5. last' \in [0 .. 4 -> Nat]
    BY <2>1, <2>2, <2>3, <2>4
  <2> QED
    BY <2>5, Numbers
<1>4. (signatures \cup failed)' \subseteq Signatures
  <2>1. view' \in Views
    BY DEF HandleTick
  <2>2. duties(slot_at(now), interval_at(now), view') \subseteq Signatures
    BY <1>1, <2>1, DutiesDone
  <2> QED
    BY <2>2 DEF HandleTick, TypeInv, TypeOK, Signatures
<1>5. first' \in Nat \cup {-1}
  BY <1>1 DEF HandleTick, Intervals, TypeInv, TypeOK
<1>6. punctual' \in BOOLEAN
  BY Zenon DEF HandleTick
<1>7. late' \subseteq Nat
  BY <1>1 DEF HandleTick, TypeInv, TypeOK
<1> QED
  BY <1>2, <1>3, <1>4, <1>5, <1>6, <1>7 DEF HandleTick, TypeInv, TypeOK, Started, Signatures

LEMMA NextTypes ==
    ASSUME TypeInv, [Next]_vars
    PROVE  TypeInv'
<1>1. CASE HandleTick
  BY <1>1, TickTypes
<1>2. CASE ScheduleTick
  <2>1. timestamp \in Nat /\ now \in Nat /\ timestamp <= now
    BY <1>2 DEF ScheduleTick, TypeInv, TypeOK, Started
  <2>2. now + to_next_interval(timestamp) \in Nat
    BY <2>1, Numbers DEF to_next_interval
  <2> QED
    BY <1>2, <2>1, <2>2 DEF ScheduleTick, TypeInv, TypeOK, Started, history
<1>3. ASSUME NEW d \in Delays, Advance(d)
      PROVE  TypeInv'
  <2>1. d \in Nat
    BY DutiesAssumption
  <2> QED
    BY <1>3, <2>1 DEF Advance, TypeInv, TypeOK, Started, history
<1>4. CASE OtherMessage
  BY <1>4 DEF OtherMessage, TypeInv, TypeOK, Started, history
<1>5. CASE UNCHANGED vars
  BY <1>5 DEF vars, TypeInv, TypeOK, Started, history
<1> QED
  BY <1>1, <1>2, <1>3, <1>4, <1>5 DEF Next

LEMMA InitTypes ==
    ASSUME Init
    PROVE  TypeInv
<1>1. now \in Nat /\ timer \in Nat
  BY DutiesAssumption, Numbers DEF Init
<1>2. last \in [0 .. INTERVALS_PER_SLOT - 1 -> Nat]
  BY Numbers DEF Init
<1> QED
  BY <1>1, <1>2 DEF Init, TypeInv, TypeOK, Started

\* A new process starts with the first timer of BlockChain::spawn.
LEMMA RestartTypes ==
    ASSUME TypeInv, Restart
    PROVE  TypeInv'
<1>1. now' \in Nat /\ timer' \in Nat
  BY Numbers DEF Restart, TypeInv, TypeOK
<1>2. last' \in [0 .. INTERVALS_PER_SLOT - 1 -> Nat]
  BY Numbers DEF Restart, TypeInv, TypeOK
<1> QED
  BY <1>1, <1>2 DEF Restart, TypeInv, TypeOK, Started

LEMMA RestartNextTypes ==
    ASSUME TypeInv, [RestartNext]_RestartVars
    PROVE  TypeInv'
BY NextTypes, RestartTypes DEF RestartNext, RestartVars

(***************************************************************************)
(* The state of the clock keeps its types: the node only signs with its    *)
(* own keys, and no tick is handled before the time it has read.           *)
(***************************************************************************)
THEOREM TypeCorrect == RestartSpec => []TypeOK
<1>1. RestartInit => TypeInv
  BY InitTypes DEF RestartInit
<1>2. TypeInv /\ [RestartNext]_RestartVars => TypeInv'
  BY RestartNextTypes
<1>3. TypeInv => TypeOK
  BY DEF TypeInv
<1> QED
  BY <1>1, <1>2, <1>3, PTL DEF RestartSpec, RestartVars

LEMMA TickRunsKinds ==
    ASSUME TypeInv, NoIntervalKindSkipped, HandleTick
    PROVE  NoIntervalKindSkipped'
<1> DEFINE target == Intervals(now)
<1>1. target \in Nat /\ time \in Nat
  BY Zenon, SlotAndInterval DEF TypeInv, TypeOK
<1>2. time' = IF target > time THEN target ELSE time
  BY DEF HandleTick, on_tick, Intervals
<1>3. last \in [0 .. 4 -> Nat]
  BY Numbers DEF TypeInv, TypeOK
<1>4. last' = [k \in 0 .. 4 |-> IF latest_of_kind(k, target) > fast_forward(target)
                                THEN latest_of_kind(k, target)
                                ELSE last[k]]
  BY <1>3 DEF HandleTick, on_tick, Intervals
<1>5. fast_forward(target) = IF target - time > 5 THEN target - 5 ELSE time
  BY Numbers DEF fast_forward
<1>6. \A k \in 0 .. 4 : latest_of_kind(k, target) = target - ((target - k) % 5)
  BY Numbers DEF latest_of_kind
<1>7. \A i \in (time - 4) .. time : i > 0 => last[i % 5] = i
  <2>1. time - INTERVALS_PER_SLOT + 1 = time - 4
    BY <1>1, Numbers
  <2> QED
    BY <2>1, Numbers DEF NoIntervalKindSkipped
<1> HIDE DEF target
<1>8. ASSUME NEW i \in (time' - 4) .. time', i > 0
      PROVE  last'[i % 5] = i
  <2>1. i \in Nat /\ i % 5 \in 0 .. 4
    BY <1>1, <1>2, <1>8
  <2>2. last'[i % 5] = IF latest_of_kind(i % 5, target) > fast_forward(target)
                       THEN latest_of_kind(i % 5, target)
                       ELSE last[i % 5]
    BY <2>1, <1>4
  <2>3. latest_of_kind(i % 5, target) = target - ((target - (i % 5)) % 5)
    BY <2>1, <1>6
  <2>4. CASE target > time /\ i > time
    <3>1. latest_of_kind(i % 5, target) = i
      BY <2>1, <2>3, <2>4, <1>1, <1>2, <1>8
    <3>2. i > fast_forward(target)
      BY <2>1, <2>4, <1>1, <1>2, <1>5, <1>8
    <3> QED
      BY <2>2, <3>1, <3>2
  <2>5. CASE target > time /\ i <= time
    <3>1. i \in (time - 4) .. time
      BY <2>1, <2>5, <1>1, <1>2, <1>8
    <3>2. latest_of_kind(i % 5, target) = i /\ fast_forward(target) = time
      BY <2>1, <2>3, <2>5, <1>1, <1>2, <1>5, <1>8
    <3> QED
      BY <2>2, <2>5, <2>1, <3>1, <3>2, <1>7, <1>1, <1>8
  <2>6. CASE ~(target > time)
    <3>1. i \in (time - 4) .. time
      BY <2>6, <1>2, <1>8
    <3>2. latest_of_kind(i % 5, target) \in Int /\ latest_of_kind(i % 5, target) <= target
      BY <2>1, <2>3, <1>1
    <3>3. ~(latest_of_kind(i % 5, target) > fast_forward(target))
      BY <3>2, <2>6, <1>1, <1>5
    <3> QED
      BY <2>2, <3>1, <3>3, <1>7, <1>8
  <2> QED
    BY <2>4, <2>5, <2>6, <2>1, <1>1
<1>9. time' - INTERVALS_PER_SLOT + 1 = time' - 4
  BY <1>1, <1>2, Numbers
<1> QED
  BY <1>8, <1>9, Numbers DEF NoIntervalKindSkipped

(***************************************************************************)
(* After every tick the latest interval of each kind was run, wherever the *)
(* fast-forward of store::on_tick had to skip to.                          *)
(***************************************************************************)
THEOREM KindsTheorem == RestartSpec => []NoIntervalKindSkipped
<1>1. RestartInit => TypeInv /\ NoIntervalKindSkipped
  <2> SUFFICES ASSUME RestartInit PROVE NoIntervalKindSkipped
    BY InitTypes DEF RestartInit
  <2>1. time = 0
    BY DEF RestartInit, Init
  <2> QED
    BY <2>1, Numbers DEF NoIntervalKindSkipped
<1>2. TypeInv /\ NoIntervalKindSkipped /\ [RestartNext]_RestartVars
        => (TypeInv /\ NoIntervalKindSkipped)'
  <2> SUFFICES ASSUME TypeInv, NoIntervalKindSkipped, [RestartNext]_RestartVars
               PROVE  NoIntervalKindSkipped'
    BY RestartNextTypes
  <2>1. CASE HandleTick
    BY <2>1, TickRunsKinds
  <2>2. CASE UNCHANGED <<time, last>>
    BY <2>2 DEF NoIntervalKindSkipped
  <2>3. CASE Restart
    <3>1. time' = 0
      BY <2>3 DEF Restart
    <3> QED
      BY <3>1, Numbers DEF NoIntervalKindSkipped
  <2> QED
    BY <2>1, <2>2, <2>3
       DEF RestartNext, RestartVars, Next, ScheduleTick, Advance, OtherMessage, vars, history
<1> QED
  BY <1>1, <1>2, PTL DEF RestartSpec, RestartVars

-----------------------------------------------------------------------------
(***************************************************************************)
(* The inductive invariant behind the duties: store.time() is the interval *)
(* of the last tick, late has its slot if the next one can fall into that  *)
(* interval too, and what was signed belongs to an interval up to it.      *)
(* Before the first tick of a process nothing was signed, unless by an     *)
(* earlier process, in an interval up to the one of the start.             *)
(***************************************************************************)
ClockInv ==
    /\ restarts \in Nat
    /\ timestamp = -1 => /\ time = 0
                         /\ first = -1
                         /\ restarts = 0 => signatures = {}
                         /\ timer >= genesis_time_ms
                         /\ timer = genesis_time_ms \/ timer <= now
                         /\ slot_at(timer) \in started
    /\ timestamp >= 0 => /\ timestamp >= genesis_time_ms
                         /\ time = Intervals(timestamp)
                         /\ first >= 0
                         /\ first <= time
                         /\ timestamp % 800 >= slack => slot_at(timestamp) \in late
    /\ timestamp >= 0 /\ timer >= 0 =>
           timer = timestamp + to_next_interval(timestamp) + spent

\* The latest interval in which something can have been signed.
Latest == IF timestamp = -1 THEN Intervals(timer) ELSE time

SignatureInv ==
    \A s \in signatures \cup failed :
        /\ Moment(s) <= Latest
        /\ s.message[1] = "block" <=> is_proposer(s.validator, s.slot)

\* The proposer signs in interval 0 of its slot, everyone else in interval 1.
Covered ==
    punctual /\ first >= 0 =>
        \A slot \in Nat \ {0}, v \in Ours :
            /\ first <= slot * 5
            /\ slot * 5 + (IF is_proposer(v, slot) THEN 0 ELSE 1) <= time
            => \E s \in signatures \cup failed : s.validator = v /\ s.slot = slot

SignsOnce ==
    /\ SignsOnceUnlessRestarted
    /\ restarts = 0 => SignsOnceUnlessLate

DutyInv == TypeInv /\ ClockInv /\ SignatureInv /\ SignsOnce /\ Covered

\* A tick comes in the interval of the one before only if that one was late, and
\* at most one interval further on if it is punctual.
LEMMA TickInterval ==
    ASSUME TypeInv, ClockInv, HandleTick
    PROVE  /\ now >= genesis_time_ms
           /\ time' = Intervals(now)
           /\ timestamp >= 0 => /\ Intervals(now) >= time
                                /\ Intervals(now) = time => slot_at(now) \in late
           /\ timestamp >= 0 /\ punctual' => Intervals(now) <= time + 1
<1>1. now \in Nat /\ timer \in Nat /\ timestamp \in Nat \cup {-1} /\ spent \in Nat /\ time \in Nat
  BY DEF TypeInv, TypeOK, HandleTick
<1>2. now >= timer
  BY DEF HandleTick
<1>3. time' = IF Intervals(now) > time THEN Intervals(now) ELSE time
  BY DEF HandleTick, on_tick, Intervals
<1>4. Intervals(now) \in Nat
  BY <1>1, SlotAndInterval
<1>5. CASE timestamp = -1
  BY <1>1, <1>2, <1>3, <1>4, <1>5, Numbers DEF ClockInv
<1>6. CASE timestamp >= 0
  <2>1. timestamp \in Nat /\ timestamp >= genesis_time_ms /\ time = Intervals(timestamp) /\ first >= 0
    BY <1>1, <1>6 DEF ClockInv
  <2>2. timer = timestamp + to_next_interval(timestamp) + spent
    BY <1>1, <1>6 DEF ClockInv
  <2>3. to_next_interval(timestamp) \in 1 .. 800
    BY <2>1, Numbers DEF to_next_interval
  <2>4. now >= timestamp + to_next_interval(timestamp)
    BY <1>1, <1>2, <2>1, <2>2, <2>3
  <2>5. /\ Intervals(now) >= Intervals(timestamp)
        /\ Intervals(now) = Intervals(timestamp) => timestamp % 800 >= slack
        /\ now < timestamp + to_next_interval(timestamp) + slack
              => Intervals(now) <= Intervals(timestamp) + 1
    BY <1>1, <2>1, <2>4, NextInterval
  <2>6. now >= genesis_time_ms
    BY <1>1, <2>1, <2>3, <2>4, Numbers
  <2>7. ASSUME Intervals(now) = time PROVE slot_at(now) \in late
    <3>1. slot_at(timestamp) \in late
      BY <1>6, <2>1, <2>5, <2>7 DEF ClockInv
    <3>2. slot_at(timestamp) = slot_at(now)
      BY <1>1, <2>1, <2>3, <2>4, <2>7, LaterInterval
    <3> QED
      BY <3>1, <3>2
  <2>8. ASSUME punctual' PROVE Intervals(now) <= time + 1
    <3>1. spent + (now - timer) < slack
      <4>1. first # -1
        BY <2>1
      <4> QED
        BY ZenonT(30), <2>8, <4>1 DEF HandleTick
    <3>2. slack \in Nat
      BY Numbers DEF slack
    <3> QED
      BY <3>1, <3>2, <1>1, <2>1, <2>2, <2>3, <2>5
  <2>9. Intervals(now) >= time /\ time' = Intervals(now)
    BY <1>1, <1>3, <1>4, <2>1, <2>5
  <2> QED
    BY ZenonT(30), <2>6, <2>7, <2>8, <2>9
<1> QED
  BY <1>1, <1>5, <1>6

LEMMA TickClock ==
    ASSUME TypeInv, ClockInv, HandleTick, UNCHANGED <<restarts, started>>
    PROVE  ClockInv'
<1>1. now \in Nat /\ Intervals(now) \in Nat
  BY Zenon, SlotAndInterval DEF TypeInv, TypeOK
<1>2. timestamp' = now /\ timer' = -1 /\ now' = now
  BY DEF HandleTick
<1>3. now >= genesis_time_ms /\ time' = Intervals(now)
  BY TickInterval
<1>4. first' >= 0 /\ first' <= time'
  <2>1. CASE first = -1
    BY <2>1, <1>1, <1>3 DEF HandleTick, Intervals
  <2>2. CASE first # -1
    <3>1. timestamp >= 0
      BY <2>2 DEF ClockInv, TypeInv, TypeOK
    <3>2. time' >= time /\ first >= 0 /\ first <= time
      BY <3>1, <1>3, TickInterval DEF ClockInv
    <3>3. first' = first /\ first \in Int /\ time \in Int
      BY <2>2 DEF HandleTick, TypeInv, TypeOK
    <3> QED
      BY <3>2, <3>3, <1>1, <1>3
  <2> QED
    BY <2>1, <2>2
<1>5. timestamp' # -1 /\ ~(timer' >= 0) /\ timestamp' >= genesis_time_ms
  BY <1>1, <1>2, <1>3
<1>6. time' = Intervals(timestamp')
  BY <1>2, <1>3
<1>7. /\ Intervals(timestamp)' = Intervals(timestamp')
      /\ slot_at(timestamp)' = slot_at(timestamp')
      /\ slack' = slack
  BY DEF Intervals, slot_at, since_genesis, slack
<1>8. timestamp' % 800 >= slack => slot_at(timestamp') \in late'
  BY <1>2, Numbers DEF HandleTick
<1> QED
  BY <1>4, <1>5, <1>6, <1>7, <1>8 DEF ClockInv

\* What a tick adds belongs to a later interval than anything signed before,
\* unless it is the first tick of a process that was started in the slot, or
\* the tick before was late.
LEMMA TickSignatures ==
    ASSUME DutyInv, HandleTick, UNCHANGED <<restarts, started>>
    PROVE  SignatureInv' /\ SignsOnce'
<1> DEFINE due == duties(slot_at(now), interval_at(now), view')
<1>1. /\ now \in Nat /\ slot_at(now) \in Nat /\ interval_at(now) \in 0 .. 4
      /\ Intervals(now) \in Nat
      /\ Intervals(now) = 5 * slot_at(now) + interval_at(now)
  BY Zenon, SlotAndInterval DEF DutyInv, TypeInv, TypeOK
<1>2. view' \in Views
  BY DEF HandleTick
<1>3. \A s \in due : /\ s \in Signatures
                     /\ s.slot = slot_at(now)
                     /\ s.message[2] = view'
                     /\ s.message[1] = "block" <=> is_proposer(s.validator, s.slot)
                     /\ Moment(s) = Intervals(now)
  BY <1>1, <1>2, DutiesDone
<1>4. /\ time' = Intervals(now) /\ timestamp' = now
      /\ timestamp >= 0 => /\ Intervals(now) >= time
                           /\ Intervals(now) = time => slot_at(now) \in late
      /\ late \subseteq late'
  BY TickInterval DEF DutyInv, HandleTick
<1>5. PICK done \in SUBSET due : /\ signatures' = signatures \cup done
                                 /\ failed' = failed \cup (due \ done)
  BY DEF HandleTick
<1>6. \A s \in signatures \cup failed : /\ s \in Signatures
                                        /\ Moment(s) <= Latest
                                        /\ s.message[1] = "block" <=> is_proposer(s.validator, s.slot)
  BY DEF DutyInv, TypeInv, TypeOK, Signatures, SignatureInv
<1>7. \A s \in Signatures : Moment(s) \in Nat
  BY Numbers DEF Signatures, Moment
<1>8. time \in Nat /\ timer \in Nat /\ timestamp \in Nat \cup {-1} /\ now >= timer
  BY DEF DutyInv, TypeInv, TypeOK, HandleTick
<1>9. /\ Latest \in Nat
      /\ Latest <= Intervals(now)
      /\ Latest = Intervals(now) => \/ slot_at(now) \in late
                                    \/ /\ slot_at(now) \in started
                                       /\ restarts = 0 => signatures = {}
  <2>1. CASE timestamp = -1
    <3>1. timer >= genesis_time_ms /\ slot_at(timer) \in started /\ (restarts = 0 => signatures = {})
      BY <2>1 DEF DutyInv, ClockInv
    <3>2. Latest = Intervals(timer)
      BY <2>1 DEF Latest
    <3>3. Intervals(timer) \in Nat
      BY <1>8, SlotAndInterval
    <3> QED
      BY <3>1, <3>2, <3>3, <1>1, <1>8, LaterInterval
  <2>2. CASE timestamp >= 0
    <3>1. Latest = time
      BY <2>2, <1>8 DEF Latest
    <3> QED
      BY <2>2, <3>1, <1>1, <1>4, <1>8
  <2> QED
    BY <2>1, <2>2, <1>8
<1>10. Latest' = Intervals(now)
  BY <1>1, <1>4 DEF Latest
<1> HIDE DEF due
<1>11. SignatureInv'
  <2> SUFFICES ASSUME NEW s \in signatures' \cup failed'
               PROVE  /\ Moment(s) <= Latest'
                      /\ s.message[1] = "block" <=> is_proposer(s.validator, s.slot)
    BY DEF SignatureInv, Moment, is_proposer
  <2>1. CASE s \in due
    BY <2>1, <1>3, <1>10, <1>1
  <2>2. CASE s \in signatures \cup failed
    BY <2>2, <1>1, <1>6, <1>7, <1>9, <1>10
  <2> QED
    BY <2>1, <2>2, <1>5
\* An old and a new signature for one slot: both are made in this interval.
<1>12. ASSUME NEW s \in signatures, NEW t \in done,
              s.validator = t.validator, s.slot = t.slot
       PROVE  s.slot \in late \/ (s.slot \in started /\ restarts # 0)
  <2>1. s \in Signatures /\ t \in Signatures /\ t \in due
    BY <1>3, <1>6
  <2>2. s.message[1] = "block" <=> t.message[1] = "block"
    BY <2>1, <1>3, <1>6, <1>12
  <2>3. Moment(s) = Moment(t)
    BY <2>2, <1>12 DEF Moment
  <2>4. Latest = Intervals(now)
    BY <2>1, <2>3, <1>1, <1>3, <1>6, <1>7, <1>9
  <2>5. s.slot = slot_at(now)
    BY <2>1, <1>3, <1>12
  <2> QED
    BY <2>4, <2>5, <1>9
<1>13. ASSUME NEW s \in done, NEW t \in done, s.validator = t.validator
       PROVE  s = t
  <2>1. s \in Signatures /\ t \in Signatures /\ s.slot = t.slot /\ s.message[2] = t.message[2]
    BY <1>3
  <2>2. s.message[1] = t.message[1]
    <3>1. s.message[1] = "block" <=> t.message[1] = "block"
      BY <2>1, <1>3, <1>13
    <3> QED
      BY <2>1, <3>1 DEF Signatures
  <2> QED
    BY <2>1, <2>2, <1>13 DEF Signatures
<1>14. SignsOnceUnlessRestarted'
  <2> SUFFICES ASSUME NEW s \in signatures', NEW t \in signatures',
                      s.validator = t.validator, s.slot = t.slot, s # t
               PROVE  s.slot \in started \cup late'
    BY DEF SignsOnceUnlessRestarted
  <2>1. CASE s \in signatures /\ t \in signatures
    BY <2>1, <1>4 DEF DutyInv, SignsOnce, SignsOnceUnlessRestarted
  <2>2. CASE s \in done /\ t \in done
    BY <2>2, <1>13
  <2>3. CASE s \in signatures /\ t \in done
    BY <2>3, <1>4, <1>12
  <2>4. CASE s \in done /\ t \in signatures
    BY <2>4, <1>4, <1>12
  <2> QED
    BY <2>1, <2>2, <2>3, <2>4, <1>5
<1>15. ASSUME restarts = 0 PROVE SignsOnceUnlessLate'
  <2> SUFFICES ASSUME NEW s \in signatures', NEW t \in signatures',
                      s.validator = t.validator, s.slot = t.slot, s # t
               PROVE  s.slot \in late'
    BY DEF SignsOnceUnlessLate
  <2>1. CASE s \in signatures /\ t \in signatures
    BY <2>1, <1>4, <1>15 DEF DutyInv, SignsOnce, SignsOnceUnlessLate
  <2>2. CASE s \in done /\ t \in done
    BY <2>2, <1>13
  <2>3. CASE (s \in signatures /\ t \in done) \/ (s \in done /\ t \in signatures)
    BY <2>3, <1>4, <1>12, <1>15
  <2> QED
    BY <2>1, <2>2, <2>3, <1>5
<1> QED
  BY <1>11, <1>14, <1>15 DEF SignsOnce

\* A punctual tick leaves no duty of its interval out.
LEMMA TickCovers ==
    ASSUME DutyInv, HandleTick
    PROVE  Covered'
<1> DEFINE due == duties(slot_at(now), interval_at(now), view')
<1>1. /\ now \in Nat /\ slot_at(now) \in Nat /\ interval_at(now) \in 0 .. 4
      /\ Intervals(now) \in Nat
      /\ Intervals(now) = 5 * slot_at(now) + interval_at(now)
  BY Zenon, SlotAndInterval DEF DutyInv, TypeInv, TypeOK
<1>2. signatures' \cup failed' = signatures \cup failed \cup due
  BY DEF HandleTick
<1> SUFFICES ASSUME punctual', first' >= 0,
                    NEW slot \in Nat \ {0}, NEW v \in Ours,
                    first' <= slot * 5,
                    slot * 5 + (IF is_proposer(v, slot) THEN 0 ELSE 1) <= time'
             PROVE  \E s \in signatures' \cup failed' : s.validator = v /\ s.slot = slot
  BY DEF Covered, is_proposer
<1>3. time' = Intervals(now) /\ (timestamp >= 0 => Intervals(now) <= time + 1)
  BY TickInterval DEF DutyInv
<1>4. timestamp \in Nat \cup {-1} /\ time \in Nat /\ first \in Nat \cup {-1}
  BY DEF DutyInv, TypeInv, TypeOK
<1> DEFINE moment == slot * 5 + (IF is_proposer(v, slot) THEN 0 ELSE 1)
<1>5. moment \in Nat /\ moment <= Intervals(now)
  BY <1>3
<1>6. CASE moment = Intervals(now)
  <2>1. slot = slot_at(now) /\ interval_at(now) = IF is_proposer(v, slot) THEN 0 ELSE 1
    BY <1>1, <1>6
  <2>2. CASE is_proposer(v, slot)
    <3>1. due = propose_block(slot, view')
      BY <2>1, <2>2 DEF duties
    <3>2. signature(v, slot, "block", view') \in due
      BY <3>1, <2>2 DEF propose_block
    <3> QED
      BY <3>2, <1>2 DEF signature
  <2>3. CASE ~is_proposer(v, slot)
    <3>1. due = produce_attestations(slot, view')
      BY <2>1, <2>3 DEF duties
    <3>2. signature(v, slot, "vote", view') \in due
      BY <3>1, <2>3 DEF produce_attestations
    <3> QED
      BY <3>2, <1>2 DEF signature
  <2> QED
    BY <2>2, <2>3
<1>7. CASE moment < Intervals(now)
  <2>1. timestamp >= 0
    <3> SUFFICES ASSUME timestamp = -1 PROVE FALSE
      BY <1>4
    <3>1. first = -1
      BY DEF DutyInv, ClockInv
    <3>2. first' = Intervals(now)
      BY <3>1 DEF HandleTick, Intervals
    <3> QED
      BY <3>2, <1>1, <1>5, <1>7
  <2>2. first >= 0 /\ first' = first
    BY <2>1 DEF DutyInv, ClockInv, HandleTick
  <2>3. punctual
    BY Zenon DEF HandleTick
  <2>4. moment <= time /\ first <= slot * 5
    <3>1. Intervals(now) <= time + 1
      BY <2>1, <1>3
    <3> HIDE DEF moment
    <3> QED
      BY <2>2, <3>1, <1>1, <1>4, <1>5, <1>7
  <2>5. \E s \in signatures \cup failed : s.validator = v /\ s.slot = slot
    BY <2>2, <2>3, <2>4 DEF DutyInv, Covered
  <2> QED
    BY <2>5, <1>2
<1> QED
  BY <1>1, <1>5, <1>6, <1>7

LEMMA NextDuties ==
    ASSUME DutyInv, [Next]_vars, UNCHANGED <<restarts, started>>
    PROVE  DutyInv'
<1>1. TypeInv'
  BY NextTypes DEF DutyInv
<1>2. CASE HandleTick
  <2>1. ClockInv'
    BY <1>2, TickClock DEF DutyInv
  <2> QED
    BY <1>1, <1>2, <2>1, TickSignatures, TickCovers DEF DutyInv
<1>3. ASSUME UNCHANGED <<timestamp, time, first, signatures, failed, punctual, late>>, Latest' = Latest
      PROVE  SignatureInv' /\ SignsOnce' /\ Covered'
  <2>1. SignatureInv' /\ Covered'
    BY <1>3 DEF DutyInv, SignatureInv, Covered, Moment, is_proposer
  <2>2. SignsOnce'
    BY <1>3 DEF DutyInv, SignsOnce, SignsOnceUnlessLate, SignsOnceUnlessRestarted
  <2> QED
    BY <2>1, <2>2
<1>4. CASE ScheduleTick
  <2>1. ClockInv'
    <3>1. timestamp \in Nat /\ now \in Nat
      BY <1>4 DEF ScheduleTick, DutyInv, TypeInv, TypeOK, Started
    <3>2. to_next_interval(timestamp) \in Nat
      BY <3>1, Numbers DEF to_next_interval
    <3>3. timer' = timestamp + to_next_interval(timestamp) + spent'
      BY <3>1, <3>2, <1>4 DEF ScheduleTick
    <3>4. UNCHANGED <<timestamp, time, first, late>>
      BY <1>4 DEF ScheduleTick, history
    <3>5. /\ to_next_interval(timestamp)' = to_next_interval(timestamp)
          /\ Intervals(timestamp)' = Intervals(timestamp)
          /\ slot_at(timestamp)' = slot_at(timestamp) /\ slack' = slack
      BY <3>4 DEF to_next_interval, Intervals, slot_at, since_genesis, slack
    <3> QED
      BY <3>1, <3>3, <3>4, <3>5 DEF DutyInv, ClockInv
  <2>2. Latest' = Latest
    <3>1. timestamp # -1
      BY <1>4 DEF ScheduleTick, DutyInv, TypeInv, TypeOK, Started
    <3> QED
      BY <3>1, <1>4 DEF ScheduleTick, Latest
  <2> QED
    BY <1>1, <1>3, <1>4, <2>1, <2>2 DEF ScheduleTick, history, DutyInv
<1>5. ASSUME UNCHANGED <<timer, timestamp, time, history, spent>>, now' >= now
      PROVE  DutyInv'
  <2>1. ClockInv'
    <3>1. timestamp = -1 => timer \in Nat /\ now \in Nat /\ now' \in Nat
      BY <1>1 DEF DutyInv, TypeInv, TypeOK, Started
    <3>2. /\ slot_at(timer)' = slot_at(timer) /\ Intervals(timestamp)' = Intervals(timestamp)
          /\ to_next_interval(timestamp)' = to_next_interval(timestamp)
          /\ slot_at(timestamp)' = slot_at(timestamp) /\ slack' = slack
      BY <1>5 DEF slot_at, Intervals, since_genesis, to_next_interval, slack
    <3> QED
      BY <1>5, <3>1, <3>2 DEF DutyInv, ClockInv, history
  <2>2. Latest' = Latest
    BY <1>5 DEF Latest, Intervals, since_genesis
  <2> QED
    BY <1>1, <1>3, <1>5, <2>1, <2>2 DEF history, DutyInv
<1>6. ASSUME NEW d \in Delays, Advance(d)
      PROVE  DutyInv'
  <2>1. now' >= now
    BY <1>6, DutiesAssumption DEF Advance, DutyInv, TypeInv, TypeOK
  <2> QED
    BY <1>5, <1>6, <2>1 DEF Advance
<1>7. CASE OtherMessage \/ UNCHANGED vars
  <2>1. now' = now /\ now \in Nat
    BY <1>7 DEF OtherMessage, vars, DutyInv, TypeInv, TypeOK
  <2> QED
    BY <1>5, <1>7, <2>1 DEF OtherMessage, vars
<1> QED
  BY <1>2, <1>4, <1>6, <1>7 DEF Next

\* What an earlier process signed belongs to an interval up to that of the restart.
LEMMA RestartDuties ==
    ASSUME DutyInv, Restart
    PROVE  DutyInv'
<1>1. TypeInv'
  BY RestartTypes DEF DutyInv
<1>2. /\ now \in Nat /\ time \in Nat /\ timestamp \in -1 .. now /\ timer \in Nat \cup {-1}
      /\ restarts' \in Nat /\ restarts' # 0
  BY DEF DutyInv, TypeInv, TypeOK, ClockInv, Restart
<1>3. timer' \in Nat /\ timer' >= genesis_time_ms
  BY <1>2, Numbers DEF Restart
<1>4. slot_at(timer') \in started'
  <2>1. slot_at(timer') = slot_at(now)
    BY <1>2, Numbers DEF Restart, slot_at, since_genesis
  <2> QED
    BY <2>1 DEF Restart
<1>5. slot_at(timer)' = slot_at(timer') /\ Intervals(timer)' = Intervals(timer')
  BY DEF slot_at, Intervals, since_genesis
<1>6. ClockInv'
  BY <1>2, <1>3, <1>4, <1>5 DEF Restart, ClockInv
<1>7. Latest <= Latest'
  <2>1. Latest' = Intervals(timer')
    BY <1>5 DEF Restart, Latest
  <2>2. CASE timestamp = -1
    <3>1. timer \in Nat /\ timer >= genesis_time_ms /\ timer' >= timer
      BY <2>2, <1>2, <1>3, Numbers DEF DutyInv, TypeInv, Started, ClockInv, Restart
    <3>2. Latest = Intervals(timer)
      BY <2>2 DEF Latest
    <3> QED
      BY <2>1, <3>1, <3>2, <1>3, LaterInterval
  <2>3. CASE timestamp # -1
    <3>1. timestamp \in Nat /\ timestamp >= genesis_time_ms /\ time = Intervals(timestamp)
      BY <2>3, <1>2 DEF DutyInv, ClockInv
    <3>2. timer' >= timestamp
      BY <3>1, <1>2, <1>3, Numbers DEF Restart
    <3>3. Latest = Intervals(timestamp)
      BY <2>3, <3>1 DEF Latest
    <3> QED
      BY <2>1, <3>1, <3>2, <3>3, <1>3, LaterInterval
  <2> QED
    BY <2>2, <2>3
<1>8. SignatureInv'
  <2>1. Latest \in Nat /\ Latest' \in Nat
    <3>1. timestamp = -1 => timer \in Nat
      BY <1>2 DEF DutyInv, TypeInv, Started
    <3>2. timestamp = -1 => Intervals(timer) \in Nat
      BY <3>1, SlotAndInterval
    <3>3. Intervals(timer') \in Nat
      BY <1>3, SlotAndInterval
    <3> QED
      BY <1>2, <1>5, <3>2, <3>3 DEF Latest, Restart
  <2>2. \A s \in Signatures : Moment(s) \in Nat
    BY Numbers DEF Signatures, Moment
  <2>3. signatures' = signatures /\ failed' = failed /\ signatures \cup failed \subseteq Signatures
    BY DEF Restart, DutyInv, TypeInv, TypeOK, Signatures
  <2> SUFFICES ASSUME NEW s \in signatures \cup failed
               PROVE  /\ Moment(s) <= Latest'
                      /\ s.message[1] = "block" <=> is_proposer(s.validator, s.slot)
    BY <2>3 DEF SignatureInv, Moment, is_proposer
  <2>4. Moment(s) <= Latest /\ (s.message[1] = "block" <=> is_proposer(s.validator, s.slot))
    BY DEF DutyInv, SignatureInv
  <2> QED
    BY <1>7, <2>1, <2>2, <2>3, <2>4
<1>9. SignsOnce'
  BY <1>2 DEF Restart, DutyInv, SignsOnce, SignsOnceUnlessRestarted
<1>10. Covered'
  BY DEF Restart, Covered
<1> QED
  BY <1>1, <1>6, <1>8, <1>9, <1>10 DEF DutyInv

LEMMA RestartNextDuties ==
    ASSUME DutyInv, [RestartNext]_RestartVars
    PROVE  DutyInv'
BY NextDuties, RestartDuties DEF RestartNext, RestartVars

LEMMA InitDuties ==
    ASSUME RestartInit
    PROVE  DutyInv
<1>1. now \in Nat /\ TypeInv
  BY InitTypes DEF RestartInit, TypeInv, TypeOK
<1>2. timer >= genesis_time_ms /\ (timer = genesis_time_ms \/ timer <= now)
  BY <1>1, Numbers DEF RestartInit, Init
<1>3. slot_at(timer) \in started
  <2>1. slot_at(timer) = slot_at(now)
    BY <1>1, Numbers DEF RestartInit, Init, slot_at, since_genesis
  <2> QED
    BY <2>1 DEF RestartInit
<1>4. ClockInv
  BY <1>2, <1>3 DEF RestartInit, Init, ClockInv
<1> QED
  BY <1>1, <1>4 DEF RestartInit, Init, DutyInv, SignatureInv, SignsOnce, SignsOnceUnlessLate,
                    SignsOnceUnlessRestarted, Covered

(***************************************************************************)
(* Whatever the genesis time, however late any tick is handled and however *)
(* often the process is started again, a validator key signs two messages  *)
(* for one slot only if a process was started in it or one of its ticks    *)
(* was late by slack or more.                                              *)
(***************************************************************************)
THEOREM RestartTheorem == RestartSpec => []SignsOnceUnlessRestarted
<1>1. RestartInit => DutyInv
  BY InitDuties
<1>2. DutyInv /\ [RestartNext]_RestartVars => DutyInv'
  BY RestartNextDuties
<1>3. DutyInv => SignsOnceUnlessRestarted
  BY DEF DutyInv, SignsOnce
<1> QED
  BY <1>1, <1>2, <1>3, PTL DEF RestartSpec, RestartVars

(***************************************************************************)
(* Until the process is started again a late tick is the only reason for a *)
(* second signature, in the slot of its start too.                         *)
(***************************************************************************)
THEOREM SignsOnceTheorem == RestartSpec => [](restarts = 0 => SignsOnceUnlessLate)
<1>1. RestartInit => DutyInv
  BY InitDuties
<1>2. DutyInv /\ [RestartNext]_RestartVars => DutyInv'
  BY RestartNextDuties
<1>3. DutyInv => (restarts = 0 => SignsOnceUnlessLate)
  BY DEF DutyInv, SignsOnce
<1> QED
  BY <1>1, <1>2, <1>3, PTL DEF RestartSpec, RestartVars

(***************************************************************************)
(* Whatever the genesis time, a node whose ticks are punctual leaves no    *)
(* slot out: handle_tick ticks in every interval.                          *)
(***************************************************************************)
THEOREM EverySlotTheorem == RestartSpec => []EverySlotSigned
<1>1. RestartInit => DutyInv
  BY InitDuties
<1>2. DutyInv /\ [RestartNext]_RestartVars => DutyInv'
  BY RestartNextDuties
<1>3. DutyInv => EverySlotSigned
  <2> SUFFICES ASSUME DutyInv, punctual, first >= 0,
                      NEW slot \in 1 .. time \div INTERVALS_PER_SLOT,
                      first <= slot * INTERVALS_PER_SLOT,
                      time > slot * INTERVALS_PER_SLOT,
                      NEW v \in Ours
               PROVE  \E s \in signatures \cup failed : s.validator = v /\ s.slot = slot
    BY DEF EverySlotSigned
  <2>1. time \in Nat /\ slot \in Nat \ {0}
    BY Numbers DEF DutyInv, TypeInv, TypeOK
  <2>2. first <= slot * 5 /\ slot * 5 + (IF is_proposer(v, slot) THEN 0 ELSE 1) <= time
    BY <2>1, Numbers
  <2> QED
    BY <2>1, <2>2 DEF DutyInv, Covered
<1> QED
  BY <1>1, <1>2, <1>3, PTL DEF RestartSpec, RestartVars
=============================================================================
