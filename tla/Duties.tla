------------------------------- MODULE Duties -------------------------------
(***************************************************************************)
(* The clock of the blockchain actor (crates/blockchain/src/lib.rs,        *)
(* handle_tick and on_tick; crates/blockchain/src/store.rs, on_tick): when *)
(* it ticks, which intervals of the fork choice a tick runs, and what the  *)
(* node's validators sign.                                                 *)
(*                                                                         *)
(* Time is in milliseconds.  The actor reads the clock once, when it takes *)
(* a Tick from its mailbox, and starts the next timer when it is done.     *)
(* Other messages and the duties themselves take time, so a tick may be    *)
(* handled any time after its timer ran out.                               *)
(***************************************************************************)
EXTENDS Integers

CONSTANTS
    N,             \* number of validators
    Ours,          \* the validators whose keys this node has
    genesis_time,  \* in seconds
    Starts,        \* when the process may start
    Delays,        \* by how much the clock may advance between two steps
    Views,         \* what the head, target and source of a vote may be
    MaxNow         \* bound: the clock

MILLISECONDS_PER_INTERVAL == 800

INTERVALS_PER_SLOT == 5

MILLISECONDS_PER_SLOT == MILLISECONDS_PER_INTERVAL * INTERVALS_PER_SLOT

ASSUME DutiesAssumption ==
    /\ N \in Nat \ {0}
    /\ Ours \subseteq 0 .. N - 1
    /\ genesis_time \in Nat
    /\ Starts \subseteq Nat
    /\ Delays \subseteq Nat
    /\ MaxNow \in Nat

VARIABLES
    now,         \* the system clock
    timer,       \* when the next Tick is sent; -1 while a tick is handled
    timestamp,   \* what the tick handled last read from the clock, or -1
    time,        \* store.time(): intervals since genesis
    view,        \* what a vote cast now would say
    signatures,  \* history: [validator, slot, message] signed so far
    failed,      \* history: what should have been signed and could not
    last,        \* history: last[k]: the latest interval of kind k that was run
    first,       \* history: the interval of the first tick, or -1
    spent,       \* history: how long the last tick was handled
    punctual,    \* history: no tick so far was late by slack or more
    late         \* history: slots of ticks handled slack or more after a multiple of 800 ms

history == <<signatures, failed, last, first, punctual, late>>

vars == <<now, timer, timestamp, time, view, history, spent>>

genesis_time_ms == genesis_time * 1000

\* timestamp_ms.saturating_sub(genesis_time_ms)
since_genesis(t) == IF t > genesis_time_ms THEN t - genesis_time_ms ELSE 0

slot_at(t) == since_genesis(t) \div MILLISECONDS_PER_SLOT

interval_at(t) == (since_genesis(t) % MILLISECONDS_PER_SLOT) \div MILLISECONDS_PER_INTERVAL

is_proposer(validator, slot) == slot % N = validator

\* BlockChain::spawn: the first Tick comes at genesis, or at once.
Init ==
    /\ now \in Starts
    /\ timer = IF genesis_time_ms > now THEN genesis_time_ms ELSE now
    /\ timestamp = -1
    /\ time = 0
    /\ view \in Views
    /\ signatures = {}
    /\ failed = {}
    /\ last = [k \in 0 .. INTERVALS_PER_SLOT - 1 |-> 0]
    /\ first = -1
    /\ spent = 0
    /\ punctual = TRUE
    /\ late = {}

(***************************************************************************)
(* store::on_tick catches up with the clock, one interval after the other; *)
(* more than a slot behind, it first skips to a slot before.               *)
(***************************************************************************)
fast_forward_short(target) ==
    IF target - time > INTERVALS_PER_SLOT THEN target - INTERVALS_PER_SLOT + 1 ELSE time

fast_forward(target) ==
    IF target - time > INTERVALS_PER_SLOT THEN target - INTERVALS_PER_SLOT ELSE time

\* The latest interval of kind k up to target.
latest_of_kind(k, target) == target - ((target - k) % INTERVALS_PER_SLOT)

\* The loop over intervals; the call that get_proposal_head makes finds nothing
\* left to run.
on_tick(target) ==
    /\ time' = IF target > time THEN target ELSE time
    /\ last' = [k \in DOMAIN last |->
                   IF latest_of_kind(k, target) > fast_forward(target)
                   THEN latest_of_kind(k, target)
                   ELSE last[k]]

\* sign_attestation: the key of a validator signs a message for a slot.
signature(validator, slot, kind, vote) ==
    [validator |-> validator, slot |-> slot, message |-> <<kind, vote>>]

\* get_our_proposer and propose_block: the vote of the proposer is in its block.
propose_block(slot, vote) ==
    {signature(v, slot, "block", vote) : v \in {o \in Ours : slot > 0 /\ is_proposer(o, slot)}}

produce_attestations_by_proposer_too(slot, vote) ==
    {signature(v, slot, "vote", vote) : v \in Ours}

\* produce_attestations: everyone else votes.
produce_attestations(slot, vote) ==
    {signature(v, slot, "vote", vote) : v \in {o \in Ours : ~is_proposer(o, slot)}}

\* The duties of BlockChainServer::on_tick.
duties(slot, interval, vote) ==
    CASE interval = 0 -> propose_block(slot, vote)
      [] interval = 1 -> produce_attestations(slot, vote)
      [] OTHER -> {}

(***************************************************************************)
(* handle_tick sends ticks at the multiples of 800 ms of the system clock, *)
(* and intervals begin at the multiples of 800 ms since genesis.  slack is *)
(* the time from a multiple of 800 ms to the next begin of an interval:    *)
(* 800, or 200, 400 or 600 ms, as genesis_time is any whole second.        *)
(***************************************************************************)
slack ==
    LET offset == genesis_time_ms % MILLISECONDS_PER_INTERVAL
    IN  IF offset = 0 THEN MILLISECONDS_PER_INTERVAL ELSE offset

(***************************************************************************)
(* handle_tick, up to its send_after.  The intervals it runs may change    *)
(* the head, and with it the vote, before the duties are done; building a  *)
(* block or signing may fail, which is logged and not retried.             *)
(***************************************************************************)
HandleTick ==
    /\ timer >= 0
    /\ now >= timer
    /\ timer' = -1
    /\ timestamp' = now
    /\ on_tick(since_genesis(now) \div MILLISECONDS_PER_INTERVAL)
    /\ view' \in Views
    /\ LET due == duties(slot_at(now), interval_at(now), view')
       IN  \E done \in SUBSET due :
               /\ signatures' = signatures \cup done
               /\ failed' = failed \cup (due \ done)
    /\ first' = IF first = -1 THEN since_genesis(now) \div MILLISECONDS_PER_INTERVAL ELSE first
    /\ punctual' = (punctual /\ (first = -1 \/ spent + (now - timer) < slack))
    /\ late' = IF now % MILLISECONDS_PER_INTERVAL >= slack
               THEN late \cup {slot_at(now)}
               ELSE late
    /\ UNCHANGED <<now, spent>>

to_next_interval_unaligned(t) == MILLISECONDS_PER_INTERVAL

to_next_interval(t) == MILLISECONDS_PER_INTERVAL - (t % MILLISECONDS_PER_INTERVAL)

\* The send_after at the end of handle_tick: the delay was computed from the
\* timestamp and starts to run now.
ScheduleTick ==
    /\ timer = -1
    /\ timer' = now + to_next_interval(timestamp)
    /\ spent' = now - timestamp
    /\ UNCHANGED <<now, timestamp, time, view, history>>

\* Time passes.
Advance(d) ==
    /\ now + d <= MaxNow
    /\ now' = now + d
    /\ UNCHANGED <<timer, timestamp, time, view, history, spent>>

\* Another message, a block for example, changes what a vote would say.
OtherMessage ==
    /\ timer >= 0
    /\ view' \in Views
    /\ UNCHANGED <<now, timer, timestamp, time, history, spent>>

Next ==
    \/ HandleTick
    \/ ScheduleTick
    \/ \E d \in Delays : Advance(d)
    \/ OtherMessage

Spec == Init /\ [][Next]_vars

-----------------------------------------------------------------------------
(***************************************************************************)
(* Properties                                                              *)
(***************************************************************************)
\* What the tick and its timer keep: types, and a clock that is never behind.
TypeOK ==
    /\ now \in Nat
    /\ timer \in Nat \cup {-1}
    /\ timestamp \in -1 .. now
    /\ time \in Nat
    /\ view \in Views
    /\ signatures \cup failed \subseteq
           [validator : Ours, slot : Nat, message : {"block", "vote"} \X Views]
    /\ last \in [0 .. INTERVALS_PER_SLOT - 1 -> Nat]
    /\ first \in Nat \cup {-1}
    /\ spent \in Nat
    /\ punctual \in BOOLEAN
    /\ late \subseteq Nat

(***************************************************************************)
(* ValidatorSecretKey::sign (common/types/src/signature.rs): "The slot is  *)
(* used as part of the XMSS signature scheme to track one-time signature   *)
(* usage".  Read as a promise of the node: no key signs two messages for   *)
(* one slot.  It does not hold: see SignsOnceUnlessLate.                   *)
(***************************************************************************)
SignsOncePerSlot ==
    \A s, t \in signatures : s.validator = t.validator /\ s.slot = t.slot => s = t

(***************************************************************************)
(* What holds, whatever the genesis time: a running process signs two      *)
(* messages for one slot only in a slot in which a tick was handled slack  *)
(* or more after a multiple of 800 ms, so that its timer ran out again in  *)
(* the same interval (handle_tick); never if genesis is such a multiple.   *)
(***************************************************************************)
SignsOnceUnlessLate ==
    \A s, t \in signatures :
        s.validator = t.validator /\ s.slot = t.slot /\ s # t => s.slot \in late

(***************************************************************************)
(* However many intervals a late tick has to catch up with, afterwards the *)
(* latest interval of each kind was run (the fast-forward of               *)
(* store::on_tick): the safe target is updated, and votes are aggregated   *)
(* and promoted, at least once for every kind of interval that was missed. *)
(* (Interval 0 promotes only if the tick that runs it proposes.)           *)
(***************************************************************************)
NoIntervalKindSkipped ==
    \A i \in (time - INTERVALS_PER_SLOT + 1) .. time :
        i > 0 => last[i % INTERVALS_PER_SLOT] = i

(***************************************************************************)
(* Whatever the genesis time, as long as the time a tick takes and the     *)
(* time the next one waits in the mailbox stay below slack together, each  *)
(* validator of the node signs, or tries to, in every slot that began      *)
(* after the first tick (handle_tick ticks in every interval).             *)
(***************************************************************************)
EverySlotSigned ==
    punctual /\ first >= 0 =>
        \A slot \in 1 .. time \div INTERVALS_PER_SLOT :
            /\ first <= slot * INTERVALS_PER_SLOT
            /\ time > slot * INTERVALS_PER_SLOT
            => \A v \in Ours : \E s \in signatures \cup failed :
                   s.validator = v /\ s.slot = slot
=============================================================================
