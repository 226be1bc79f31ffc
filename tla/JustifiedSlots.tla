--------------------------- MODULE JustifiedSlots ---------------------------
(***************************************************************************)
(* The pure helpers of the 3SF-mini state transition:                      *)
(*   - the relative bit window `justified_slots`                           *)
(*     (state_transition/src/justified_slots_ops.rs), and                  *)
(*   - the justifiability schedule `slot_is_justifiable_after`             *)
(*     (state_transition/src/lib.rs).                                      *)
(*                                                                         *)
(* An SSZ BitList is a record: its length and the set of indices (from 0)  *)
(* whose bit is set.  Index i of the window stands for slot                *)
(* finalized_slot + 1 + i; slots up to finalized_slot have no bit and are  *)
(* implicitly justified.                                                   *)
(***************************************************************************)
EXTENDS Integers

\* The bit lists whose set bits lie inside their length.
BitLists == {b \in [len : Nat, bits : SUBSET Nat] : \A i \in b.bits : i < b.len}

EmptyBitList == [len |-> 0, bits |-> {}]

(***************************************************************************)
(* relative_index returns None for a finalized slot; here the option is    *)
(* split into its test and its value.                                      *)
(***************************************************************************)
has_index(target_slot, finalized_slot) == target_slot > finalized_slot

relative_index(target_slot, finalized_slot) == target_slot - finalized_slot - 1

\* A slot past the end of the window reads as false (`unwrap_or(false)`).
is_slot_justified(slots, finalized_slot, target_slot) ==
    has_index(target_slot, finalized_slot)
        => relative_index(target_slot, finalized_slot) \in slots.bits

\* `slots.set(idx, true).expect("index out of bounds")`: does the call succeed?
set_justified_in_bounds(slots, finalized_slot, target_slot) ==
    has_index(target_slot, finalized_slot)
        => relative_index(target_slot, finalized_slot) < slots.len

set_justified(slots, finalized_slot, target_slot) ==
    IF has_index(target_slot, finalized_slot)
    THEN [len  |-> slots.len,
          bits |-> slots.bits \cup {relative_index(target_slot, finalized_slot)}]
    ELSE slots

\* Grow the window, never shrink it; the new bits are unset.
extend_to_slot_short(slots, finalized_slot, target_slot) ==
    IF /\ has_index(target_slot, finalized_slot)
       /\ slots.len < relative_index(target_slot, finalized_slot)
    THEN [len  |-> relative_index(target_slot, finalized_slot),
          bits |-> slots.bits]
    ELSE slots

extend_to_slot(slots, finalized_slot, target_slot) ==
    IF /\ has_index(target_slot, finalized_slot)
       /\ slots.len < relative_index(target_slot, finalized_slot) + 1
    THEN [len  |-> relative_index(target_slot, finalized_slot) + 1,
          bits |-> slots.bits]
    ELSE slots

\* Drop the first `delta` bits; dropping all of them leaves the empty list.
shift_window_by_one_less(slots, delta) ==
    IF delta >= slots.len
    THEN IF delta = 0 THEN slots ELSE EmptyBitList
    ELSE [len  |-> slots.len - delta,
          bits |-> {i \in 0 .. (slots.len - delta - 1) : i + delta - 1 \in slots.bits}]

shift_window(slots, delta) ==
    IF delta >= slots.len
    THEN IF delta = 0 THEN slots ELSE EmptyBitList
    ELSE [len  |-> slots.len - delta,
          bits |-> {i \in 0 .. (slots.len - delta - 1) : i + delta \in slots.bits}]

(***************************************************************************)
(* The schedule.  `isqrt` is the integer square root of the standard       *)
(* library.  The checked_mul and checked_add on u64 cannot fail for slots  *)
(* below HISTORICAL_ROOTS_LIMIT (2^18).                                    *)
(***************************************************************************)
isqrt(n) == CHOOSE r \in 0 .. n : r * r <= n /\ n < (r + 1) * (r + 1)

is_square(n) == isqrt(n) * isqrt(n) = n

slot_is_justifiable_after(slot, finalized_slot) ==
    LET delta == slot - finalized_slot
    IN  /\ delta >= 0
        /\ \/ delta <= 5
           \/ is_square(delta)
           \/ is_square(4 * delta + 1) /\ (4 * delta + 1) % 2 = 1
=============================================================================
