------------------------------ MODULE Finality ------------------------------
(***************************************************************************)
(* What the 3SF-mini bookkeeping promises, over absolute slots: which      *)
(* slots are justified, which slot is finalized, which slot was justified  *)
(* last.  No window, no votes, no roots.  StateTransition implements it.   *)
(***************************************************************************)
EXTENDS JustifiedSlots

CONSTANT Slot   \* the slots a chain can reach

VARIABLES
    finalized,      \* the finalized slot
    justified_set,  \* the justified slots; every finalized slot counts
    latest          \* the slot justified last

vars == <<finalized, justified_set, latest>>

Init ==
    /\ finalized = 0
    /\ justified_set = {0}
    /\ latest = 0

\* No slot strictly between s and t may still be justified.
Consecutive(s, t) ==
    \A u \in (s + 1) .. (t - 1) : ~slot_is_justifiable_after(u, finalized)

(***************************************************************************)
(* Slot t is justified by votes whose source is the justified slot s.  The *)
(* source becomes final when s and t are neighbours in the schedule.       *)
(***************************************************************************)
Justify(s, t) ==
    /\ latest' = t
    /\ s < t
    /\ s \in justified_set
    /\ t \notin justified_set
    /\ slot_is_justifiable_after(t, finalized)
    /\ IF Consecutive(s, t)
       THEN /\ finalized' = s
            /\ justified_set' = justified_set \cup {t} \cup (0 .. s)
       ELSE /\ justified_set' = justified_set \cup {t}
            /\ UNCHANGED finalized

Next == \E s, t \in Slot : Justify(s, t)

Spec == Init /\ [][Next]_vars
=============================================================================
