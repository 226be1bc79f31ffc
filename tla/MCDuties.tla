------------------------------ MODULE MCDuties ------------------------------
(***************************************************************************)
(* Two slots and more; one of the two validators is ours, so that it       *)
(* proposes in odd slots and votes in even ones.  The process starts       *)
(* before genesis or after it.  Genesis, at 3 s, is 600 ms off the grid of *)
(* 800 ms on which ticks are sent, so that intervals begin 600 ms after    *)
(* them and 200 ms before the next.                                        *)
(***************************************************************************)
EXTENDS DutiesRestart

CONSTANT Late  \* how long after genesis the process may start

MCOurs == {1}

MCStarts == {genesis_time_ms - 400, genesis_time_ms + Late}

MCDelays == {400}
=============================================================================
