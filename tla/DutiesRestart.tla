--------------------------- MODULE DutiesRestart ----------------------------
(***************************************************************************)
(* Duties, with a process that may stop at any time, in the middle of a    *)
(* tick too, and be started again.  main.rs loads the keys from their      *)
(* files as they were (read_validator_keys), init_store sets the time of   *)
(* the store to zero, and BlockChain::spawn sends the first Tick at once.  *)
(* No file records what was signed.                                        *)
(***************************************************************************)
EXTENDS Duties

CONSTANT MaxRestarts  \* bound: restarts

ASSUME RestartsAssumption == MaxRestarts \in Nat

VARIABLES
    restarts,  \* how often the process was started again
    started    \* history: the slots in which a process was started

RestartInit ==
    /\ Init
    /\ restarts = 0
    /\ started = {slot_at(now)}

Restart ==
    /\ restarts < MaxRestarts
    /\ restarts' = restarts + 1
    /\ started' = started \cup {slot_at(now)}
    /\ timer' = IF genesis_time_ms > now THEN genesis_time_ms ELSE now
    /\ timestamp' = -1
    /\ time' = 0
    /\ view' \in Views
    /\ last' = [k \in DOMAIN last |-> 0]
    /\ first' = -1
    /\ spent' = 0
    /\ punctual' = TRUE
    /\ UNCHANGED <<now, signatures, failed, late>>

RestartNext ==
    \/ Next /\ UNCHANGED <<restarts, started>>
    \/ Restart

RestartSpec == RestartInit /\ [][RestartNext]_<<vars, restarts, started>>

-----------------------------------------------------------------------------
(***************************************************************************)
(* A key signs two messages for one slot only if a process was started in  *)
(* that very slot, or a tick of it was handled slack or more after a       *)
(* multiple of 800 ms: a restart in one slot never repeats a duty of       *)
(* another, although the store's time starts from zero and catches up, and *)
(* a late tick repeats at most the duties of its own slot (handle_tick,    *)
(* on_tick).                                                               *)
(***************************************************************************)
SignsOnceUnlessRestarted ==
    \A s, t \in signatures :
        s.validator = t.validator /\ s.slot = t.slot /\ s # t => s.slot \in started \cup late
=============================================================================
