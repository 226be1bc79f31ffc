---------------------------- MODULE FetchService ----------------------------
(***************************************************************************)
(* What the P2P actor promises the blockchain actor about missing blocks,  *)
(* peers, requests, retries and timers left out: a root that was asked for *)
(* is being fetched, and a fetch ends by handing the block over once or by *)
(* giving up.  BlockFetch implements it, and BlockSync is built on it.     *)
(***************************************************************************)
CONSTANT Roots

VARIABLES
    fetching,    \* the roots being fetched
    forwarded    \* the roots handed to the blockchain actor

vars == <<fetching, forwarded>>

Init ==
    /\ fetching = {}
    /\ forwarded = {}

Start(root) ==
    /\ root \notin fetching
    /\ fetching' = fetching \cup {root}
    /\ UNCHANGED forwarded

Deliver(root) ==
    /\ root \in fetching
    /\ fetching' = fetching \ {root}
    /\ forwarded' = forwarded \cup {root}

GiveUp(root) ==
    /\ root \in fetching
    /\ fetching' = fetching \ {root}
    /\ UNCHANGED forwarded

Next == \E root \in Roots : Start(root) \/ Deliver(root) \/ GiveUp(root)

Spec == Init /\ [][Next]_vars
=============================================================================
