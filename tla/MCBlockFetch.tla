---------------------------- MODULE MCBlockFetch ----------------------------
(***************************************************************************)
(* Instances of BlockFetch for TLC.                                        *)
(***************************************************************************)
EXTENDS BlockFetch

CONSTANTS
    Servers,   \* the peers that have the blocks of Served
    Served,
    Confused   \* the roots for which others may answer with another block

MCAnswers ==
    [p \in Peers |-> [r \in Roots |->
        IF p \in Servers THEN (IF r \in Served THEN {{r}} ELSE {{}})
        ELSE {{}, {r}} \cup (IF r \in Confused THEN {BlockRoots \ {r}, BlockRoots} ELSE {})]]
=============================================================================
