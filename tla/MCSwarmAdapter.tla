--------------------------- MODULE MCSwarmAdapter ---------------------------
(***************************************************************************)
(* Instances of SwarmAdapter for TLC.                                      *)
(***************************************************************************)
EXTENDS SwarmAdapter

\* A peer answers with the block, with nothing or with another block.
MCAnswers == [p \in Peers |-> [r \in Roots |-> {{}, {r}, BlockRoots \ {r}}]]
=============================================================================
