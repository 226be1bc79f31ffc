---------------------------- MODULE MCBlockSync -----------------------------
(***************************************************************************)
(* Instances of BlockSync for TLC: a chain of three blocks.                *)
(*                                                                         *)
(*      g <- b1 <- b2 <- b3                                                *)
(***************************************************************************)
EXTENDS BlockSync

MCParents == [g |-> "zero", b1 |-> "g", b2 |-> "b1", b3 |-> "b2"]

MCSlots == [g |-> 0, b1 |-> 1, b2 |-> 2, b3 |-> 3]

MCPosts == [g  |-> [justified |-> "g",  finalized |-> "g"],
            b1 |-> [justified |-> "g",  finalized |-> "g"],
            b2 |-> [justified |-> "b1", finalized |-> "g"],
            b3 |-> [justified |-> "b2", finalized |-> "b1"]]

MCParentOf == [b \in Blocks |-> MCParents[b]]

MCSlotOf == [b \in Blocks |-> MCSlots[b]]

MCPost == [b \in Blocks |-> MCPosts[b]]

MCAncestors ==
    LET before[b \in Blocks] ==
            {MCParents[b]} \cup (IF MCParents[b] \in Blocks THEN before[MCParents[b]] ELSE {})
    IN  before
=============================================================================
