--------------------------- MODULE MCBlockImport ----------------------------
(***************************************************************************)
(* Instances of BlockImport, with readers, for TLC: a chain with a fork.   *)
(*                                                                         *)
(*      g <- b1 <- b2 <- b3                                                *)
(*              \\- c2 <- c3                                               *)
(*                                                                         *)
(* b2 justifies b1, b3 justifies b2 and finalizes b1.                      *)
(***************************************************************************)
EXTENDS StoreReaders

MCParents == [g |-> "zero", b1 |-> "g", b2 |-> "b1", b3 |-> "b2", c2 |-> "b1", c3 |-> "c2"]

MCSlots == [g |-> 0, b1 |-> 1, b2 |-> 2, b3 |-> 3, c2 |-> 2, c3 |-> 3]

MCPosts == [g  |-> [justified |-> "g",  finalized |-> "g"],
            b1 |-> [justified |-> "g",  finalized |-> "g"],
            b2 |-> [justified |-> "b1", finalized |-> "g"],
            b3 |-> [justified |-> "b2", finalized |-> "b1"],
            c2 |-> [justified |-> "g",  finalized |-> "g"],
            c3 |-> [justified |-> "g",  finalized |-> "g"]]

MCParentOf == [b \in Blocks |-> MCParents[b]]

MCSlotOf == [b \in Blocks |-> MCSlots[b]]

MCPost == [b \in Blocks |-> MCPosts[b]]

MCAncestors ==
    LET before[b \in Blocks] ==
            {MCParents[b]} \cup (IF MCParents[b] \in Blocks THEN before[MCParents[b]] ELSE {})
    IN  before
=============================================================================
