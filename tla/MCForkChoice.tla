---------------------------- MODULE MCForkChoice ----------------------------
(***************************************************************************)
(* A small tree for ForkChoice:                                            *)
(*                                                                         *)
(*   g0 --- a1 --- b2 --- d4                                               *)
(*            \------------------- c7                                      *)
(*                                                                         *)
(* b2 carries the votes that justify a1, and d4 those that justify b2 and  *)
(* finalize a1.  Slot 7 cannot be justified while g0 is finalized.         *)
(* Validator 3 votes twice in slot 7 (see SignsOncePerSlot of Duties).     *)
(***************************************************************************)
EXTENDS ForkChoice, TLC

MCBlocks == {"g", "a", "b", "c", "d"}

MCParentOf == [a |-> "g", b |-> "a", c |-> "a", d |-> "b"]

MCAncestors == [g |-> {}, a |-> {"g"}, b |-> {"a", "g"}, c |-> {"a", "g"}, d |-> {"b", "a", "g"}]

MCSlotOf == [g |-> 0, a |-> 1, b |-> 2, c |-> 7, d |-> 4]

MCRank == [g |-> 3, a |-> 5, b |-> 4, c |-> 2, d |-> 1]

MCPost == [a |-> [justified |-> "g", finalized |-> "g"],
           b |-> [justified |-> "a", finalized |-> "g"],
           c |-> [justified |-> "g", finalized |-> "g"],
           d |-> [justified |-> "b", finalized |-> "a"]]

Data(slot, h, t, s) == [slot   |-> slot,
                        head   |-> [root |-> h, slot |-> MCSlotOf[h]],
                        target |-> [root |-> t, slot |-> MCSlotOf[t]],
                        source |-> [root |-> s, slot |-> MCSlotOf[s]]]

D1 == Data(1, "a", "a", "g")
D2 == Data(2, "b", "b", "a")
D4 == Data(4, "d", "b", "a")
D7 == Data(7, "c", "a", "g")
E7 == Data(7, "d", "b", "a")

MCBody == [a |-> <<>>,
           b |-> <<[data |-> D1, participants |-> {0, 1, 2}]>>,
           c |-> <<>>,
           d |-> <<[data |-> D2, participants |-> {0, 1, 2}]>>]

MCProposerVote == [a |-> <<1, D1>>, b |-> <<2, D2>>, c |-> <<3, D7>>, d |-> <<0, D4>>]

MCVotes == {<<0, D1>>, <<3, E7>>}

MCAggregates == {[data |-> D2, participants |-> {0, 1, 2}],
                 [data |-> D4, participants |-> {0, 3}],
                 [data |-> D7, participants |-> {1, 2, 3}]}
=============================================================================
