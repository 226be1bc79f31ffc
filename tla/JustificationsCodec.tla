------------------------ MODULE JustificationsCodec -------------------------
(***************************************************************************)
(* How the votes of StateTransition are kept between two blocks            *)
(* (state_transition/src/lib.rs): process_attestations begins by reading   *)
(* its map from two lists of the state and ends by writing the map back,   *)
(* the roots in order and the votes as one bit list, N bits for each root. *)
(***************************************************************************)
EXTENDS StateTransition

\* Hashes are ordered; `before` is their order.
CONSTANT before(_, _)

ASSUME OrderAssumption ==
    \A q, r, s \in Root : /\ ~before(r, r)
                          /\ before(q, r) /\ before(r, s) => before(q, s)
                          /\ q = r \/ before(q, r) \/ before(r, q)

\* The roots sorted, so that every node writes the same lists.
sorted(roots) ==
    [i \in 1 .. Cardinality(roots) |->
        CHOOSE r \in roots : Cardinality({q \in roots : before(q, r)}) = i - 1]

\* The bit of validator v for the i-th root (from 1).
flat_index_short(i, v) == (i - 1) * (N - 1) + v

flat_index(i, v) == (i - 1) * N + v

serialize_justifications(votes) ==
    LET roots == sorted(DOMAIN votes)
    IN  [justifications_roots |-> roots,
         justifications_validators |->
            [len  |-> Len(roots) * N,
             bits |-> UNION {{flat_index(i, v) : v \in votes[roots[i]]} : i \in DOMAIN roots}]]

\* `skip(i * validator_count).take(validator_count)` for each root.
deserialize_justifications(lists) ==
    LET roots == lists.justifications_roots
        chunk(i) == {v \in Validators :
                        i * N + v \in lists.justifications_validators.bits}
    IN  [r \in {roots[i] : i \in DOMAIN roots} |->
            chunk((CHOOSE i \in DOMAIN roots : roots[i] = r) - 1)]

-----------------------------------------------------------------------------
(***************************************************************************)
(* No vote is lost, moved to another target or to another validator when a *)
(* block ends and the next one begins: serialize_justifications and the    *)
(* start of process_attestations are inverse on every tally there can be,  *)
(* and the lists are well formed bit lists.  StateTransition relies on it  *)
(* when it keeps the map.                                                  *)
(***************************************************************************)
VotesSurviveBlocks ==
    LET lists == serialize_justifications(justifications)
    IN  /\ lists.justifications_validators \in BitLists
        /\ deserialize_justifications(lists) = justifications
=============================================================================
