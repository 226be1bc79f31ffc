-------------------------------- MODULE Maps --------------------------------
(***************************************************************************)
(* Hash maps as functions: a key is present when it is in the domain.      *)
(***************************************************************************)

EmptyMap == [k \in {} |-> k]

Without(map, key) == [k \in DOMAIN map \ {key} |-> map[k]]

Put(map, key, value) == [k \in DOMAIN map \cup {key} |-> IF k = key THEN value ELSE map[k]]
=============================================================================
