-------------------------- MODULE MCStorageBackend --------------------------
(***************************************************************************)
(* Instances of StorageBackend for TLC: bytes of two bits, slots on both   *)
(* sides of a carry.                                                       *)
(***************************************************************************)
EXTENDS StorageBackend

MCSlotOf == [r \in Roots |-> <<1, 3, 4, 9>>[r + 1]]
=============================================================================
