---------------------------- MODULE MCSettlement ----------------------------
(* Instances of Settlement for TLC. *)
EXTENDS Settlement, TLC

CONSTANTS s1, s2

SymmetricSlots == Permutations(Slots)
=============================================================================
