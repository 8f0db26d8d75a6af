------------------------------ MODULE MCEngine ------------------------------
(* Small instances of Engine for TLC. *)
EXTENDS Engine, TLC

(* Identities are interchangeable; CHOOSE is applied only to Version and   *)
(* Topic.                                                                  *)
Symmetry == Permutations(Token)
LineageSymmetry == Permutations(Workflow) \cup Permutations(Token)

OneSlot == [t \in Topic |-> 1]
TwoSlots == [t \in Topic |-> 2]
=============================================================================
