-------------------------- MODULE MCAvatarErasure --------------------------
(* Values for TLC. *)
EXTENDS AvatarErasure, TLC

CONSTANTS a1, u1

MCOwner == [a \in Avatars |-> u1]

Symmetry == Permutations(Deletes) \cup Permutations(Workers)

=============================================================================
