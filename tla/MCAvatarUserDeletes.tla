------------------------ MODULE MCAvatarUserDeletes ------------------------
(* Values for TLC. *)
EXTENDS AvatarUserDeletes, TLC

CONSTANTS a1, a2, u1

MCOwner == [a \in Avatars |-> u1]

Symmetry == Permutations(Avatars) \cup Permutations(UserDeletes)

=============================================================================
