-------------------------- MODULE MCAvatarMetadata --------------------------
(* Values for TLC. *)
EXTENDS AvatarMetadata, TLC

CONSTANTS a1, a2, u1

MCOwner == [a \in Avatars |-> u1]

Symmetry == Permutations(Avatars)

=============================================================================
