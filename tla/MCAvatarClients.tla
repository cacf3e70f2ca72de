-------------------------- MODULE MCAvatarClients --------------------------
(* Values for TLC. *)
EXTENDS AvatarClients, TLC

CONSTANTS a1, a2, u1, u2

MCOwner == (a1 :> u1) @@ [a \in Avatars |-> u2]

\* One user owns every avatar.
MCOneOwner == [a \in Avatars |-> u1]

Symmetry == Permutations(Gets) \cup Permutations(Workers)

=============================================================================
