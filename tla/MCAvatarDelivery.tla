-------------------------- MODULE MCAvatarDelivery --------------------------
(* Values for TLC. *)
EXTENDS AvatarDelivery, TLC

CONSTANTS a1, a2

=============================================================================
