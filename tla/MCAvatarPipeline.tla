-------------------------- MODULE MCAvatarPipeline --------------------------
(* Values for TLC. *)
EXTENDS AvatarPipeline, TLC

CONSTANTS a1, a2, u1, u2

MCOwner == (a1 :> u1) @@ [a \in Avatars |-> u2]

Symmetry == Permutations(Deletes) \cup Permutations(Workers)

---------------------------------------------------------------------------
(* What the code's tests and documents say, and the code does not do *)

\* "success soft deletes and publishes delete event with all keys": the
\* published event lists every thumbnail of the row that was deleted.
DeleteEventNamesAllKeys ==
  \A d \in Deletes : delete[d].pc = "done" =>
    delete[d].event.thumbs = db[delete[d].event.avatar].thumbs

=============================================================================
