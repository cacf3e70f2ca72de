-------------------------- MODULE AvatarLifecycle --------------------------
(***************************************************************************)
(* What the service promises of an avatar, with no processes, queues or    *)
(* failures in sight: the phase that its row shows, and how the blobs in   *)
(* the bucket may change in each phase.                                    *)
(***************************************************************************)
EXTENDS Naturals

CONSTANTS Avatars, NumSizes

VARIABLES
  phase,   \* phase[a]: what the row of avatar a says
  objects  \* <<a, 0>>: the original of a; <<a, k>>: its k-th thumbnail

lifecycleVars == <<phase, objects>>

Phases == {"absent", "uploading", "rejected", "uploaded", "ready", "broken", "deleted"}

\* The phases in which the original is promised.
Stored == {"uploaded", "ready", "broken"}

AllBlobs(a) == {a} \X (0..NumSizes)

LifecycleInit == phase = [a \in Avatars |-> "absent"] /\ objects = {}

Moves(a, from, to) ==
  /\ phase[a] \in from
  /\ phase' = [phase EXCEPT ![a] = to]
  /\ UNCHANGED objects

Announce(a) == Moves(a, {"absent"}, "uploading")

Accept(a) == <<a, 0>> \in objects /\ Moves(a, {"uploading"}, "uploaded")

Reject(a) == Moves(a, {"uploading"}, "rejected")

Finish(a) == AllBlobs(a) \subseteq objects /\ Moves(a, Stored, "ready")

Break(a) == Moves(a, Stored, "broken")

Remove(a) == Moves(a, Phases \ {"absent", "deleted"}, "deleted")

\* A blob may arrive late, after the avatar was deleted.
Store(a, k) ==
  /\ phase[a] \in IF k = 0 THEN {"uploading", "deleted"} ELSE Stored \cup {"deleted"}
  /\ objects' = objects \cup {<<a, k>>}
  /\ UNCHANGED phase

Erase(a, k) ==
  /\ phase[a] = "deleted"
  /\ objects' = objects \ {<<a, k>>}
  /\ UNCHANGED phase

LifecycleNext ==
  \E a \in Avatars :
    \/ Announce(a) \/ Accept(a) \/ Reject(a) \/ Finish(a) \/ Break(a) \/ Remove(a)
    \/ \E k \in 0..NumSizes : Store(a, k) \/ Erase(a, k)

Lifecycle == LifecycleInit /\ [][LifecycleNext]_lifecycleVars

\* What a reader may rely on: a stored avatar has its original, a ready one
\* every thumbnail as well.
Promise ==
  \A a \in Avatars :
    /\ phase[a] \in Stored => <<a, 0>> \in objects
    /\ phase[a] = "ready" => AllBlobs(a) \subseteq objects

=============================================================================
