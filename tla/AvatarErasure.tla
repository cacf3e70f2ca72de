--------------------------- MODULE AvatarErasure ---------------------------
(***************************************************************************)
(* The pipeline with a history variable: which of the blobs in the bucket  *)
(* were stored after the row of their avatar had been soft-deleted.  An    *)
(* upload request and a worker do that when a delete overtakes them, for   *)
(* neither looks at the row again before it stores.                        *)
(***************************************************************************)
EXTENDS AvatarPipeline

VARIABLE late  \* the blobs now in the bucket that were stored too late

erasureVars == <<vars, late>>

ErasureTypeOK == TypeOK /\ late \subseteq objects

ErasureInit == Init /\ late = {}

NotesLateBlobs ==
  late' = (late \cap objects') \cup {o \in objects' \ objects : db[o[1]].deleted}

ErasureNext == Next /\ NotesLateBlobs

ErasureSpec == ErasureInit /\ [][ErasureNext]_erasureVars

---------------------------------------------------------------------------
\* The delete event m is in its queue, or with a consumer whose connection
\* still holds it.
ErasePending(m) ==
  \/ deleteQ[m] > 0
  \/ \E w \in linked : dcon[w].msg = m

Erased(o) == o \in objects => o \in late

\* After a delete answered with 204, its event is pending, or of the blobs
\* that it names only those are left that were stored after the row was
\* deleted: crashes, lost connections, redeliveries and racing deletes never
\* make the worker skip one.  (A failing storage.Delete does, and so does the
\* drain after SIGTERM; a publish that is lost names nothing.)
NamedBlobsErased ==
  \A d \in Deletes : delete[d].pc = "done" =>
    LET event == delete[d].event IN
    \/ ErasePending(event)
    \/ \A k \in Keys(event) : Erased(<<event.avatar, k>>)

---------------------------------------------------------------------------
(* The inductive invariant of the proof *)

\* What a delete consumer has ticked off its list is erased.
TickedOffIsErased ==
  \A w \in Workers : dcon[w].msg # NoMsg =>
    \A k \in Keys(dcon[w].msg) \ dcon[w].todo : Erased(<<dcon[w].msg.avatar, k>>)

EInv ==
  /\ IInv
  /\ late \subseteq objects
  /\ stopping = {}
  /\ TickedOffIsErased
  /\ NamedBlobsErased

=============================================================================
