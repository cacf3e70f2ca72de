---------------------------- MODULE AvatarWorker ----------------------------
(***************************************************************************)
(* The worker processes: each runs an upload consumer and a delete         *)
(* consumer over one AMQP channel (internal/worker), one action per call   *)
(* that a handler makes.  A consumer handles one delivery at a time;       *)
(* messages that the broker has prefetched to it are still counted in the  *)
(* queue here.  So is a message waiting in a retry queue: its time to live *)
(* always ends, and it then returns to the queue with the header it has.   *)
(*                                                                         *)
(* The upload consumer's position:                                         *)
(*   idle -> status -> download -> thumb -> complete -> ack -> idle        *)
(* and, from a handler that returned an error,                             *)
(*   fail -> ack             while retry levels are left                   *)
(*   fail -> markFailed -> ack   once they are used up                     *)
(*                                                                         *)
(* The context given to handlers is derived from the signal context, so    *)
(* once a process is stopping every database and storage call fails; the   *)
(* channel does not look at the context, so publishing and acknowledging   *)
(* still work.  A process that loses its connection never reconnects: its  *)
(* delivery channels close, and the handlers in hand run on without being  *)
(* able to publish or acknowledge.                                         *)
(***************************************************************************)
EXTENDS AvatarBackends

VARIABLES
  ucon,      \* ucon[w]: position, message and next thumbnail of w's upload consumer
  dcon,      \* dcon[w]: message and keys still to delete of w's delete consumer
  stopping,  \* the processes whose signal context is cancelled
  linked     \* the processes whose AMQP connection is up

workerVars == <<ucon, dcon, stopping, linked>>

ConsumerPc ==
  {"idle", "status", "download", "thumb", "complete", "fail", "markFailed", "ack"}

IdleUpload == [pc |-> "idle", msg |-> NoMsg, next |-> 1]
IdleDelete == [msg |-> NoMsg, todo |-> {}]

WorkerTypeOK ==
  /\ ucon \in [Workers -> [pc : ConsumerPc, msg : UploadMsg \cup {NoMsg}, next : 1..(NumSizes + 1)]]
  /\ \A w \in Workers : ucon[w].pc = "idle" <=> ucon[w].msg = NoMsg
  /\ \A w \in Workers : ucon[w].pc = "thumb" => ucon[w].next \in Sizes
  /\ dcon \in [Workers -> [msg : DeleteMsg \cup {NoMsg}, todo : SUBSET (0..NumSizes)]]
  /\ \A w \in Workers : dcon[w].msg = NoMsg => dcon[w].todo = {}
  /\ stopping \subseteq Workers
  /\ linked \subseteq Workers

WorkerInit ==
  /\ ucon = [w \in Workers |-> IdleUpload]
  /\ dcon = [w \in Workers |-> IdleDelete]
  /\ stopping = {}
  /\ linked = Workers

---------------------------------------------------------------------------
(* Calls on the backends, under the process's context *)

WorkerCall(w, done, undone, returned, failed) ==
  \/ w \notin stopping /\ done /\ returned /\ UNCHANGED faults
  \/ w \in stopping /\ undone /\ failed /\ UNCHANGED faults
  \/ Fault("error") /\ undone /\ failed
  \/ Fault("ambiguous") /\ done /\ failed

WorkerRead(w, returned, failed) ==
  \/ w \notin stopping /\ returned /\ UNCHANGED faults
  \/ w \in stopping /\ failed /\ UNCHANGED faults
  \/ Fault("error") /\ failed

---------------------------------------------------------------------------
(* The upload consumer *)

UploadConsumerGoes(w, pc) == ucon' = [ucon EXCEPT ![w] = [pc |-> pc, msg |-> @.msg, next |-> 1]]

DeliverUpload(w, m) ==
  /\ w \in linked
  /\ ucon[w].pc = "idle"
  /\ uploadQ[m] > 0
  /\ uploadQ' = Take(uploadQ, m)
  /\ ucon' = [ucon EXCEPT ![w] = [pc |-> "status", msg |-> m, next |-> 1]]
  /\ UNCHANGED <<dcon, stopping, linked, db, objects, deleteQ, dlq, faults>>

\* Mutation: an event for a completed avatar is an error.
CheckStatusCompletedFails(w) ==
  LET row == db[ucon[w].msg.avatar] IN
  /\ ucon[w].pc = "status"
  /\ WorkerRead(w, UploadConsumerGoes(w, IF Live(row) /\ row.processing # "completed"
                                         THEN "download" ELSE "fail"),
                   UploadConsumerGoes(w, "fail"))
  /\ UNCHANGED <<dcon, stopping, linked, db, objects, uploadQ, deleteQ, dlq>>

\* repo.GetProcessingStatus: no live row is ErrNotFound, completed is success.
CheckStatus(w) ==
  LET row == db[ucon[w].msg.avatar] IN
  /\ ucon[w].pc = "status"
  /\ WorkerRead(w, UploadConsumerGoes(w, IF ~Live(row) THEN "fail"
                                         ELSE IF row.processing = "completed" THEN "ack"
                                         ELSE "download"),
                   UploadConsumerGoes(w, "fail"))
  /\ UNCHANGED <<dcon, stopping, linked, db, objects, uploadQ, deleteQ, dlq>>

\* storage.Download and reading the original to its end
Download(w) ==
  /\ ucon[w].pc = "download"
  /\ WorkerRead(w, UploadConsumerGoes(w, IF <<ucon[w].msg.avatar, 0>> \in objects
                                         THEN "thumb" ELSE "fail"),
                   UploadConsumerGoes(w, "fail"))
  /\ UNCHANGED <<dcon, stopping, linked, db, objects, uploadQ, deleteQ, dlq>>

\* The resizer cannot decode the original.
ResizeFails(w) ==
  /\ ucon[w].pc = "thumb"
  /\ ucon[w].msg.avatar \in Undecodable
  /\ UploadConsumerGoes(w, "fail")
  /\ UNCHANGED <<dcon, stopping, linked, db, objects, uploadQ, deleteQ, dlq, faults>>

\* Mutation: the loop over thumbnailSizes ends one short.
AfterThumbOneShort(k) == IF k + 1 < NumSizes THEN "thumb" ELSE "complete"

\* Mutation: the loop over thumbnailSizes runs one too far.
AfterThumbOneMore(k) == IF k <= NumSizes THEN "thumb" ELSE "complete"

\* Where the loop over thumbnailSizes goes after the k-th.
AfterThumb(k) == IF k < NumSizes THEN "thumb" ELSE "complete"

\* Resize to the next size and storage.Upload of the thumbnail
StoreThumb(w) ==
  LET a == ucon[w].msg.avatar
      k == ucon[w].next
  IN
  /\ ucon[w].pc = "thumb"
  /\ a \notin Undecodable
  /\ WorkerCall(w, objects' = objects \cup {<<a, k>>}, UNCHANGED objects,
                ucon' = [ucon EXCEPT ![w] = [pc |-> AfterThumb(k), msg |-> @.msg, next |-> k + 1]],
                UploadConsumerGoes(w, "fail"))
  /\ UNCHANGED <<dcon, stopping, linked, db, uploadQ, deleteQ, dlq>>

\* repo.UpdateProcessingStatus(completed, thumbs), the thumbnails stored so far
Complete(w) ==
  LET a      == ucon[w].msg.avatar
      thumbs == 1..(ucon[w].next - 1)
  IN
  /\ ucon[w].pc = "complete"
  /\ WorkerCall(w, db' = [db EXCEPT ![a] = UpdateProcessingStatus(@, "completed", thumbs)],
                UNCHANGED db, UploadConsumerGoes(w, "ack"), UploadConsumerGoes(w, "fail"))
  /\ UNCHANGED <<dcon, stopping, linked, objects, uploadQ, deleteQ, dlq>>

---------------------------------------------------------------------------
(* After a failed upload event: republishOrRequeue *)

\* Mutation: the retry is published with the header it came with.
PublishRetrySameCount(w) ==
  /\ ucon[w].pc = "fail"
  /\ w \in linked
  /\ ucon[w].msg.retry < MaxRetry
  /\ uploadQ' = Put(uploadQ, ucon[w].msg)
  /\ UploadConsumerGoes(w, "ack")
  /\ UNCHANGED <<dcon, stopping, linked, db, objects, deleteQ, dlq, faults>>

\* Mutation: the delivery is acknowledged without the retry being published.
PublishRetryDropped(w) ==
  /\ ucon[w].pc = "fail"
  /\ w \in linked
  /\ ucon[w].msg.retry < MaxRetry
  /\ UploadConsumerGoes(w, "ack")
  /\ UNCHANGED <<dcon, stopping, linked, db, objects, uploadQ, deleteQ, dlq, faults>>

\* publishRetryTo the retry queue of this level
PublishRetry(w) ==
  /\ ucon[w].pc = "fail"
  /\ w \in linked
  /\ ucon[w].msg.retry < MaxRetry
  /\ uploadQ' = Put(uploadQ, [ucon[w].msg EXCEPT !.retry = @ + 1])
  /\ UploadConsumerGoes(w, "ack")
  /\ UNCHANGED <<dcon, stopping, linked, db, objects, deleteQ, dlq, faults>>

\* Mutation: the row of a dead-lettered event is not marked failed.
PublishToDLQOnly(w) ==
  /\ ucon[w].pc = "fail"
  /\ w \in linked
  /\ ucon[w].msg.retry >= MaxRetry
  /\ dlq' = dlq \cup {ucon[w].msg.avatar}
  /\ UploadConsumerGoes(w, "ack")
  /\ UNCHANGED <<dcon, stopping, linked, db, objects, uploadQ, deleteQ, faults>>

\* publishToDLQ; marking the row failed comes next
PublishToDLQ(w) ==
  /\ ucon[w].pc = "fail"
  /\ w \in linked
  /\ ucon[w].msg.retry >= MaxRetry
  /\ dlq' = dlq \cup {ucon[w].msg.avatar}
  /\ UploadConsumerGoes(w, "markFailed")
  /\ UNCHANGED <<dcon, stopping, linked, db, objects, uploadQ, deleteQ, faults>>

\* Mutation: the nack does not ask for the delivery to be requeued.
RequeueDropped(w) ==
  /\ ucon[w].pc = "fail"
  /\ w \in linked
  /\ Fault("error")
  /\ ucon' = [ucon EXCEPT ![w] = IdleUpload]
  /\ UNCHANGED <<dcon, stopping, linked, db, objects, uploadQ, deleteQ, dlq>>

\* The publish fails and the delivery is nacked back into the queue.
Requeue(w) ==
  /\ ucon[w].pc = "fail"
  /\ w \in linked
  /\ Fault("error")
  /\ uploadQ' = Put(uploadQ, ucon[w].msg)
  /\ ucon' = [ucon EXCEPT ![w] = IdleUpload]
  /\ UNCHANGED <<dcon, stopping, linked, db, objects, deleteQ, dlq>>

\* Without a connection both the publish and the nack fail; the broker has
\* already put the delivery back.
GiveUp(w) ==
  /\ ucon[w].pc = "fail"
  /\ w \notin linked
  /\ ucon' = [ucon EXCEPT ![w] = IdleUpload]
  /\ UNCHANGED <<dcon, stopping, linked, backendVars>>

\* MarkProcessingFailed, whose error is only logged
MarkProcessingFailed(w) ==
  LET a == ucon[w].msg.avatar IN
  /\ ucon[w].pc = "markFailed"
  /\ WorkerCall(w, db' = [db EXCEPT ![a] = UpdateProcessingStatus(@, "failed", {})],
                UNCHANGED db, UploadConsumerGoes(w, "ack"), UploadConsumerGoes(w, "ack"))
  /\ UNCHANGED <<dcon, stopping, linked, objects, uploadQ, deleteQ, dlq>>

\* delivery.Ack; without a connection it fails, and the error is ignored.
AckUpload(w) ==
  /\ ucon[w].pc = "ack"
  /\ ucon' = [ucon EXCEPT ![w] = IdleUpload]
  /\ UNCHANGED <<dcon, stopping, linked, backendVars>>

---------------------------------------------------------------------------
(* The delete consumer *)

\* The keys of a delete event.
Keys(event) == {0} \cup event.thumbs

DeliverDelete(w, m) ==
  /\ w \in linked
  /\ dcon[w].msg = NoMsg
  /\ deleteQ[m] > 0
  /\ deleteQ' = Take(deleteQ, m)
  /\ dcon' = [dcon EXCEPT ![w] = [msg |-> m, todo |-> Keys(m)]]
  /\ UNCHANGED <<ucon, stopping, linked, db, objects, uploadQ, dlq, faults>>

\* storage.Delete of the next key in the event; its error is ignored.
DeleteKey(w) ==
  \E k \in dcon[w].todo :
    /\ \A j \in dcon[w].todo : k <= j
    /\ LET advance == dcon' = [dcon EXCEPT ![w] = [msg |-> @.msg, todo |-> @.todo \ {k}]] IN
       WorkerCall(w, objects' = objects \ {<<dcon[w].msg.avatar, k>>}, UNCHANGED objects,
                  advance, advance)
    /\ UNCHANGED <<ucon, stopping, linked, db, uploadQ, deleteQ, dlq>>

AckDelete(w) ==
  /\ dcon[w].msg # NoMsg
  /\ dcon[w].todo = {}
  /\ dcon' = [dcon EXCEPT ![w] = IdleDelete]
  /\ UNCHANGED <<ucon, stopping, linked, backendVars>>

---------------------------------------------------------------------------
(* The process and its connection *)

\* Mutation: delete events are consumed with automatic acknowledgement.
ReturnUnackedUploads(w) ==
  /\ uploadQ' = IF w \in linked /\ ucon[w].pc # "idle"
                THEN Put(uploadQ, ucon[w].msg) ELSE uploadQ
  /\ deleteQ' = deleteQ

\* The broker takes back what a connection had not acknowledged.
ReturnUnacked(w) ==
  /\ uploadQ' = IF w \in linked /\ ucon[w].pc # "idle"
                THEN Put(uploadQ, ucon[w].msg) ELSE uploadQ
  /\ deleteQ' = IF w \in linked /\ dcon[w].msg # NoMsg
                THEN Put(deleteQ, dcon[w].msg) ELSE deleteQ

Disconnect(w) ==
  /\ Fault("disconnect")
  /\ w \in linked
  /\ ReturnUnacked(w)
  /\ linked' = linked \ {w}
  /\ UNCHANGED <<ucon, dcon, stopping, db, objects, dlq>>

Sigterm(w) ==
  /\ Fault("sigterm")
  /\ w \notin stopping
  /\ stopping' = stopping \cup {w}
  /\ UNCHANGED <<ucon, dcon, linked, db, objects, uploadQ, deleteQ, dlq>>

\* The process ends and its replacement starts.
Restart(w) ==
  /\ ReturnUnacked(w)
  /\ ucon' = [ucon EXCEPT ![w] = IdleUpload]
  /\ dcon' = [dcon EXCEPT ![w] = IdleDelete]
  /\ stopping' = stopping \ {w}
  /\ linked' = linked \cup {w}
  /\ UNCHANGED <<db, objects, dlq>>

\* Run returns once both consumers have drained or the timeout has passed.
Exit(w) ==
  /\ w \in stopping
  /\ Restart(w)
  /\ UNCHANGED faults

Crash(w) ==
  /\ Fault("crash")
  /\ Restart(w)

UploadConsumerStep(w) ==
  \/ \E m \in UploadMsg : DeliverUpload(w, m)
  \/ CheckStatus(w) \/ Download(w) \/ ResizeFails(w) \/ StoreThumb(w) \/ Complete(w)
  \/ PublishRetry(w) \/ PublishToDLQ(w) \/ Requeue(w) \/ GiveUp(w)
  \/ MarkProcessingFailed(w) \/ AckUpload(w)

DeleteConsumerStep(w) ==
  \/ \E m \in DeleteMsg : DeliverDelete(w, m)
  \/ DeleteKey(w) \/ AckDelete(w)

WorkerNext ==
  \E w \in Workers :
    \/ UploadConsumerStep(w)
    \/ DeleteConsumerStep(w)
    \/ Disconnect(w) \/ Sigterm(w) \/ Exit(w) \/ Crash(w)

=============================================================================
