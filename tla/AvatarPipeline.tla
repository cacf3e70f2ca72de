--------------------------- MODULE AvatarPipeline ---------------------------
(***************************************************************************)
(* The whole pipeline: the server's upload and delete requests, the queues *)
(* between, and the worker processes, over one table and one bucket.       *)
(***************************************************************************)
EXTENDS AvatarService, AvatarWorker

vars == <<db, objects, uploadQ, deleteQ, dlq, faults,
          upload, delete, ucon, dcon, stopping, linked>>

TypeOK == BackendsTypeOK /\ ServiceTypeOK /\ WorkerTypeOK

Init == BackendsInit /\ ServiceInit /\ WorkerInit

Next ==
  \/ ServiceNext /\ UNCHANGED workerVars
  \/ WorkerNext /\ UNCHANGED serviceVars

Spec == Init /\ [][Next]_vars

(***************************************************************************)
(* The Go runtime and the backends keep running: a request that has begun  *)
(* takes its next step, a consumer takes a ready message or its next step, *)
(* and a stopping process exits (shutdownTimeout bounds the drain).        *)
(* Nothing obliges clients to send requests, or faults to happen.          *)
(***************************************************************************)
Fairness ==
  /\ \A a \in Avatars : WF_vars(UploadStep(a) /\ UNCHANGED workerVars)
  /\ \A d \in Deletes : WF_vars(DeleteStep(d) /\ UNCHANGED workerVars)
  /\ \A w \in Workers :
       /\ WF_vars(UploadConsumerStep(w) /\ UNCHANGED serviceVars)
       /\ WF_vars(DeleteConsumerStep(w) /\ UNCHANGED serviceVars)
       /\ WF_vars(Exit(w) /\ UNCHANGED serviceVars)

FairSpec == Spec /\ Fairness

---------------------------------------------------------------------------
(* Safety *)

\* A message about avatar a is in its queue, or with a consumer whose
\* connection still holds it and that has not decided to acknowledge it.
UploadPending(a) ==
  \/ \E m \in UploadMsg : m.avatar = a /\ uploadQ[m] > 0
  \/ \E w \in linked : ucon[w].pc \notin {"idle", "ack"} /\ ucon[w].msg.avatar = a

\* The worker only ever records a result for an avatar whose original was
\* stored and marked uploaded (Upload publishes after SetUploaded).
ProcessedOnlyIfUploaded ==
  \A a \in Avatars : db[a].processing # "pending" => db[a].upload = "uploaded"

\* A row that clients can read never promises a blob that is not there: an
\* uploaded row has its original, and every thumbnail it lists is stored.
\* Deletion in the bucket runs behind the row, never ahead of it.
LiveObjectsBacked ==
  \A a \in Avatars : Live(db[a]) =>
    /\ db[a].upload = "uploaded" => <<a, 0>> \in objects
    /\ \A k \in db[a].thumbs : <<a, k>> \in objects

\* A completed row lists every size, any other row none: GetImage never
\* serves a partial set of thumbnails.
ThumbsAllOrNone ==
  \A a \in Avatars : db[a].thumbs = IF db[a].processing = "completed" THEN Sizes ELSE {}

\* An upload answered with 201 is not forgotten: until its thumbnails are
\* recorded or its message is dead-lettered, a copy of the event is pending.
\* (Without publisher confirms this needs that no publish is lost.)
AcceptedNotForgotten ==
  \A a \in Avatars :
    upload[a] = "created" /\ Live(db[a]) =>
      \/ db[a].processing = "completed"
      \/ a \in dlq
      \/ UploadPending(a)

\* However DELETE requests race, at most one of them gets past SoftDelete
\* for an avatar; the others are answered with an error.
DeletedOnce ==
  \A d, e \in Deletes :
    /\ delete[d].pc \in {"publish", "done"}
    /\ delete[e].pc \in {"publish", "done"}
    /\ delete[d].event.avatar = delete[e].event.avatar
    => d = e

---------------------------------------------------------------------------
(***************************************************************************)
(* What the safety properties rest on: the inductive invariant of the      *)
(* proofs.  An upload's row runs with its request; messages in flight and  *)
(* consumers' positions lag behind the row, in a fixed order.              *)
(***************************************************************************)

StoredOrDeleted(a) == db[a].deleted \/ db[a].upload = "uploaded"

\* The row and the original of an avatar follow its upload request.
RowFollowsRequest(a) ==
  /\ upload[a] = "none" => db[a] = NoRow
  /\ upload[a] \in {"store", "markFailed", "markUploaded"} =>
       db[a].deleted \/ db[a].upload = "uploading"
  /\ upload[a] = "markUploaded" => db[a].deleted \/ <<a, 0>> \in objects
  /\ upload[a] \in {"publish", "created"} => StoredOrDeleted(a)

RowsFollowRequests == \A a \in Avatars : RowFollowsRequest(a)

\* An upload event exists only once its row is stored, a delete event only
\* once its row is deleted.
EventsFollowRows ==
  /\ \A m \in UploadMsg : uploadQ[m] > 0 => StoredOrDeleted(m.avatar)
  /\ \A m \in DeleteMsg : deleteQ[m] > 0 => db[m.avatar].deleted
  /\ \A w \in Workers :
       /\ ucon[w].pc # "idle" => StoredOrDeleted(ucon[w].msg.avatar)
       /\ dcon[w].msg # NoMsg => db[dcon[w].msg.avatar].deleted
  /\ \A d \in Deletes :
       delete[d].pc \in {"publish", "done"} => db[delete[d].event.avatar].deleted

\* A consumer's position tells which thumbnails are stored, and that the
\* event was dead-lettered before the row is marked failed.
ProgressIsStored ==
  \A w \in Workers :
    LET a == ucon[w].msg.avatar IN
    /\ ucon[w].pc \in {"thumb", "complete"} /\ ~db[a].deleted =>
         \A k \in 1..(ucon[w].next - 1) : <<a, k>> \in objects
    /\ ucon[w].pc = "complete" => ucon[w].next = NumSizes + 1
    /\ ucon[w].pc = "markFailed" => a \in dlq

IInv ==
  /\ TypeOK
  /\ RowsFollowRequests
  /\ EventsFollowRows
  /\ ProgressIsStored
  /\ ProcessedOnlyIfUploaded
  /\ ThumbsAllOrNone
  /\ LiveObjectsBacked
  /\ DeletedOnce

\* What CompletedOutlivesOneFault rests on: an event whose avatar can be processed
\* is retried only after a fault, and a single fault uses up no retry level
\* but in a stopping process, whose MarkProcessingFailed fails as well.
Processable(a) == ~db[a].deleted /\ a \notin Undecodable

NothingFailsUnprovoked ==
  faults = 0 =>
    /\ stopping = {}
    /\ \A m \in UploadMsg : Processable(m.avatar) /\ uploadQ[m] > 0 => m.retry = 0
    /\ \A w \in Workers : ucon[w].pc # "idle" /\ Processable(ucon[w].msg.avatar) =>
         ucon[w].msg.retry = 0 /\ ucon[w].pc \notin {"fail", "markFailed"}

OneFaultLeavesRetries ==
  faults = 1 =>
    \A w \in Workers \ stopping : ucon[w].pc # "idle" /\ Processable(ucon[w].msg.avatar) =>
      /\ ucon[w].pc # "markFailed"
      /\ ucon[w].pc = "fail" => ucon[w].msg.retry < MaxRetry

UndecodableIncomplete ==
  /\ \A a \in Undecodable : db[a].processing # "completed"
  /\ \A w \in Workers : ucon[w].pc = "complete" => ucon[w].msg.avatar \notin Undecodable

FailuresTakeFaults ==
  NothingFailsUnprovoked /\ OneFaultLeavesRetries /\ UndecodableIncomplete

---------------------------------------------------------------------------
(* Steps that never happen *)

\* Once soft-deleted, a row never changes again, whatever an upload, a
\* second delete or a worker that is still processing it goes on to do.
DeletedRowFrozen ==
  [][\A a \in Avatars : db[a].deleted => db'[a] = db[a]]_vars

\* The check of the processing status makes a redelivered or duplicated event
\* harmless: no single fault makes a worker take a completion back.  It takes
\* two: a crash between the publish of a retry and the acknowledgement leaves
\* two copies of the event, and the copy handled last, if it cannot read the
\* status, ends in MarkProcessingFailed.
CompletedOutlivesOneFault ==
  [][\A a \in Avatars :
       db[a].processing = "completed" /\ db'[a].processing # "completed" => faults' >= 2]_vars

---------------------------------------------------------------------------
(* Liveness *)

\* Every accepted upload is completed, deleted or dead-lettered.
AcceptedEventuallyResolved ==
  \A a \in Avatars :
    upload[a] = "created" ~>
      db[a].processing = "completed" \/ db[a].deleted \/ a \in dlq

\* Only a fault strands an upload.  Without one every row that is inserted
\* reaches its end: completed, or (its bytes cannot be decoded) failed and
\* dead-lettered, or deleted; none stays "uploading" or "pending".
UploadsConclude ==
  [](faults = 0) =>
    \A a \in Avatars :
      db[a] # NoRow ~>
        \/ db[a].deleted
        \/ a \notin Undecodable /\ db[a].processing = "completed"
        \/ a \in Undecodable /\ db[a].processing = "failed" /\ a \in dlq

\* Every event is eventually settled: retries do not go round for ever.
Settled ==
  /\ \A m \in UploadMsg : uploadQ[m] = 0
  /\ \A m \in DeleteMsg : deleteQ[m] = 0
  /\ \A w \in Workers : ucon[w] = IdleUpload /\ dcon[w] = IdleDelete

QueuesDrain == <>[]Settled

---------------------------------------------------------------------------
(* The abstract specification *)

\* The phase that a row shows to its readers.
PhaseOf(row) ==
  IF row.deleted THEN "deleted"
  ELSE CASE row.upload = "absent"    -> "absent"
         [] row.upload = "uploading" -> "uploading"
         [] row.upload = "failed"    -> "rejected"
         [] row.upload = "uploaded"  ->
              CASE row.processing = "completed" -> "ready"
                [] row.processing = "failed"    -> "broken"
                [] OTHER                        -> "uploaded"

Abstract == INSTANCE AvatarLifecycle
              WITH phase <- [a \in Avatars |-> PhaseOf(db[a])], objects <- objects

\* The pipeline, with all its interleavings and faults, implements the
\* life cycle: no thumbnail is recorded before it is stored, no blob of a
\* live row is erased, no deleted avatar comes back.
ImplementsLifecycle == Abstract!Lifecycle

\* The upload events, as the consumers see them.
Broker == INSTANCE AvatarTransport
            WITH queue  <- uploadQ,
                 held   <- [w \in Workers |-> ucon[w].msg],
                 spent  <- {w \in Workers : ucon[w].pc \in {"markFailed", "ack"}},
                 dead   <- dlq,
                 linked <- linked

\* Requests and workers treat upload events as AvatarTransport says: they
\* publish, retry, dead-letter and acknowledge them in an order that never
\* drops one.
ImplementsTransport == Broker!Transport

=============================================================================
