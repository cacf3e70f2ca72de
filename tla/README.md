# goavatar: a TLA+ model of the avatar pipeline

goavatar stores users' avatars.  A server takes uploads and deletes over HTTP; a
worker makes thumbnails of what was uploaded and erases what was deleted.  They
share a table in PostgreSQL, a bucket in MinIO and queues in RabbitMQ, and
nothing else.  What is hard about the program is in between: no transaction
spans the three backends, requests and workers interleave between any two calls,
each call may fail or take effect and still be reported as failed, a process may
stop anywhere, and messages come back.  This directory models that, checks it
with TLC on small instances and proves the main properties with TLAPS for all of
them.  Paths below are relative to `src/`.

## Inventory

| Component | Source | State | Operations | What makes it correct |
|---|---|---|---|---|
| Avatar service | `internal/services/avatar.go` | none of its own | `Upload`, `Delete`; reads: `GetByID`, `GetImage`, `GetUserImage`, `ListByUserID` | row, blob and event of an avatar are written in an order that never promises what is not there; one of several deletes wins |
| Avatar repository | `internal/repository/postgres` | table `avatars`: `upload_status`, `processing_status`, `thumbnail_s3_keys`, `deleted_at` | one SQL statement per method | a soft-deleted row never changes again |
| Object storage | `internal/repository/s3` | the bucket | `Upload`, `Download`, `Delete` of a key | blobs of live rows stay; blobs of deleted rows go |
| Publisher, topology | `internal/rabbitmq` | upload and delete queues, retry queues with a time to live, dead-letter queues | `publish`, `DeclareAvatarTopology` | an accepted upload has an event until it is resolved, on whichever queue |
| Worker handlers | `internal/worker/worker.go` | thumbnails made so far | `HandleUploadEvent`, `HandleDeleteEvent`, `MarkProcessingFailed` | handling an event twice does no harm; all thumbnails or none |
| Worker process | `internal/worker/app.go` | deliveries in hand, signal context, AMQP connection | two consumers; retry, dead-letter, requeue, acknowledge; drain | retries end; nothing accepted is dropped |
| Server process | `internal/app/app.go` | what it has opened, the signal context, the goroutines of its servers | start, `Shutdown`, deferred closes | told to stop, it stops, and leaves no inconsistent row |
| HTTP handlers | `internal/handlers/avatar.go` | none | checks of a request, mapping of errors to statuses, `GetMetadata` with its links, `DeleteUserAvatar` (list, then delete) | the status tells the client what happened |
| Health endpoints | `internal/handlers/health.go`, `internal/worker/app.go` | none | concurrent checks | an answer within the timeout that is true |
| Rest | `pkg`, `internal/config`, `api`, `web`, `deploy`, `cmd`, mocks | none that matters here | resizing, logging, telemetry, settings, documentation | - |

How they interact: a request calls the repository, the storage and the publisher,
in that order, under the request's context.  RabbitMQ delivers an event to some
worker, which calls the repository and the storage under a context derived from
its signal context, and acknowledges.  A failed upload event goes through two
retry levels and then to the dead-letter queue, where its avatar is marked
failed.  A delete event is never retried, since its handler returns no error.

The behaviours that are hard to test, each at its line with the properties that
cover it, are listed as `hazards` in `PROJECT.json`.

## Modules

| Module | What it models |
|---|---|
| `AvatarRepo` | One row, and each SQL statement as a function of the row it matches |
| `AvatarBackends` | The shared state (`db`, `objects`, `uploadQ`, `deleteQ`, `dlq`), the ways in which a call may end, the bound on faults |
| `AvatarService` | Upload and delete requests, one action per backend call |
| `AvatarWorker` | The two consumers of each worker process, one action per call; signals, exit, crash, loss of the connection |
| `AvatarPipeline` | Their composition: `Spec`, fairness, the properties, the inductive invariant, the two refinement mappings |
| `AvatarErasure` | The pipeline with a history variable: which blobs were stored after their row was deleted |
| `AvatarReads` | GET requests for an image, of an avatar or of a user's newest one: row first, blob afterwards |
| `AvatarClients` | The pipeline with those requests: `ClientsSpec`, what readers are promised, the invariant of the proofs |
| `AvatarMetadata` | Clients that read an avatar's metadata and follow its links later |
| `AvatarUserDeletes` | Clients that delete "the user's avatar": a list, then a delete by identifier |
| `AvatarLifecycle` | Abstract: what an avatar's row and blobs may look like to a reader, with no processes, queues or failures |
| `AvatarTransport` | Abstract: what the upload consumers rely on, with no retry queues, buffers or shutdown |
| `AvatarDelivery` | The queues of the topology and the life of a worker process: consumers, prefetch, loops, signal, cancel, bounded waits, deferred closes |
| `MessageBags` | Bags of messages: put and take |
| `UploadAdmission` | The checks of an upload in handler and service, with their two size limits |
| `AvatarHealth` | `GET /health` of the server: concurrent checks under a timeout, dependencies that come and go |
| `AvatarServer` | The life of a server process, with uploads and probes in flight from start to exit |
| `MCAvatarPipeline`, `MCAvatarErasure`, `MCAvatarClients`, `MCAvatarMetadata`, `MCAvatarUserDeletes`, `MCAvatarDelivery`, `MCAvatarServer` | Values for TLC, symmetry, and what a test says and the code does not do |
| `*_proofs` | The theorems, one module per component |

How they compose.  `AvatarPipeline` extends service and worker, which extend the
backends, which extend the repository.  `AvatarErasure` and `AvatarClients` extend
the pipeline, `AvatarMetadata` and `AvatarUserDeletes` the clients.  The pipeline
is shown to implement `AvatarLifecycle` and `AvatarTransport`; so is `AvatarDelivery`
to implement `AvatarTransport`.  The two halves meet there: the pipeline uses no
more of the broker than the transport offers, and the queues, buffers and
shutdowns of the real thing offer it.  `AvatarServer` extends `UploadAdmission` and
`AvatarHealth`; it abstracts what an upload does to the backends, which is in
`AvatarService`.

State and code:

- `db[a]` is a row of `avatars`.  `thumbs` stands for `thumbnail_s3_keys`: the set
  of sizes that have an entry (keys are functions of identifier and size, see
  `ThumbKey` and `s3KeyFunc`).  `"absent"` stands for an identifier without a row.
- `objects` is the bucket: `<<a, 0>>` the original, `<<a, k>>` the k-th of
  `thumbnailSizes`.
- `uploadQ` is a bag of events with their `x-retry-count`.  A message waiting in a
  retry queue is counted in `uploadQ`: its time to live always ends, and it may
  then be delivered at any moment, which is what being in `uploadQ` says.
- `upload[a]` and `delete[d]` are the positions of requests in
  `AvatarService.Upload` and `AvatarService.Delete`.  `delete[d].event` keeps what
  `Delete` read before it soft-deletes: the event is built from that snapshot.
- `ucon[w]` and `dcon[w]` are the positions of the goroutines in
  `worker/app.go`; `stopping` has the processes whose signal context is
  cancelled, `linked` those whose connection is up.  Deliveries go on to be
  handled after the signal, since the consumers are cancelled later and drain
  what was prefetched.  A call in flight at the moment of the signal may still
  have taken effect; that is a further fault of kind "ambiguous".
- `late` (`AvatarErasure`) has the blobs that an upload or a worker stored when
  their avatar was deleted already.
- `get[r]` is the position of a GET in `GetImage` or `GetUserImage` and of the copy
  of the body in the handler, with the row that it has read.  The blob's key is
  resolved from that row (`Key`), however old it is by then, and `ofUser` says
  that it is in `GetUserImage`.  `createdAt` ranks the
  rows in the order of `created_at`, for the query of a user's newest row and for
  the list of a user's rows.
- `shown` (`AvatarMetadata`) has the links that clients have been given;
  `listing[d]` (`AvatarUserDeletes`) is the avatar that a request has taken from its
  list, and how many rows there were by then.
- In `AvatarDelivery` `ready` and `waiting` are the work queues and the retry queues
  by level, `buffer[w][q]` what the client library holds for a loop, `hand[w][q]`
  the delivery in the loop, `phase[w]` how far `Run` has got, and `overdue` the
  processes that have logged a drain timeout.  Handlers are reduced to success or
  failure, and the rows to `gone`, the avatars that are soft-deleted, whose upload
  event fails every attempt from then on.  `failed` and `again` are history: which
  events a process has failed because it was told to stop, and of which avatars it
  has failed two attempts so.
- In `AvatarServer` `run` is the position of `App.Run`, from `pool.Ping` to the end of
  the process, `opened` what its deferred calls have left to close, `watcher` the
  goroutine that shuts the servers down, and `onPool` the requests that hold a
  connection of the pool.  In `AvatarHealth` `dep` is the state of each dependency,
  `probe[p]` a request with the results of its checks, `seen[p]` what was up since it
  began.

Every call is `Call` (changes a backend), `Read` or `Publish`, with the outcomes:
it returns; it fails without effect ("error"); it takes effect and is reported as
failed ("ambiguous"); a publish is reported as done and is lost ("lost": the
publisher uses no confirms).  The worker's republishing to a retry or dead-letter
queue is not lost on its own: publish and acknowledgement go in order over one
channel, so a connection that loses the first loses the second too, and the
delivery comes back (`Disconnect`, `Crash`).

## Properties

Of the pipeline (`AvatarPipeline`, `AvatarErasure`):

- `ProcessedOnlyIfUploaded`: results are recorded only on rows marked uploaded.
- `LiveObjectsBacked`: a live row's original (if uploaded) and listed thumbnails
  are in the bucket.
- `ThumbsAllOrNone`: a completed row lists every size, any other row none.
- `AcceptedNotForgotten`: an upload answered with 201 has its event pending until
  it is completed, deleted or dead-lettered.
- `DeletedOnce`: of racing deletes one at most gets past `SoftDelete`.
- `NamedBlobsErased`: after a delete answered with 204 the event is pending, or of
  the blobs that it names only late ones are left.
- `DeletedRowFrozen` (of steps): a soft-deleted row never changes.
- `CompletedOutlivesOneFault` (of steps): a completion is taken back only after
  two faults.
- `AcceptedEventuallyResolved`, `UploadsConclude`, `QueuesDrain` (liveness): accepted
  uploads are resolved; without a fault every upload ends completed, deleted, or
  failed and dead-lettered; the queues drain.
- `ImplementsLifecycle`, `ImplementsTransport` (refinement).

Of its clients:

- `StoredIsServed`: a GET that read an uploaded row answers 404 for want of the
  blob, or cuts the body short without a failing call, only if the avatar was
  deleted meanwhile.
- `ReadyServesSize`: a GET that read a completed row serves the size it was asked
  for, never the original in its place.
- `LinksWork` (of steps): a link of a metadata response leads to the size it names
  as long as the avatar is there and completed.
- `NewestListedGoes`: a 204 for "the user's avatar" has deleted the newest one that
  the user had when the list was read.
- `RefusedOnlyIfGone`: such a request ends in 404 after its list only if another
  one has deleted the listed avatar, and never in 403.

Of the two processes:

- `CleanDrain`: a worker that returns without a drain timeout has acknowledged
  all that it was given.
- `DeadLetteredForCause`: an event that can be handled is dead-lettered only after
  `MaxRetry + 1` failures or shutdowns, whatever is prefetched and redelivered.  It
  makes two exceptions, and TLC finds a counterexample without either.  The event of
  a deleted avatar fails at `GetProcessingStatus` (`worker/worker.go:73`) on every
  attempt, with nothing wrong.  And one shutdown fails two attempts when a retry is
  back before the process has cancelled its consumer (`again`): retry queues expire
  whatever the processes do.
- `ShutdownEnds` (liveness): a worker told to stop stops, whatever its handlers do.
- `DeliversAsPromised` (refinement): retry queues, prefetch and shutdown are
  invisible to the upload consumers.
- `SizeLimitIsTheServices`: the answer is 413 exactly for files above the limit.
- `HealthyWasUp`: a 200 of `/health` rests on every dependency having been up.
- `ServerStops`, `ProbesAnswered` (liveness): a server told to stop, or whose metrics
  server fails, ends, unless PostgreSQL is silent from some moment on with a query
  under way; a probe is answered though one of its checks knows no timeout.

## Runs

| Run | Instance | Shows |
|---|---|---|
| `pipeline` | 1 avatar, 2 workers, 1 delete, 2 users, any 2 faults but "lost" | safety properties of the pipeline and both refinements; 387,000 states up to symmetry |
| `erasure` | 1 avatar, 2 workers, 2 deletes, 2 of: ambiguous call, crash, lost connection | `DeletedOnce`, `DeletedRowFrozen`, `NamedBlobsErased`; 637,000 states |
| `reads` | 2 avatars of a user, 1 worker, 1 delete, 1 GET, metadata requests, 1 thumbnail size, 1 retry level, 1 error, ambiguous call or crash | `StoredIsServed`, `ReadyServesSize`, `LinksWork`; 2.0 million states |
| `user_deletes` | 2 avatars of a user, 1 worker, 2 deletes of the user's avatar, 1 thumbnail size, no retry, 1 error, ambiguous call or lost publish | `NewestListedGoes`, `RefusedOnlyIfGone`; 329,000 states |
| `liveness` | 2 avatars (1 undecodable), 1 worker, 1 delete, 1 retry level, 1 fault, `FairSpec` | the liveness properties |
| `delivery` | 2 avatars (1 never handled, the other deleted), 1 worker, prefetch 2, 1 retry level, any 2 faults | all properties of `AvatarDelivery`; 326,000 states |
| `server` | 1 upload (below, at, above the limit, or without a user), 1 probe, 1 failure of a step, the metrics server or a dependency | all properties of `AvatarServer`; 129,000 states |
| `stale_delete` | 1 worker, 1 delete, no fault | violates `DeleteEventNamesAllKeys` |
| `drained_delete` | 1 worker, 1 delete, 1 SIGTERM | violates `NamedBlobsErased` |
| `lost_worker` | 1 worker, 1 lost connection, `FairSpec` | violates `AcceptedEventuallyResolved` |
| `hidden_avatar` | 2 avatars of a user, 1 worker, 1 GET, no fault | violates `CompletedAvatarIsShown` |
| `unlimited_upload` | as `server`, limit 0 | violates `SizeLimitIsTheServices` |

Why the bounds are enough to be interesting.  `NumSizes = 2` and `MaxRetry = 2`
are the code's values.  The liveness, delivery and reads runs have one retry level to
stay small, and `user_deletes` none: a retry only repeats calls whose effects
on rows and blobs the first attempt has already.  `reads` and `user_deletes` have one
thumbnail size, since every size a client can ask for takes the same way to its
blob.  The rows, blobs and messages of
different avatars are disjoint and no write reads two of them, so one avatar shows
every safety hazard of the pipeline; two matter where a consumer's attention is
shared (`liveness`), where one event waits behind another (`delivery`), and where a
query orders a user's rows (`reads`, `user_deletes`).  Two workers are what a
rolling update or a lost connection leaves running on copies of one event; in
`delivery` a restarted process takes the part of the second.  Two deletes are the
least that can race, two users the least for the ownership check.  Two faults are
needed for the deepest known scenarios, such as a crash that duplicates an event
and an error that sends one of the copies on; the invariants of `pipeline` also
hold with two deletes (1.3 million states) and with three faults (8.7 million),
which is more than a regular run should take.  `MaxFaults` is the only bound on
behaviours, and it bounds all counters with it: queues only grow by requests,
retries and faults.  Sizes of uploads are small numbers around a limit of 2 with a
headroom of 2; the proof of `UploadLimitIsExact` is for any numbers.

`erasure` leaves out failing calls, SIGTERM and lost publishes, because each of
them does make a blob stay: a failing `storage.Delete` is ignored
(`worker/worker.go:140`), SIGTERM makes all of them fail (`drained_delete`), and of a
lost event nothing is handled.  `AcceptedNotForgotten` needs that no publish is
lost, for the same reason; `user_deletes` has lost publishes.

`CompletedOutlivesOneFault` is exact: `pipeline` reaches two faults, and two suffice.
A worker crashes after publishing a retry and before acknowledging, both copies of
the event run, the first completes the avatar, the second fails to read the status
on its last attempt and `MarkProcessingFailed` overwrites the completed row.

Deadlock is not checked: the system may stop once every request is answered and
every queue is empty (`QueuesDrain` says that it gets there), and a server process
ends.

## Findings

1. *Stale delete event* (`stale_delete`, `services/avatar.go:225`).  `Delete`
   publishes the keys of the row that it read first.  When the worker records
   thumbnails between this read and `SoftDelete`, they are never deleted.  The test
   `services/avatar_test.go:393` says the event has all keys.
2. *Deletes dropped at shutdown* (`drained_delete`, `worker/worker.go:140`).  While
   the worker is "draining" its context is cancelled, so each `storage.Delete`
   fails at once; the error is ignored and the delivery acknowledged.
3. *A worker that lives on without its connection* (`lost_worker`,
   `worker/app.go:262`).  Both consumers end, `Run` goes on waiting for a signal,
   and the health endpoint stays 200.
4. *A newer upload hides the avatar* (`hidden_avatar`, `services/avatar.go:178`).
   The newest row of a user is served whatever its upload status.  From the INSERT
   until the blob is stored, and for ever if the store fails,
   `GET /users/{user_id}/avatar` answers 404, "Avatar not found"
   (`api/openapi.yaml:242`), although an older avatar is complete.  Of a GET by
   identifier, which rightly answers 404 while its avatar is uploaded, the property
   does not speak.
5. *No limit is a limit of 1 MiB* (`unlimited_upload`, `handlers/avatar.go:87`).  The
   service takes `MAX_UPLOAD_BYTES=0` for no limit; the handler adds its headroom to
   it all the same and answers 413 to what exceeds that.

Gaps of the design that the properties exclude by their wording: an upload whose
request dies after `SetUploaded` stays "uploaded, pending" for ever; one whose
`SetUploadFailed` fails stays "uploading" (`UploadsConclude` speaks of runs without
a fault); a soft delete reported as failed leaves its blobs; a lost publish leaves
an accepted upload pending; blobs stored after the delete stay (`late`).

## Fairness

`FairSpec` assumes weak fairness of: each next call of a request that has begun
(its goroutine runs, the backends answer or fail); each worker's upload consumer
and its delete consumer (goroutines of their own, reading from channels of their
own); the exit of a stopping process (`shutdownTimeout` bounds each wait).  No
fairness is assumed of clients, of faults, or of a reconnect, which the code does
not have.  A consumer whose process lost its connection has no step to take, and
that is finding 3.

`Delivery` assumes weak fairness of the steps of `Run` only, its timers included:
handlers, the broker and acknowledgements may stall for ever, which is what
`shutdownTimeout` is for.  `Return` includes the deferred `pool.Close`, which has no
limit of its own: the queries of handlers that are still running have the signal
context, which is cancelled by then, and give their connections back.

`Server` assumes weak fairness of `Run`, of the goroutine that shuts down, of the
checks and the answer of a probe, of the AMQP heartbeat, which gives a silent
connection up, and of the end of a query as long as PostgreSQL is not silent.  A
query on a silent database may never end: it runs under the request's context,
which has no deadline and which `Shutdown` does not cancel, and `pool.Close`
(`app/app.go:58`) then waits without a limit.  `ServerStops` states that exception, and
TLC refutes it without.  Storing an original may take for ever, as may a
publish; neither holds what `pool.Close` waits for, so that they do not keep the
process.

## Proofs

All theorems hold for any sets of avatars, users, requests and workers, any number
of sizes, retry levels and faults, and any prefetch, from the named assumptions on
the constants.  Those that count rows, processes or buffered copies (marked *finite*)
assume that there are finitely many.  Two (marked *retries*) assume `MaxRetry > 0`,
which the code's two levels satisfy: without a retry, a completion that is reported
as failed goes straight to the dead-letter queue, and one fault is enough.

| Module | Theorem | Statement |
|---|---|---|
| `AvatarPipeline_proofs` | `TypeCorrect` | `Spec => []TypeOK` |
| | `LiveRowsAreBacked` | `Spec => []LiveObjectsBacked` |
| | `ResultsFollowUploads` | `Spec => []ProcessedOnlyIfUploaded` |
| | `ThumbnailsComeTogether` | `Spec => []ThumbsAllOrNone` |
| | `OneDeleteWins` | `Spec => []DeletedOnce` |
| | `DeletedRowsStay` | `Spec => DeletedRowFrozen` |
| | `AcceptedIsKept` | `Spec => []AcceptedNotForgotten`, if no publish is lost |
| | `OneFaultIsSurvived` | `Spec => CompletedOutlivesOneFault` (*retries*) |
| `AvatarErasure_proofs` | `NamedBlobsAreErased` | `ErasureSpec => []NamedBlobsErased`, without failing calls, SIGTERM and lost publishes |
| `AvatarClients_proofs` | `StoredImagesAreServed` | `ClientsSpec => []StoredIsServed` |
| | `ReadySizesAreServed` | `ClientsSpec => []ReadyServesSize` |
| | `ClientsTypeCorrect` | `ClientsSpec => []ClientsTypeOK` (*finite* avatars) |
| | `NewestGoes` | `UserDeletesSpec => []NewestListedGoes` (*finite* avatars) |
| | `RefusalMeansGone` | `UserDeletesSpec => []RefusedOnlyIfGone` (*finite* avatars) |
| | `LinksGoOnWorking` | `MetadataSpec => LinksWork` (*retries*) |
| `AvatarDelivery_proofs` | `DeliveryTypeCorrect` | `Delivery => []DeliveryTypeOK` |
| | `CleanStop` | `Delivery => []CleanDrain` |
| | `DeadLettersHaveCauses` | `Delivery => []DeadLetteredForCause` (*finite* workers) |
| | `DeliveryImplementsTransport` | `Delivery => DeliversAsPromised` (*finite* workers) |
| | `UploadEventsAreKept` | `Delivery => Consumers!NeverDropped` (*finite* workers) |
| `AvatarRefinement_proofs` | `PipelineImplementsLifecycle` | `Spec => ImplementsLifecycle` |
| | `PipelineImplementsTransport` | `Spec => ImplementsTransport` |
| | `PipelineDropsNoEvent` | `Spec => Broker!NeverDropped` |
| `AvatarLifecycle_proofs` | `PromiseKept` | `Lifecycle => []Promise` |
| `AvatarTransport_proofs` | `EventsAreNeverDropped` | `Transport => NeverDropped` |
| `AvatarServer_proofs` | `ServerTypeCorrect` | `Server => []ServerTypeOK` |
| | `UploadLimitIsExact` | `Server => []SizeLimitIsTheServices`, for a limit above 0 |
| | `HealthIsTrue` | `Server => []HealthyWasUp` |

*The pipeline.*  The safety properties are not inductive by themselves: what a
worker is about to write depends on where its message came from.  `IInv` adds three
conjuncts.  `RowsFollowRequests` ties the row and the original to the position of
the upload request.  `EventsFollowRows` says that an upload event exists, in the
queue or in a worker's hands, only once the row is stored, and a delete event only
once the row is deleted.  `ProgressIsStored` says which thumbnails a consumer at a
given position has stored (unless the avatar was deleted), and that an event was
dead-lettered before its row is marked failed.  With them every write is harmless:
an upload's `SetUploaded` finds the original stored, a worker's result finds an
uploaded row and all thumbnails, an erasing worker finds a deleted row.

The proof is organised by what a step touches.  `DataSteps` names the actions that
write the table or the bucket; `StepsAreMonotone` says what no step takes back;
`UploadEventOrigins`, `DeleteEventOrigins` and `HeldMessageOrigins` say where each
message after a step came from.  `RowsNext`, `EventsNext` and `ProgressNext` then
treat the parts of `IInv`.  `AcceptedIsKept` needs in addition that a pending event
stays pending or is resolved (`PendingStays`) and that resolved stays so
(`ResolvedStays`): `MarkProcessingFailed` may take "completed" away, but the event
is then in the dead-letter queue.

`OneFaultIsSurvived` is an account of faults, `FailuresTakeFaults`.  While no fault
has happened no process stops, and the consumers of an event that can be processed
(its avatar neither deleted nor undecodable) are on its first attempt and have not
failed (`NothingFailsUnprovoked`).  After one fault a failed event has a level left,
unless its process is stopping and so its context cancelled (`OneFaultLeavesRetries`):
the failure took the fault, so that the attempt before it was the first
(`ConsumerTrips`).  In a stopping process, whose SIGTERM was the fault,
`MarkProcessingFailed` writes only if it takes effect although its context is
cancelled, which is a second one.  An undecodable avatar is never completed in the first place (`UndecodableIncomplete`),
and a deleted row never changes.

*Erasure.*  `EInv` adds to `IInv` what a delete consumer has ticked off its list:
each such blob is gone or came late (`TickedOffIsErased`).  An erased blob stays so,
since whoever stores it again finds the row deleted (`ErasedStays`, by
`EventsFollowRows`); a pending event stays pending or its last consumer has ticked
everything off (`ErasePendingStays`); and a request enters "done" only with its
event in the queue (`DoneByPublish`), for which no publish may be lost.

*Refinements.*  `AvatarRefinement_proofs` has one lemma per writing action, each
giving the step of `AvatarLifecycle` that it implements, and for the transport one
per kind of consumer step: carrying on with an event, settling it, losing it with
the process or the connection.  What the abstract modules promise is proved of them
alone (`PromiseKept`, `EventsAreNeverDropped`).

That guarantee is then carried back: `Kept` is the instance of `AvatarTransport_proofs`
with the values that a refinement gives to the abstract variables, `SameTransport` says
that it speaks of the same actions, and `PipelineDropsNoEvent` and `UploadEventsAreKept`
follow without another look at the steps.

*Clients.*  `CInv` adds to `IInv` that the blob a request has settled on stays until
its avatar is deleted, and that a completed row, once read, lists every size
(`HeldRowsBacked`).  Reading a live row establishes it by `LiveObjectsBacked` and
`ThumbsAllOrNone`, which is where the pipeline's invariant pays; the steps of the
pipeline keep it by `StepsAreMonotone` (`PipelineKeepsGets`), and a reader's own
steps change neither rows nor blobs (`ReadsKeepGets`).  For deletes of the
user's avatar `UInv` adds what holds of a request from its list on (`Listed`): it
deletes the avatar that it listed, and whatever live avatar of that user is newer
was inserted later.  New rows rank behind all others (`Ranked`), so that uploads
cannot make the choice wrong, and a deleted row stays so.  `MInv` adds that the row
of every link says "completed", be it deleted or not, until there have been two faults
(`LinksHold`): a link is given for a listed thumbnail, which only a completed row has
(`ThumbsAllOrNone`), and the invariant of `OneFaultIsSurvived` keeps it so.

*Delivery.*  `CleanStop` needs `Drained`: once Run has waited for a loop in time, the
loop stays ended, because the broker pushes nothing to a cancelled consumer
(`BrokerDrained`) and a loop wakes up only for what is in its buffer
(`LoopStaysEnded`).  `DeadLettersHaveCauses` keeps accounts (`Paid`),
for each avatar that is neither poison nor `gone` nor in `again`: wherever a message
is, in a queue, a buffer or a loop, the faults so far cover the attempts in its
header, and one more for each process between its signal and `Cancel`, which still
gets messages that its cancelled context will fail (`Charges`), and for the stopping
process that holds it (`AtRisk`).  A process that has failed an earlier attempt of the
avatar's event for its context is no longer charged (`failed`): if it fails a later one
as well, the avatar is in `again` and out of the account.  A failure turns such a risk,
or a fault of its own, into an attempt.
A signal pays for the risk that it makes (`SignalPaid`), and what a process gives back
has paid for more than the queue asks (`EndPaid`).  Deleted avatars leave the account
for good, since nothing takes `gone` back.

`DeliveryImplementsTransport` counts.  The abstract queue has of each message the
copies that are ready, that wait at the level of their header, and that lie in the
buffers; buffered copies are counted by the places they take (`Places`).  A push moves a
copy from the first count to the third (`PushedCounts`), an expiry from the second to
the first, a loop that takes the head of its buffer moves the others up and leaves one
less (`TakenCounts`, by a bijection), and when a connection goes each copy in the buffer
is ready again (`EmptiedCounts`, `TakingBackShows`), so that only what the loop has in
hand is new to the queue.  The invariant is `Fits`: no buffer exceeds the prefetch, so
that every copy has a place; only a linked process has anything buffered, so that what
a loop takes is delivered over a connection; a retry queue has only messages of its
level.

*Server.*  `UploadLimitIsExact` rests on `AnsweredAtAdmission`: a request's form does
not change and 413 is answered at admission or never.  `HealthIsTrue` rests on
`ResultsWereSeen`: what a check found up is in `seen`, what is up while a probe runs
is in `seen` too, and a 200 needs every result.

Only model-checked: the liveness properties `AcceptedEventuallyResolved`,
`UploadsConclude`, `QueuesDrain`, `ShutdownEnds`, `ServerStops` and `ProbesAnswered`, since
liveness under fairness and `ENABLED` are beyond the prover.  Every invariant, action
property and refinement of the passing runs has a theorem.

## Not modelled

Pixels, formats, logging, metrics and tracing, configuration, the text of errors,
the generated API types, the web page and deployment files: none of them has a
state that a property could be about.  Malformed messages (`json.Unmarshal`
failing) cannot come from this publisher.  The retry and dead-letter queues of
deletes are declared and never used, because `HandleDeleteEvent` returns no error.
The unbounded requeue while a retry cannot be published (`worker/app.go:345`) is
bounded by `MaxFaults` in every run.  `GetLatestByUserID` of the service and
`ListUserAvatars` add nothing to what `GetUserImage` and `DeleteUserAvatar` read.
The request middleware labels metrics.  The gauge of stored bytes runs a query of its
own when metrics are collected, and only reads.  A RabbitMQ that blocks the connection
but goes on sending heartbeats is not among the states of `AvatarHealth`'s
dependencies: it is up, silent (until the heartbeat ends the connection) or refusing.

No property covers the hazards whose `note` in `PROJECT.json` says so: an event lost
without an error, a request that dies between `SetUploaded` and its event, a status
update that fails, blobs stored after the delete, the endless requeue.  The code makes
no promise about them, and the properties above name them as exceptions.
