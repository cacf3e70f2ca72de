-------------------------- MODULE AvatarBackends --------------------------
(***************************************************************************)
(* What the server and the worker processes of goavatar share, and how     *)
(* their calls on it may end: the avatars table (PostgreSQL), the object   *)
(* bucket (MinIO), the two work queues and the upload dead-letter queue    *)
(* (RabbitMQ).  The backends are external; they are modelled from the      *)
(* calls that the code makes.                                              *)
(*                                                                         *)
(* Faults are drawn from FaultKinds, at most MaxFaults of them in a        *)
(* behaviour:                                                              *)
(*   "error"      a call fails and has no effect                           *)
(*   "ambiguous"  a call takes effect and its caller still sees an error   *)
(*   "lost"       a publish returns success and the message never reaches  *)
(*                a queue (publisher.go does not use publisher confirms)   *)
(*   "crash"      a process stops between two of its steps                 *)
(*   "sigterm"    a worker process is told to shut down                    *)
(*   "disconnect" a worker loses its AMQP connection                       *)
(***************************************************************************)
EXTENDS MessageBags, AvatarRepo

CONSTANTS
  Avatars,      \* the identifiers that upload requests draw (uuid.New)
  Users,        \* values of the X-User-ID header
  Owner,        \* Owner[a]: the user of the request that draws a
  Undecodable,  \* the avatars whose bytes the resizer cannot decode
  Deletes,      \* the DELETE requests
  Workers,      \* the worker processes (one, or two while a rollout overlaps)
  NoMsg,        \* stands for "no message"
  NumSizes,     \* thumbnail sizes are 1..NumSizes (two in the code)
  MaxRetry,     \* len(rabbitmq.UploadRetryLevels) (two in the code)
  FaultKinds,   \* the kinds of fault this instance allows
  MaxFaults     \* how many of them may happen

AllFaultKinds == {"error", "ambiguous", "lost", "crash", "sigterm", "disconnect"}

ASSUME OwnerAssumption       == Owner \in [Avatars -> Users]
ASSUME UndecodableAssumption == Undecodable \subseteq Avatars
ASSUME NumSizesAssumption    == NumSizes \in Nat \ {0}
ASSUME MaxRetryAssumption    == MaxRetry \in Nat
ASSUME FaultKindsAssumption  == FaultKinds \subseteq AllFaultKinds
ASSUME MaxFaultsAssumption   == MaxFaults \in Nat

VARIABLES
  db,       \* db[a]: the row of avatar a
  objects,  \* the bucket: <<a, 0>> is a's original, <<a, k>> its k-th thumbnail
  uploadQ,  \* uploadQ[m]: copies of m ready in avatar.upload or waiting to
            \* return to it from a retry queue
  deleteQ,  \* deleteQ[m]: copies of m in avatar.delete
  dlq,      \* the avatars with a message in avatar.upload.dlq
  faults    \* how many faults have happened

backendVars == <<db, objects, uploadQ, deleteQ, dlq, faults>>

Sizes == 1..NumSizes

\* domain.AvatarUploadEvent with the x-retry-count header; the storage key is
\* a function of the avatar.
UploadMsg == [avatar : Avatars, retry : 0..MaxRetry]

\* domain.AvatarDeleteEvent: S3Keys is the original and the listed thumbnails.
DeleteMsg == [avatar : Avatars, thumbs : SUBSET Sizes]

Object == Avatars \X (0..NumSizes)

Rows == RowsOver(Sizes)

ASSUME NoMsgAssumption == NoMsg \notin UploadMsg \cup DeleteMsg

BackendsTypeOK ==
  /\ db \in [Avatars -> Rows]
  /\ objects \subseteq Object
  /\ uploadQ \in [UploadMsg -> Nat]
  /\ deleteQ \in [DeleteMsg -> Nat]
  /\ dlq \subseteq Avatars
  /\ faults \in 0..MaxFaults

BackendsInit ==
  /\ db = [a \in Avatars |-> NoRow]
  /\ objects = {}
  /\ uploadQ = [m \in UploadMsg |-> 0]
  /\ deleteQ = [m \in DeleteMsg |-> 0]
  /\ dlq = {}
  /\ faults = 0

Fault(kind) ==
  /\ kind \in FaultKinds
  /\ faults < MaxFaults
  /\ faults' = faults + 1

(***************************************************************************)
(* A call that changes a backend.  `done' and `undone' say what the        *)
(* backend does, `returned' and `failed' what the caller does next.        *)
(***************************************************************************)
Call(done, undone, returned, failed) ==
  \/ done /\ returned /\ UNCHANGED faults
  \/ Fault("error") /\ undone /\ failed
  \/ Fault("ambiguous") /\ done /\ failed

\* A call that only reads.
Read(returned, failed) ==
  \/ returned /\ UNCHANGED faults
  \/ Fault("error") /\ failed

(***************************************************************************)
(* publisher.publish: without confirms, a publish that returned success    *)
(* may still never reach the queue.                                        *)
(***************************************************************************)
Publish(done, undone, returned, failed) ==
  \/ Call(done, undone, returned, failed)
  \/ Fault("lost") /\ undone /\ returned

=============================================================================
