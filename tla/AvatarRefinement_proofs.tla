---------------------- MODULE AvatarRefinement_proofs ----------------------
(***************************************************************************)
(* The pipeline implements the avatar life cycle and the transport of      *)
(* upload events, for every instance.  First the life cycle: each step of  *)
(* the server or of a worker is a step of AvatarLifecycle on one avatar's  *)
(* phase or blobs, or changes neither.                                     *)
(***************************************************************************)
EXTENDS AvatarPipeline_proofs

\* What AvatarLifecycle's phase stands for.
Phase == [a \in Avatars |-> PhaseOf(db[a])]

LifecycleStep == Abstract!LifecycleNext \/ UNCHANGED <<Phase, objects>>

\* Writing one row moves one phase.
LEMMA PhaseMoves ==
  ASSUME NEW a \in Avatars, NEW row, db \in [Avatars -> Rows], db' = [db EXCEPT ![a] = row]
  PROVE  Phase' = [Phase EXCEPT ![a] = PhaseOf(row)]
BY DEF Phase

\* Writing back the row that was there moves none.
LEMMA PhaseStays ==
  ASSUME NEW a \in Avatars, db \in [Avatars -> Rows], db' = [db EXCEPT ![a] = db[a]]
  PROVE  UNCHANGED Phase
<1>1. db' = db
  OBVIOUS
<1> QED BY <1>1 DEF Phase

\* The phases that rows show.
LEMMA PhaseFacts ==
  ASSUME NEW row \in Rows
  PROVE  /\ row.deleted <=> PhaseOf(row) = "deleted"
         /\ ~row.deleted => /\ row.upload = "absent" <=> PhaseOf(row) = "absent"
                            /\ row.upload = "uploading" <=> PhaseOf(row) = "uploading"
                            /\ row.upload = "failed" <=> PhaseOf(row) = "rejected"
                            /\ row.upload = "uploaded" <=> PhaseOf(row) \in Abstract!Stored
         /\ PhaseOf(row) \in Abstract!Phases
BY DEF Rows, RowsOver, UploadStatus, ProcessingStatus, PhaseOf, Abstract!Stored, Abstract!Phases

\* Every step of an upload request is a step of the life cycle.
LEMMA UploadRefines ==
  ASSUME IInv,
         NEW a \in Avatars,
         CreateRow(a) \/ StoreOriginal(a) \/ MarkUploadFailed(a) \/ MarkUploaded(a)
  PROVE  LifecycleStep
<1>t. db \in [Avatars -> Rows] /\ db[a] \in Rows
  BY DEF IInv, TypeOK, BackendsTypeOK
<1>f. RowFollowsRequest(a)
  BY DEF IInv, RowsFollowRequests
<1>p. Phase[a] = PhaseOf(db[a])
  BY DEF Phase
<1>u. ASSUME UNCHANGED <<db, objects>> PROVE LifecycleStep
  BY <1>u DEF LifecycleStep, Phase
<1>1. CASE CreateRow(a)
  <2>1. db' = [db EXCEPT ![a] = CreateAvatar(db[a])] \/ UNCHANGED db
    BY <1>1, <1>t DEF CreateRow, Call
  <2>2. PhaseOf(CreateAvatar(db[a])) = "uploading"
    BY DEF CreateAvatar, PhaseOf, NoRow
  <2>3. Phase[a] = "absent"
    BY <1>1, <1>f, <1>p DEF CreateRow, RowFollowsRequest, PhaseOf, NoRow
  <2>4. UNCHANGED objects
    BY <1>1 DEF CreateRow
  <2>5. CASE db' = [db EXCEPT ![a] = CreateAvatar(db[a])]
    <3>1. Phase' = [Phase EXCEPT ![a] = "uploading"]
      BY <2>5, <2>2, <1>t, PhaseMoves
    <3>2. Abstract!Announce(a)
      BY <3>1, <2>3, <2>4 DEF Abstract!Announce, Abstract!Moves, Phase
    <3> QED BY <3>2 DEF LifecycleStep, Abstract!LifecycleNext
  <2> QED BY <2>1, <2>4, <2>5, <1>u
<1>2. CASE StoreOriginal(a)
  <2>1. objects' = objects \cup {<<a, 0>>} \/ UNCHANGED objects
    BY <1>2 DEF StoreOriginal, Call
  <2>2. UNCHANGED db
    BY <1>2 DEF StoreOriginal
  <2>3. Phase[a] \in {"uploading", "deleted"}
    BY <1>2, <1>f, <1>p, <1>t, PhaseFacts DEF StoreOriginal, RowFollowsRequest
  <2>4. CASE objects' = objects \cup {<<a, 0>>}
    <3>1. UNCHANGED Phase
      BY <2>2 DEF Phase
    <3>2. Abstract!Store(a, 0)
      BY <2>3, <2>4, <3>1 DEF Abstract!Store, Phase
    <3>3. 0 \in 0..NumSizes
      BY NumSizesAssumption
    <3> QED BY <3>2, <3>3 DEF LifecycleStep, Abstract!LifecycleNext
  <2> QED BY <2>1, <2>2, <2>4, <1>u
<1>3. CASE MarkUploadFailed(a)
  <2>1. db' = [db EXCEPT ![a] = SetAvatarUploadFailed(db[a])] \/ UNCHANGED db
    BY <1>3, <1>t DEF MarkUploadFailed, Call
  <2>2. UNCHANGED objects
    BY <1>3 DEF MarkUploadFailed
  <2>3. CASE db' = [db EXCEPT ![a] = SetAvatarUploadFailed(db[a])] /\ Live(db[a])
    <3>1. Phase[a] = "uploading"
      BY <1>3, <1>f, <1>p, <1>t, <2>3, PhaseFacts DEF MarkUploadFailed, RowFollowsRequest, Live
    <3>2. PhaseOf(SetAvatarUploadFailed(db[a])) = "rejected"
      BY <1>t, <2>3 DEF SetAvatarUploadFailed, PhaseOf, Rows, RowsOver, Live
    <3>3. Phase' = [Phase EXCEPT ![a] = "rejected"]
      BY <2>3, <3>2, <1>t, PhaseMoves
    <3>4. Abstract!Reject(a)
      BY <3>1, <3>3, <2>2 DEF Abstract!Reject, Abstract!Moves, Phase
    <3> QED BY <3>4 DEF LifecycleStep, Abstract!LifecycleNext
  <2>4. CASE db' = [db EXCEPT ![a] = SetAvatarUploadFailed(db[a])] /\ ~Live(db[a])
    BY <2>4, <2>2, <1>t, <1>u DEF SetAvatarUploadFailed
  <2> QED BY <2>1, <2>2, <2>3, <2>4, <1>u
<1>4. CASE MarkUploaded(a)
  <2>1. db' = [db EXCEPT ![a] = SetAvatarUploaded(db[a])] \/ UNCHANGED db
    BY <1>4, <1>t DEF MarkUploaded, Call
  <2>2. UNCHANGED objects
    BY <1>4 DEF MarkUploaded
  <2>3. CASE db' = [db EXCEPT ![a] = SetAvatarUploaded(db[a])] /\ Live(db[a])
    <3>1. db[a].upload = "uploading" /\ <<a, 0>> \in objects
      BY <1>4, <1>f, <2>3 DEF MarkUploaded, RowFollowsRequest, Live
    <3>2. Phase[a] = "uploading"
      BY <3>1, <2>3, <1>p, <1>t, PhaseFacts DEF Live
    <3>3. db[a].processing = "pending"
      BY <3>1 DEF IInv, ProcessedOnlyIfUploaded
    <3>4. PhaseOf(SetAvatarUploaded(db[a])) = "uploaded"
      BY <1>t, <2>3, <3>3 DEF SetAvatarUploaded, PhaseOf, Rows, RowsOver, Live
    <3>5. Phase' = [Phase EXCEPT ![a] = "uploaded"]
      BY <2>3, <3>4, <1>t, PhaseMoves
    <3>6. Abstract!Accept(a)
      BY <3>1, <3>2, <3>5, <2>2 DEF Abstract!Accept, Abstract!Moves, Phase
    <3> QED BY <3>6 DEF LifecycleStep, Abstract!LifecycleNext
  <2>4. CASE db' = [db EXCEPT ![a] = SetAvatarUploaded(db[a])] /\ ~Live(db[a])
    BY <2>4, <2>2, <1>t, <1>u DEF SetAvatarUploaded
  <2> QED BY <2>1, <2>2, <2>3, <2>4, <1>u
<1> QED BY <1>1, <1>2, <1>3, <1>4

\* A soft delete removes a live avatar, or changes nothing.
LEMMA DeleteRefines ==
  ASSUME IInv, NEW d \in Deletes, SoftDelete(d)
  PROVE  LifecycleStep
<1> DEFINE a == delete[d].event.avatar
<1>t. db \in [Avatars -> Rows]
  BY DEF IInv, TypeOK, BackendsTypeOK
<1>a. a \in Avatars
  BY DEF SoftDelete, IInv, TypeOK, ServiceTypeOK, DeleteMsg
<1>r. db[a] \in Rows
  BY <1>t, <1>a
<1> HIDE DEF a
<1>1. db' = [db EXCEPT ![a] = SoftDeleteAvatar(db[a])] \/ UNCHANGED db
  BY <1>a, <1>t DEF SoftDelete, Call, a
<1>2. UNCHANGED objects
  BY DEF SoftDelete
<1>3. CASE db' = [db EXCEPT ![a] = SoftDeleteAvatar(db[a])] /\ Live(db[a])
  <2>1. Phase[a] \in Abstract!Phases \ {"absent", "deleted"}
    BY <1>3, <1>a, <1>r, PhaseFacts DEF Live, Phase
  <2>2. PhaseOf(SoftDeleteAvatar(db[a])) = "deleted"
    BY <1>r, <1>3 DEF SoftDeleteAvatar, PhaseOf, Rows, RowsOver, Live
  <2>3. Phase' = [Phase EXCEPT ![a] = "deleted"]
    BY <1>3, <2>2, <1>a, <1>t, PhaseMoves
  <2>4. Abstract!Remove(a)
    BY <2>1, <2>3, <1>2 DEF Abstract!Remove, Abstract!Moves, Phase
  <2> QED BY <1>a, <2>4 DEF LifecycleStep, Abstract!LifecycleNext
<1>4. CASE UNCHANGED db
  BY <1>2, <1>4 DEF LifecycleStep, Phase
<1>5. CASE db' = [db EXCEPT ![a] = SoftDeleteAvatar(db[a])] /\ ~Live(db[a])
  BY <1>2, <1>5, <1>a, <1>t, PhaseStays DEF SoftDeleteAvatar, LifecycleStep
<1> QED BY <1>1, <1>3, <1>4, <1>5

\* A worker stores a thumbnail of a stored or deleted avatar.
LEMMA ThumbRefines ==
  ASSUME IInv, NEW w \in Workers, StoreThumb(w)
  PROVE  LifecycleStep
<1> DEFINE a == ucon[w].msg.avatar
           k == ucon[w].next
<1>t. BackendsTypeOK /\ WorkerTypeOK /\ NumSizes \in Nat
  BY NumSizesAssumption DEF IInv, TypeOK
<1>a. a \in Avatars /\ k \in 0..NumSizes /\ k # 0
  BY <1>t, HeldMessages DEF StoreThumb, WorkerTypeOK, Sizes
<1>s. StoredOrDeleted(a)
  BY DEF IInv, EventsFollowRows, StoreThumb
<1>1. Phase[a] \in Abstract!Stored \cup {"deleted"}
  BY <1>a, <1>s, <1>t, PhaseFacts DEF Phase, StoredOrDeleted, BackendsTypeOK
<1>2. UNCHANGED Phase
  BY DEF StoreThumb, Phase
<1>3. objects' = objects \cup {<<a, k>>} \/ UNCHANGED objects
  BY DEF StoreThumb, WorkerCall
<1> HIDE DEF a, k
<1>4. objects' = objects \cup {<<a, k>>} => Abstract!Store(a, k)
  BY <1>a, <1>1, <1>2 DEF Abstract!Store, Phase
<1> QED BY <1>a, <1>2, <1>3, <1>4 DEF LifecycleStep, Abstract!LifecycleNext

\* Recording thumbnails finishes an avatar whose blobs are all stored; it
\* leaves a deleted row alone.
LEMMA CompleteRefines ==
  ASSUME IInv, NEW w \in Workers, Complete(w)
  PROVE  LifecycleStep
<1> DEFINE a == ucon[w].msg.avatar
           thumbs == 1..(ucon[w].next - 1)
<1>t. BackendsTypeOK /\ WorkerTypeOK
  BY DEF IInv, TypeOK
<1>a. a \in Avatars
  BY <1>t, HeldMessages DEF Complete
<1>r. db \in [Avatars -> Rows] /\ db[a] \in Rows
  BY <1>a, <1>t DEF BackendsTypeOK
<1>s. StoredOrDeleted(a)
  BY DEF IInv, EventsFollowRows, Complete
<1>n. ucon[w].next = NumSizes + 1
  BY DEF IInv, ProgressIsStored, Complete
<1>k. ~db[a].deleted => \A k \in 0..NumSizes : <<a, k>> \in objects
  <2> SUFFICES ASSUME ~db[a].deleted PROVE \A k \in 0..NumSizes : <<a, k>> \in objects
      OBVIOUS
  <2>1. <<a, 0>> \in objects
    BY <1>a, <1>s DEF IInv, LiveObjectsBacked, StoredOrDeleted, Live
  <2>2. \A k \in 1..((NumSizes + 1) - 1) : <<a, k>> \in objects
    BY <1>n DEF IInv, ProgressIsStored, Complete
  <2>3. \A k \in 0..NumSizes : k = 0 \/ k \in 1..((NumSizes + 1) - 1)
    BY NumSizesAssumption
  <2> QED BY <2>1, <2>2, <2>3
<1>1. db' = [db EXCEPT ![a] = UpdateProcessingStatus(db[a], "completed", thumbs)] \/ UNCHANGED db
  BY <1>a, <1>r DEF Complete, WorkerCall
<1>2. UNCHANGED objects
  BY DEF Complete
<1> HIDE DEF a, thumbs
<1>3. CASE Live(db[a]) /\ db' = [db EXCEPT ![a] = UpdateProcessingStatus(db[a], "completed", thumbs)]
  <2>1. Phase[a] \in Abstract!Stored
    BY <1>3, <1>a, <1>r, <1>s, PhaseFacts DEF Live, StoredOrDeleted, Phase
  <2>2. db[a].upload = "uploaded"
    BY <1>3, <1>s DEF Live, StoredOrDeleted
  <2>3. PhaseOf(UpdateProcessingStatus(db[a], "completed", thumbs)) = "ready"
    BY <1>r, <1>3, <2>2 DEF UpdateProcessingStatus, PhaseOf, Rows, RowsOver, Live
  <2>4. Phase' = [Phase EXCEPT ![a] = "ready"]
    BY <1>3, <2>3, <1>a, <1>r, PhaseMoves
  <2>5. Abstract!AllBlobs(a) \subseteq objects
    BY <1>3, <1>k DEF Abstract!AllBlobs, Live
  <2>6. Abstract!Finish(a)
    BY <2>1, <2>4, <2>5, <1>2 DEF Abstract!Finish, Abstract!Moves, Phase
  <2> QED BY <1>a, <2>6 DEF LifecycleStep, Abstract!LifecycleNext
<1>4. CASE ~Live(db[a]) /\ db' = [db EXCEPT ![a] = UpdateProcessingStatus(db[a], "completed", thumbs)]
  BY <1>2, <1>4, <1>a, <1>r, PhaseStays DEF UpdateProcessingStatus, LifecycleStep
<1>5. CASE UNCHANGED db
  BY <1>2, <1>5 DEF LifecycleStep, Phase
<1> QED BY <1>1, <1>3, <1>4, <1>5

\* Marking the processing failed breaks a stored avatar; it leaves a deleted
\* row alone.
LEMMA MarkFailedRefines ==
  ASSUME IInv, NEW w \in Workers, MarkProcessingFailed(w)
  PROVE  LifecycleStep
<1> DEFINE a == ucon[w].msg.avatar
<1>t. BackendsTypeOK /\ WorkerTypeOK
  BY DEF IInv, TypeOK
<1>a. a \in Avatars
  BY <1>t, HeldMessages DEF MarkProcessingFailed
<1>r. db \in [Avatars -> Rows] /\ db[a] \in Rows
  BY <1>a, <1>t DEF BackendsTypeOK
<1>s. StoredOrDeleted(a)
  BY DEF IInv, EventsFollowRows, MarkProcessingFailed
<1>1. db' = [db EXCEPT ![a] = UpdateProcessingStatus(db[a], "failed", {})] \/ UNCHANGED db
  BY <1>a, <1>r DEF MarkProcessingFailed, WorkerCall
<1>2. UNCHANGED objects
  BY DEF MarkProcessingFailed
<1> HIDE DEF a
<1>3. CASE Live(db[a]) /\ db' = [db EXCEPT ![a] = UpdateProcessingStatus(db[a], "failed", {})]
  <2>1. Phase[a] \in Abstract!Stored
    BY <1>3, <1>a, <1>r, <1>s, PhaseFacts DEF Live, StoredOrDeleted, Phase
  <2>2. db[a].upload = "uploaded"
    BY <1>3, <1>s DEF Live, StoredOrDeleted
  <2>3. PhaseOf(UpdateProcessingStatus(db[a], "failed", {})) = "broken"
    BY <1>r, <1>3, <2>2 DEF UpdateProcessingStatus, PhaseOf, Rows, RowsOver, Live
  <2>4. Phase' = [Phase EXCEPT ![a] = "broken"]
    BY <1>3, <2>3, <1>a, <1>r, PhaseMoves
  <2>5. Abstract!Break(a)
    BY <2>1, <2>4, <1>2 DEF Abstract!Break, Abstract!Moves, Phase
  <2> QED BY <1>a, <2>5 DEF LifecycleStep, Abstract!LifecycleNext
<1>4. CASE ~Live(db[a]) /\ db' = [db EXCEPT ![a] = UpdateProcessingStatus(db[a], "failed", {})]
  BY <1>2, <1>4, <1>a, <1>r, PhaseStays DEF UpdateProcessingStatus, LifecycleStep
<1>5. CASE UNCHANGED db
  BY <1>2, <1>5 DEF LifecycleStep, Phase
<1> QED BY <1>1, <1>3, <1>4, <1>5

\* A worker erases blobs of deleted avatars only.
LEMMA EraseRefines ==
  ASSUME IInv, NEW w \in Workers, DeleteKey(w)
  PROVE  LifecycleStep
<1> DEFINE a == dcon[w].msg.avatar
<1>t. BackendsTypeOK /\ WorkerTypeOK
  BY DEF IInv, TypeOK
<1>m. dcon[w].msg # NoMsg
  BY <1>t DEF DeleteKey, WorkerTypeOK
<1>a. a \in Avatars
  BY <1>t, <1>m DEF WorkerTypeOK, DeleteMsg
<1>d. db[a].deleted
  BY <1>m DEF IInv, EventsFollowRows
<1>1. Phase[a] = "deleted"
  BY <1>a, <1>d, <1>t, PhaseFacts DEF Phase, BackendsTypeOK
<1>2. UNCHANGED Phase
  BY DEF DeleteKey, Phase
<1>3. PICK k \in 0..NumSizes : objects' = objects \ {<<a, k>>} \/ UNCHANGED objects
  BY <1>t DEF DeleteKey, WorkerCall, WorkerTypeOK
<1> HIDE DEF a
<1>4. objects' = objects \ {<<a, k>>} => Abstract!Erase(a, k)
  BY <1>1, <1>2 DEF Abstract!Erase, Phase
<1> QED BY <1>a, <1>2, <1>3, <1>4 DEF LifecycleStep, Abstract!LifecycleNext

\* For every instance: the server, the queues and the workers, with their
\* retries and every kind of fault, show their clients nothing but the life
\* cycle: thumbnails are recorded only when all are stored, no blob of a live
\* avatar is erased, and no deleted avatar comes back.
THEOREM PipelineImplementsLifecycle == Spec => ImplementsLifecycle
<1>1. Init => Abstract!LifecycleInit
  BY DEF Init, BackendsInit, NoRow, PhaseOf, Abstract!LifecycleInit
<1>2. ASSUME IInv, [Next]_vars PROVE LifecycleStep
  <2>1. ASSUME UNCHANGED <<db, objects>> PROVE LifecycleStep
    BY <2>1 DEF LifecycleStep, Phase
  <2>2. CASE Next
    <3>1. CASE DataStep
      BY <1>2, <3>1, UploadRefines, DeleteRefines, ThumbRefines, CompleteRefines,
         MarkFailedRefines, EraseRefines
         DEF DataStep
    <3> QED BY <2>1, <2>2, <3>1, DataSteps
  <2>3. CASE UNCHANGED vars
    BY <2>1, <2>3 DEF vars
  <2> QED BY <1>2, <2>2, <2>3
<1>3. IInv /\ [Next]_vars => [Abstract!LifecycleNext]_(Abstract!lifecycleVars)
  BY <1>2 DEF LifecycleStep, Phase, Abstract!lifecycleVars
<1> QED BY <1>1, <1>3, Invariance, PTL DEF Spec, ImplementsLifecycle, Abstract!Lifecycle


---------------------------------------------------------------------------
(***************************************************************************)
(* The pipeline implements the transport of upload events: each step puts, *)
(* takes, decides about or gives back at most one event, in an order that  *)
(* AvatarTransport allows.                                                 *)
(***************************************************************************)

\* What AvatarTransport's variables stand for.
Held == [w \in Workers |-> ucon[w].msg]
Spent == {w \in Workers : ucon[w].pc \in {"markFailed", "ack"}}

TransportStep == Broker!TransportNext \/ UNCHANGED <<uploadQ, Held, Spent, dlq, linked>>

\* What the two show of a consumer, and what a step of it does to them.
LEMMA ConsumerShows ==
  ASSUME WorkerTypeOK, NEW w \in Workers
  PROVE  /\ Held[w] = ucon[w].msg
         /\ ucon[w].pc # "idle" <=> Held[w] # NoMsg
         /\ w \in Spent <=> ucon[w].pc \in {"markFailed", "ack"}
BY DEF WorkerTypeOK, Held, Spent

LEMMA ConsumerStepShows ==
  ASSUME WorkerTypeOK, NEW w \in Workers, NEW pc, NEW msg, NEW next,
         ucon' = [ucon EXCEPT ![w] = [pc |-> pc, msg |-> msg, next |-> next]]
  PROVE  /\ Held' = [Held EXCEPT ![w] = msg]
         /\ pc \in {"markFailed", "ack"} => Spent' = Spent \cup {w}
         /\ pc \notin {"markFailed", "ack"} => Spent' = Spent \ {w}
<1>1. /\ ucon'[w].pc = pc
      /\ ucon'[w].msg = msg
      /\ \A v \in Workers : v # w => ucon'[v] = ucon[v]
  BY DEF WorkerTypeOK
<1>2. Held' = [Held EXCEPT ![w] = msg]
  <2>1. Held' = [v \in Workers |-> IF v = w THEN msg ELSE ucon[v].msg]
    BY <1>1 DEF Held
  <2> QED BY <2>1 DEF Held
<1>3. \A v : v \in Spent' <=> v \in Workers /\ ucon'[v].pc \in {"markFailed", "ack"}
  BY DEF Spent
<1>4. \A v : v \in Spent <=> v \in Workers /\ ucon[v].pc \in {"markFailed", "ack"}
  BY DEF Spent
<1>5. ASSUME pc \in {"markFailed", "ack"} PROVE Spent' = Spent \cup {w}
  BY <1>1, <1>3, <1>4, <1>5
<1>6. ASSUME pc \notin {"markFailed", "ack"} PROVE Spent' = Spent \ {w}
  BY <1>1, <1>3, <1>4, <1>6
<1> QED BY <1>2, <1>5, <1>6

LEMMA ConsumerStopShows ==
  ASSUME WorkerTypeOK, NEW w \in Workers, ucon' = [ucon EXCEPT ![w] = IdleUpload]
  PROVE  Held' = [Held EXCEPT ![w] = NoMsg] /\ Spent' = Spent \ {w}
<1>1. ucon' = [ucon EXCEPT ![w] = [pc |-> "idle", msg |-> NoMsg, next |-> 1]]
  BY DEF IdleUpload
<1>2. "idle" \notin {"markFailed", "ack"}
  OBVIOUS
<1> QED BY <1>1, <1>2, ConsumerStepShows

\* A consumer that goes on with its message decides about it, or about nothing.
LEMMA CarryingOn ==
  ASSUME WorkerTypeOK, NEW w \in Workers, NEW pc, NEW next,
         ucon[w].pc \notin {"idle", "markFailed", "ack"}, pc # "markFailed",
         ucon' = [ucon EXCEPT ![w] = [pc |-> pc, msg |-> ucon[w].msg, next |-> next]],
         UNCHANGED <<uploadQ, dlq, linked>>
  PROVE  TransportStep
<1>1. Held' = Held
  BY ConsumerStepShows, ConsumerShows DEF Held
<1>2. Held[w] # NoMsg /\ w \notin Spent
  BY ConsumerShows
<1>3. CASE pc = "ack"
  <2>1. Spent' = Spent \cup {w}
    BY <1>3, ConsumerStepShows
  <2>2. Broker!Handled(w)
    BY <1>1, <1>2, <2>1 DEF Broker!Handled, Broker!InHand, Held, Spent
  <2> QED BY <2>2 DEF TransportStep, Broker!TransportNext
<1>4. CASE pc # "ack"
  <2>1. Spent' = Spent \ {w}
    BY <1>4, ConsumerStepShows
  <2> QED BY <1>1, <1>2, <2>1 DEF TransportStep
<1> QED BY <1>3, <1>4

\* Handling an event.
LEMMA HandlingTransports ==
  ASSUME WorkerTypeOK, NEW w \in Workers,
         CheckStatus(w) \/ Download(w) \/ ResizeFails(w) \/ StoreThumb(w) \/ Complete(w)
  PROVE  TransportStep
<1>1. /\ ucon[w].pc \notin {"idle", "markFailed", "ack"}
      /\ UNCHANGED <<uploadQ, dlq, linked>>
  BY DEF CheckStatus, Download, ResizeFails, StoreThumb, Complete
<1>2. PICK pc, next :
        /\ pc # "markFailed"
        /\ ucon' = [ucon EXCEPT ![w] = [pc |-> pc, msg |-> ucon[w].msg, next |-> next]]
  <2>1. CASE CheckStatus(w)
    <3>1. \E pc \in {"fail", "ack", "download"} : UploadConsumerGoes(w, pc)
      BY <2>1 DEF CheckStatus, WorkerRead
    <3> QED BY <3>1 DEF UploadConsumerGoes
  <2>2. CASE Download(w)
    <3>1. \E pc \in {"fail", "thumb"} : UploadConsumerGoes(w, pc)
      BY <2>2 DEF Download, WorkerRead
    <3> QED BY <3>1 DEF UploadConsumerGoes
  <2>3. CASE ResizeFails(w)
    BY <2>3 DEF ResizeFails, UploadConsumerGoes
  <2>4. CASE StoreThumb(w)
    <3>1. \/ UploadConsumerGoes(w, "fail")
          \/ ucon' = [ucon EXCEPT ![w] = [pc |-> AfterThumb(ucon[w].next), msg |-> ucon[w].msg,
                                          next |-> ucon[w].next + 1]]
      BY <2>4 DEF StoreThumb, WorkerCall
    <3>2. AfterThumb(ucon[w].next) # "markFailed"
      BY DEF AfterThumb
    <3> QED BY <3>1, <3>2 DEF UploadConsumerGoes
  <2>5. CASE Complete(w)
    <3>1. \E pc \in {"fail", "ack"} : UploadConsumerGoes(w, pc)
      BY <2>5 DEF Complete, WorkerCall
    <3> QED BY <3>1 DEF UploadConsumerGoes
  <2> QED BY <2>1, <2>2, <2>3, <2>4, <2>5
<1> QED BY <1>1, <1>2, CarryingOn

\* Taking an event.
LEMMA DeliveryTransports ==
  ASSUME WorkerTypeOK, NEW w \in Workers, NEW m \in UploadMsg, DeliverUpload(w, m)
  PROVE  TransportStep
<1>1. Held' = [Held EXCEPT ![w] = m] /\ Spent' = Spent \ {w}
  <2>1. ucon' = [ucon EXCEPT ![w] = [pc |-> "status", msg |-> m, next |-> 1]]
    BY DEF DeliverUpload
  <2>2. "status" \notin {"markFailed", "ack"}
    OBVIOUS
  <2> QED BY <2>1, <2>2, ConsumerStepShows
<1>2. Held[w] = NoMsg /\ w \notin Spent
  BY ConsumerShows DEF DeliverUpload
<1>3. Broker!Deliver(w, m)
  BY <1>1, <1>2
     DEF DeliverUpload, Broker!Deliver, Broker!Lets, Broker!Take, Take, Held, Spent
<1> QED BY <1>3 DEF TransportStep, Broker!TransportNext, UploadMsg, Broker!Msg

\* What follows a failed handler, and the acknowledgement.
LEMMA SettlingTransports ==
  ASSUME WorkerTypeOK, NEW w \in Workers,
         \/ PublishRetry(w) \/ PublishToDLQ(w) \/ Requeue(w) \/ GiveUp(w)
         \/ MarkProcessingFailed(w) \/ AckUpload(w)
  PROVE  TransportStep
<1>h. /\ Held[w] = ucon[w].msg
      /\ ucon[w].pc = "fail" => Held[w] # NoMsg /\ w \notin Spent
      /\ ucon[w].pc \in {"markFailed", "ack"} => w \in Spent
  BY ConsumerShows
<1>g. ASSUME NEW pc, UploadConsumerGoes(w, pc)
      PROVE  /\ Held' = Held
             /\ pc \in {"markFailed", "ack"} => Spent' = Spent \cup {w}
  <2>1. ucon' = [ucon EXCEPT ![w] = [pc |-> pc, msg |-> ucon[w].msg, next |-> 1]]
    BY <1>g DEF UploadConsumerGoes
  <2>2. /\ Held' = [Held EXCEPT ![w] = ucon[w].msg]
        /\ pc \in {"markFailed", "ack"} => Spent' = Spent \cup {w}
    BY <2>1, ConsumerStepShows
  <2> QED BY <1>h, <2>2 DEF Held
<1>i. ASSUME ucon' = [ucon EXCEPT ![w] = IdleUpload]
      PROVE  Held' = [Held EXCEPT ![w] = NoMsg] /\ Spent' = Spent \ {w}
  BY <1>i, ConsumerStopShows
<1>n. Broker!TransportNext => TransportStep
  BY DEF TransportStep
<1>1. CASE PublishRetry(w)
  <2>1. Held' = Held /\ Spent' = Spent \cup {w}
    BY <1>1, <1>g DEF PublishRetry
  <2>2. Broker!Retry(w)
    BY <1>1, <1>h, <2>1
       DEF PublishRetry, Broker!Retry, Broker!InHand, Broker!Put, Put, Held, Spent
  <2> QED BY <1>n, <2>2 DEF Broker!TransportNext
<1>2. CASE PublishToDLQ(w)
  <2>1. Held' = Held /\ Spent' = Spent \cup {w}
    BY <1>2, <1>g DEF PublishToDLQ
  <2>2. Broker!DeadLetter(w)
    BY <1>2, <1>h, <2>1 DEF PublishToDLQ, Broker!DeadLetter, Broker!InHand, Held, Spent
  <2> QED BY <1>n, <2>2 DEF Broker!TransportNext
<1>3. CASE Requeue(w)
  <2>1. Held' = [Held EXCEPT ![w] = NoMsg] /\ Spent' = Spent \ {w}
    BY <1>3, <1>i DEF Requeue
  <2>2. Broker!GiveBack(w)
    BY <1>3, <1>h, <2>1
       DEF Requeue, Broker!GiveBack, Broker!InHand, Broker!Lets, Broker!Put, Put, Held, Spent
  <2> QED BY <1>n, <2>2 DEF Broker!TransportNext
<1>4. CASE GiveUp(w)
  <2>1. Held' = [Held EXCEPT ![w] = NoMsg] /\ Spent' = Spent \ {w}
    BY <1>4, <1>i DEF GiveUp
  <2>2. Broker!Drop(w)
    BY <1>4, <1>h, <2>1
       DEF GiveUp, Broker!Drop, Broker!InHand, Broker!Lets, Held, Spent, backendVars
  <2> QED BY <1>n, <2>2 DEF Broker!TransportNext
<1>5. CASE MarkProcessingFailed(w)
  <2>1. UploadConsumerGoes(w, "ack")
    BY <1>5 DEF MarkProcessingFailed, WorkerCall
  <2>2. Held' = Held /\ Spent' = Spent
    BY <1>5, <1>g, <1>h, <2>1 DEF MarkProcessingFailed
  <2> QED BY <1>5, <2>2 DEF TransportStep, MarkProcessingFailed
<1>6. CASE AckUpload(w)
  <2>1. Held' = [Held EXCEPT ![w] = NoMsg] /\ Spent' = Spent \ {w}
    BY <1>6, <1>i DEF AckUpload
  <2>2. Broker!Acknowledge(w)
    BY <1>6, <1>h, <2>1 DEF AckUpload, Broker!Acknowledge, Broker!Lets, Held, Spent, backendVars
  <2> QED BY <1>n, <2>2 DEF Broker!TransportNext
<1> QED BY <1>1, <1>2, <1>3, <1>4, <1>5, <1>6

\* A lost connection, and the end of a process.
LEMMA EndsTransport ==
  ASSUME WorkerTypeOK, NEW w \in Workers, Disconnect(w) \/ Restart(w)
  PROVE  TransportStep
<1>h. Held[w] = ucon[w].msg /\ (ucon[w].pc # "idle" <=> Held[w] # NoMsg)
  BY ConsumerShows
<1>q. Broker!TakenBack(w)
  BY <1>h DEF Disconnect, Restart, ReturnUnacked, Broker!TakenBack, Broker!Put, Put, Held
<1>1. CASE Disconnect(w)
  <2>1. Broker!Lose(w)
    BY <1>1, <1>q DEF Disconnect, Broker!Lose
  <2> QED BY <2>1 DEF TransportStep, Broker!TransportNext
<1>2. CASE Restart(w)
  <2>1. Held' = [Held EXCEPT ![w] = NoMsg] /\ Spent' = Spent \ {w}
    BY <1>2, ConsumerStopShows DEF Restart
  <2>2. Broker!End(w)
    BY <1>2, <1>q, <2>1 DEF Restart, Broker!End, Broker!Lets, Held, Spent
  <2> QED BY <2>2 DEF TransportStep, Broker!TransportNext
<1> QED BY <1>1, <1>2

\* The server publishes new events and does nothing else to them.
LEMMA ServiceTransports ==
  ASSUME ServiceNext, UNCHANGED workerVars
  PROVE  TransportStep
<1>w. UNCHANGED <<Held, Spent, linked>>
  BY DEF workerVars, Held, Spent
<1>1. UNCHANGED dlq
  BY DEF ServiceNext, CreateRow, UploadStep, StoreOriginal, MarkUploadFailed, MarkUploaded,
         PublishUpload, AbortUpload, ReadForDelete, DeleteStep, SoftDelete, PublishDelete, AbortDelete
<1>2. \/ UNCHANGED uploadQ
      \/ \E a \in Avatars : uploadQ' = Put(uploadQ, [avatar |-> a, retry |-> 0])
  BY DEF ServiceNext, CreateRow, UploadStep, StoreOriginal, MarkUploadFailed, MarkUploaded,
         PublishUpload, AbortUpload, ReadForDelete, DeleteStep, SoftDelete, PublishDelete, AbortDelete,
         Publish, Call
<1>3. ASSUME NEW a \in Avatars, uploadQ' = Put(uploadQ, [avatar |-> a, retry |-> 0])
      PROVE  TransportStep
  <2>1. [avatar |-> a, retry |-> 0] \in Broker!Msg
    BY MaxRetryAssumption DEF Broker!Msg
  <2>2. Broker!Accept([avatar |-> a, retry |-> 0])
    BY <1>1, <1>3, <1>w DEF Broker!Accept, Broker!Put, Put, Held, Spent
  <2> QED BY <2>1, <2>2 DEF TransportStep, Broker!TransportNext
<1> QED BY <1>1, <1>2, <1>3, <1>w DEF TransportStep

\* For every instance: requests and workers, with their retries and every
\* kind of fault, treat upload events as AvatarTransport says, and so never
\* drop a pending one (EventsAreNeverDropped).
THEOREM PipelineImplementsTransport == Spec => ImplementsTransport
<1>1. Init => Broker!TransportInit
  BY DEF Init, BackendsInit, WorkerInit, IdleUpload, UploadMsg, Broker!TransportInit, Broker!Msg
<1>2. ASSUME TypeOK, [Next]_vars PROVE TransportStep
  <2>t. WorkerTypeOK
    BY <1>2 DEF TypeOK
  <2>s. ASSUME UNCHANGED <<uploadQ, ucon, dlq, linked>> PROVE TransportStep
    BY <2>s DEF TransportStep, Held, Spent
  <2>1. CASE ServiceNext /\ UNCHANGED workerVars
    BY <2>1, ServiceTransports
  <2>2. ASSUME NEW w \in Workers, UploadConsumerStep(w) PROVE TransportStep
    BY <2>t, <2>2, DeliveryTransports, HandlingTransports, SettlingTransports
       DEF UploadConsumerStep
  <2>3. ASSUME NEW w \in Workers, DeleteConsumerStep(w) \/ Sigterm(w) PROVE TransportStep
    BY <2>3, <2>s DEF DeleteConsumerStep, DeliverDelete, DeleteKey, AckDelete, Sigterm, backendVars
  <2>4. ASSUME NEW w \in Workers, Disconnect(w) \/ Exit(w) \/ Crash(w) PROVE TransportStep
    BY <2>t, <2>4, EndsTransport DEF Exit, Crash
  <2>5. CASE UNCHANGED vars
    BY <2>5, <2>s DEF vars
  <2> QED BY <1>2, <2>1, <2>2, <2>3, <2>4, <2>5 DEF Next, WorkerNext
<1>3. TypeOK /\ [Next]_vars => [Broker!TransportNext]_(Broker!transportVars)
  BY <1>2 DEF TransportStep, Broker!transportVars, Held, Spent
<1> QED BY <1>1, <1>3, TypeCorrect, PTL DEF Spec, ImplementsTransport, Broker!Transport

---------------------------------------------------------------------------
(***************************************************************************)
(* What AvatarTransport guarantees holds of the pipeline too.              *)
(***************************************************************************)

Kept == INSTANCE AvatarTransport_proofs WITH queue <- uploadQ, held <- Held, spent <- Spent, dead <- dlq

\* Both instances are of the same definitions.
LEMMA SameTransport ==
  /\ Broker!TransportInit => Kept!TransportInit
  /\ [Broker!TransportNext]_(Broker!transportVars) => [Kept!TransportNext]_(Kept!transportVars)
  /\ [Kept!DropsNothing]_(Kept!transportVars) => [Broker!DropsNothing]_(Broker!transportVars)
BY DEF Held, Spent, Broker!TransportInit, Kept!TransportInit, Broker!Msg, Kept!Msg,
       Broker!TransportNext, Kept!TransportNext, Broker!transportVars, Kept!transportVars,
       Broker!Accept, Kept!Accept, Broker!Deliver, Kept!Deliver, Broker!Handled, Kept!Handled,
       Broker!Retry, Kept!Retry, Broker!DeadLetter, Kept!DeadLetter,
       Broker!Acknowledge, Kept!Acknowledge, Broker!GiveBack, Kept!GiveBack,
       Broker!Drop, Kept!Drop, Broker!Lose, Kept!Lose, Broker!End, Kept!End,
       Broker!TakenBack, Kept!TakenBack, Broker!InHand, Kept!InHand,
       Broker!Lets, Kept!Lets, Broker!Put, Kept!Put, Broker!Take, Kept!Take,
       Broker!DropsNothing, Kept!DropsNothing, Broker!Pending, Kept!Pending

\* For every instance: a pending upload event of the pipeline stays pending
\* until a worker has handled it or it is dead-lettered, whatever calls fail,
\* workers restart or connections are lost, and whoever else works on a copy
\* of it (worker/app.go: a delivery is acknowledged only after its outcome).
THEOREM PipelineDropsNoEvent == Spec => Broker!NeverDropped
<1>1. Kept!Sane
  BY MaxRetryAssumption, NoMsgAssumption DEF Kept!Sane, Kept!Msg, UploadMsg
<1>2. Kept!Transport => Kept!NeverDropped
  BY <1>1, Kept!EventsAreNeverDropped
<1>3. Broker!Transport => Kept!Transport
  BY SameTransport, PTL DEF Broker!Transport, Kept!Transport
<1>4. Kept!NeverDropped => Broker!NeverDropped
  BY SameTransport, PTL DEF Broker!NeverDropped, Kept!NeverDropped
<1> QED BY <1>2, <1>3, <1>4, PipelineImplementsTransport, PTL DEF ImplementsTransport

=============================================================================
