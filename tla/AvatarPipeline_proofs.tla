----------------------- MODULE AvatarPipeline_proofs -----------------------
(***************************************************************************)
(* Theorems about the pipeline, for every number of avatars, requests,     *)
(* workers, thumbnail sizes, retry levels and faults.                      *)
(***************************************************************************)
EXTENDS AvatarPipeline, TLAPS

---------------------------------------------------------------------------
(* Type correctness *)

\* Every statement maps a row to a row.
LEMMA RowTypes ==
  ASSUME NEW row \in Rows, NEW status \in ProcessingStatus, NEW thumbs \in SUBSET Sizes
  PROVE  /\ NoRow \in Rows
         /\ CreateAvatar(row) \in Rows
         /\ SetAvatarUploaded(row) \in Rows
         /\ SetAvatarUploadFailed(row) \in Rows
         /\ UpdateProcessingStatus(row, status, thumbs) \in Rows
         /\ SoftDeleteAvatar(row) \in Rows
BY DEF Rows, RowsOver, UploadStatus, ProcessingStatus, NoRow, CreateAvatar,
       SetAvatarUploaded, SetAvatarUploadFailed, UpdateProcessingStatus, SoftDeleteAvatar

\* The fault counter stays within its bound.
LEMMA FaultTypes ==
  ASSUME faults \in 0..MaxFaults, NEW kind, Fault(kind)
  PROVE  faults' \in 0..MaxFaults
BY MaxFaultsAssumption DEF Fault

\* Put and Take keep a queue a bag.
LEMMA QueueTypes ==
  ASSUME NEW S, NEW queue \in [S -> Nat], NEW m \in S
  PROVE  /\ Put(queue, m) \in [S -> Nat]
         /\ queue[m] > 0 => Take(queue, m) \in [S -> Nat]
BY DEF Put, Take

\* What the initial state is made of has its type.
LEMMA TypeInit == Init => TypeOK
<1> SUFFICES ASSUME Init PROVE TypeOK
    OBVIOUS
<1>1. BackendsTypeOK
  <2>1. NoRow \in Rows
    BY DEF Rows, RowsOver, UploadStatus, ProcessingStatus, NoRow
  <2> QED BY <2>1, MaxFaultsAssumption DEF Init, BackendsInit, BackendsTypeOK
<1>2. ServiceTypeOK
  BY DEF Init, ServiceInit, ServiceTypeOK, UploadPc, DeletePc
<1>3. WorkerTypeOK
  BY NumSizesAssumption DEF Init, WorkerInit, WorkerTypeOK, IdleUpload, IdleDelete, ConsumerPc
<1> QED BY <1>1, <1>2, <1>3 DEF TypeOK

\* Every step of the server keeps the types.
LEMMA ServiceTypes ==
  ASSUME TypeOK, ServiceNext, UNCHANGED workerVars PROVE TypeOK'
<1> USE DEF TypeOK
<1>w. WorkerTypeOK'
  BY DEF WorkerTypeOK, workerVars
<1>1. ASSUME NEW a \in Avatars, CreateRow(a) PROVE TypeOK'
  <2>1. CreateAvatar(db[a]) \in Rows
    BY RowTypes DEF BackendsTypeOK, ProcessingStatus
  <2>2. BackendsTypeOK'
    BY <1>1, <2>1, FaultTypes DEF CreateRow, Call, BackendsTypeOK
  <2>3. ServiceTypeOK'
    BY <1>1 DEF CreateRow, Call, UploadGoes, UploadPc, ServiceTypeOK
  <2> QED BY <1>w, <2>2, <2>3
<1>2. ASSUME NEW a \in Avatars, StoreOriginal(a) PROVE TypeOK'
  <2>1. BackendsTypeOK'
    BY <1>2, FaultTypes, NumSizesAssumption DEF StoreOriginal, Call, BackendsTypeOK, Object
  <2>2. ServiceTypeOK'
    BY <1>2 DEF StoreOriginal, Call, UploadGoes, UploadPc, ServiceTypeOK
  <2> QED BY <1>w, <2>1, <2>2
<1>3. ASSUME NEW a \in Avatars, MarkUploadFailed(a) PROVE TypeOK'
  <2>1. SetAvatarUploadFailed(db[a]) \in Rows
    BY RowTypes DEF BackendsTypeOK, ProcessingStatus
  <2>2. BackendsTypeOK'
    BY <1>3, <2>1, FaultTypes DEF MarkUploadFailed, Call, BackendsTypeOK
  <2>3. ServiceTypeOK'
    BY <1>3 DEF MarkUploadFailed, Call, UploadGoes, UploadPc, ServiceTypeOK
  <2> QED BY <1>w, <2>2, <2>3
<1>4. ASSUME NEW a \in Avatars, MarkUploaded(a) PROVE TypeOK'
  <2>1. SetAvatarUploaded(db[a]) \in Rows
    BY RowTypes DEF BackendsTypeOK, ProcessingStatus
  <2>2. BackendsTypeOK'
    BY <1>4, <2>1, FaultTypes DEF MarkUploaded, Call, BackendsTypeOK
  <2>3. ServiceTypeOK'
    BY <1>4 DEF MarkUploaded, Call, UploadGoes, UploadPc, ServiceTypeOK
  <2> QED BY <1>w, <2>2, <2>3
<1>5. ASSUME NEW a \in Avatars, PublishUpload(a) PROVE TypeOK'
  <2>1. [avatar |-> a, retry |-> 0] \in UploadMsg
    BY MaxRetryAssumption DEF UploadMsg
  <2>2. BackendsTypeOK'
    BY <1>5, <2>1, FaultTypes, QueueTypes DEF PublishUpload, Publish, Call, BackendsTypeOK
  <2>3. ServiceTypeOK'
    BY <1>5 DEF PublishUpload, Publish, Call, UploadGoes, UploadPc, ServiceTypeOK
  <2> QED BY <1>w, <2>2, <2>3
<1>6. ASSUME NEW a \in Avatars, AbortUpload(a) PROVE TypeOK'
  <2>1. BackendsTypeOK'
    BY <1>6, FaultTypes DEF AbortUpload, BackendsTypeOK
  <2>2. ServiceTypeOK'
    BY <1>6 DEF AbortUpload, UploadGoes, UploadPc, ServiceTypeOK
  <2> QED BY <1>w, <2>1, <2>2
<1>7. ASSUME NEW d \in Deletes, NEW a \in Avatars, NEW u \in Users, ReadForDelete(d, a, u)
      PROVE  TypeOK'
  <2>1. BackendsTypeOK'
    BY <1>7, FaultTypes DEF ReadForDelete, Read, BackendsTypeOK
  <2>2. CollectedKeys(a) \in DeleteMsg
    BY DEF CollectedKeys, BackendsTypeOK, Rows, RowsOver, DeleteMsg
  <2>3. ServiceTypeOK'
    BY <1>7, <2>2, NoMsgAssumption DEF ReadForDelete, Read, DeleteGoes, DeletePc, ServiceTypeOK
  <2> QED BY <1>w, <2>1, <2>3
<1>8. ASSUME NEW d \in Deletes, SoftDelete(d) PROVE TypeOK'
  <2>1. delete[d].event \in DeleteMsg
    BY <1>8 DEF SoftDelete, ServiceTypeOK
  <2>2. delete[d].event.avatar \in Avatars
    BY <2>1 DEF DeleteMsg
  <2>3. SoftDeleteAvatar(db[delete[d].event.avatar]) \in Rows
    BY <2>2, RowTypes DEF BackendsTypeOK, ProcessingStatus
  <2>4. BackendsTypeOK'
    BY <1>8, <2>2, <2>3, FaultTypes DEF SoftDelete, Call, BackendsTypeOK
  <2>5. ServiceTypeOK'
    BY <1>8, <2>1, NoMsgAssumption DEF SoftDelete, Call, DeleteGoes, DeletePc, ServiceTypeOK
  <2> QED BY <1>w, <2>4, <2>5
<1>9. ASSUME NEW d \in Deletes, PublishDelete(d) PROVE TypeOK'
  <2>1. delete[d].event \in DeleteMsg
    BY <1>9 DEF PublishDelete, ServiceTypeOK
  <2>2. BackendsTypeOK'
    BY <1>9, <2>1, FaultTypes, QueueTypes DEF PublishDelete, Publish, Call, BackendsTypeOK
  <2>3. ServiceTypeOK'
    BY <1>9, <2>1, NoMsgAssumption
       DEF PublishDelete, Publish, Call, DeleteGoes, DeletePc, ServiceTypeOK
  <2> QED BY <1>w, <2>2, <2>3
<1>10. ASSUME NEW d \in Deletes, AbortDelete(d) PROVE TypeOK'
  <2>1. BackendsTypeOK'
    BY <1>10, FaultTypes DEF AbortDelete, BackendsTypeOK
  <2>2. ServiceTypeOK'
    BY <1>10 DEF AbortDelete, DeleteGoes, DeletePc, ServiceTypeOK
  <2> QED BY <1>w, <2>1, <2>2
<1> QED
  BY <1>1, <1>2, <1>3, <1>4, <1>5, <1>6, <1>7, <1>8, <1>9, <1>10
     DEF ServiceNext, UploadStep, DeleteStep

\* A consumer that is not idle holds a message of its queue.
LEMMA HeldMessages ==
  ASSUME WorkerTypeOK, NEW w \in Workers
  PROVE  /\ ucon[w].pc # "idle" =>
              /\ ucon[w].msg \in UploadMsg
              /\ ucon[w].msg.avatar \in Avatars
              /\ ucon[w].msg.retry \in 0..MaxRetry
         /\ dcon[w].msg # NoMsg =>
              /\ dcon[w].msg \in DeleteMsg
              /\ dcon[w].msg.avatar \in Avatars
BY DEF WorkerTypeOK, UploadMsg, DeleteMsg

\* The states an upload consumer may be in.
Consumer == [pc : ConsumerPc, msg : UploadMsg \cup {NoMsg}, next : 1..(NumSizes + 1)]

\* Giving one upload consumer a new state keeps the worker's types.
LEMMA ConsumerBecomes ==
  ASSUME WorkerTypeOK, NEW w \in Workers,
         NEW c \in Consumer,
         c.pc = "idle" <=> c.msg = NoMsg,
         c.pc = "thumb" => c.next \in Sizes,
         ucon' = [ucon EXCEPT ![w] = c],
         UNCHANGED <<dcon, stopping, linked>>
  PROVE  WorkerTypeOK'
BY DEF WorkerTypeOK, Consumer

\* Moving an upload consumer that holds a message keeps the worker's types.
LEMMA ConsumerMoves ==
  ASSUME WorkerTypeOK, NEW w \in Workers, ucon[w].pc # "idle",
         NEW pc \in ConsumerPc \ {"idle"}, UploadConsumerGoes(w, pc),
         UNCHANGED <<dcon, stopping, linked>>
  PROVE  WorkerTypeOK'
<1> DEFINE c == [pc |-> pc, msg |-> ucon[w].msg, next |-> 1]
<1>1. ucon[w] \in Consumer /\ ucon[w].msg # NoMsg
  BY DEF WorkerTypeOK, Consumer
<1>2. /\ 1 \in 1..(NumSizes + 1) /\ 1 \in Sizes
  BY NumSizesAssumption DEF Sizes
<1>3. c \in Consumer /\ c.pc = pc /\ c.msg = ucon[w].msg /\ c.next = 1
  BY <1>1, <1>2 DEF Consumer
<1>4. ucon' = [ucon EXCEPT ![w] = c]
  BY DEF UploadConsumerGoes
<1> HIDE DEF c
<1> QED BY <1>1, <1>2, <1>3, <1>4, ConsumerBecomes

\* An upload consumer that lets go of its message keeps the worker's types.
LEMMA ConsumerStops ==
  ASSUME WorkerTypeOK, NEW w \in Workers, ucon' = [ucon EXCEPT ![w] = IdleUpload],
         UNCHANGED <<dcon, stopping, linked>>
  PROVE  WorkerTypeOK'
BY NumSizesAssumption DEF WorkerTypeOK, IdleUpload, ConsumerPc

\* The queues keep their types when a connection ends.
LEMMA ReturnTypes ==
  ASSUME BackendsTypeOK, WorkerTypeOK, NEW w \in Workers, ReturnUnacked(w)
  PROVE  /\ uploadQ' \in [UploadMsg -> Nat]
         /\ deleteQ' \in [DeleteMsg -> Nat]
BY HeldMessages, QueueTypes DEF ReturnUnacked, BackendsTypeOK

\* A restarted process has its types.
LEMMA RestartTypes ==
  ASSUME TypeOK, NEW w \in Workers, Restart(w), faults' \in 0..MaxFaults
  PROVE  BackendsTypeOK' /\ WorkerTypeOK'
<1>1. BackendsTypeOK'
  BY ReturnTypes DEF TypeOK, Restart, BackendsTypeOK
<1>2. WorkerTypeOK'
  BY NumSizesAssumption
     DEF TypeOK, Restart, WorkerTypeOK, IdleUpload, IdleDelete, ConsumerPc
<1> QED BY <1>1, <1>2

\* Every step of a worker keeps the types.
LEMMA WorkerTypes ==
  ASSUME TypeOK, WorkerNext, UNCHANGED serviceVars PROVE TypeOK'
<1> USE DEF TypeOK
<1>s. ServiceTypeOK'
  BY DEF ServiceTypeOK, serviceVars
<1>1. ASSUME NEW w \in Workers, NEW m \in UploadMsg, DeliverUpload(w, m) PROVE TypeOK'
  <2>1. BackendsTypeOK'
    BY <1>1, QueueTypes DEF DeliverUpload, BackendsTypeOK
  <2>2. WorkerTypeOK'
    BY <1>1, NoMsgAssumption, NumSizesAssumption DEF DeliverUpload, WorkerTypeOK, ConsumerPc
  <2> QED BY <1>s, <2>1, <2>2
<1>2. ASSUME NEW w \in Workers, CheckStatus(w) PROVE TypeOK'
  <2>1. BackendsTypeOK'
    BY <1>2, FaultTypes DEF CheckStatus, WorkerRead, BackendsTypeOK
  <2>2. WorkerTypeOK'
    BY <1>2, ConsumerMoves DEF CheckStatus, WorkerRead, ConsumerPc
  <2> QED BY <1>s, <2>1, <2>2
<1>3. ASSUME NEW w \in Workers, Download(w) PROVE TypeOK'
  <2>1. BackendsTypeOK'
    BY <1>3, FaultTypes DEF Download, WorkerRead, BackendsTypeOK
  <2>2. WorkerTypeOK'
    BY <1>3, ConsumerMoves DEF Download, WorkerRead, ConsumerPc
  <2> QED BY <1>s, <2>1, <2>2
<1>4. ASSUME NEW w \in Workers, ResizeFails(w) PROVE TypeOK'
  <2>1. BackendsTypeOK'
    BY <1>4 DEF ResizeFails, BackendsTypeOK
  <2>2. WorkerTypeOK'
    BY <1>4, ConsumerMoves DEF ResizeFails, ConsumerPc
  <2> QED BY <1>s, <2>1, <2>2
<1>5. ASSUME NEW w \in Workers, StoreThumb(w) PROVE TypeOK'
  <2>1. /\ ucon[w].msg.avatar \in Avatars
        /\ ucon[w].next \in Sizes
    BY <1>5, HeldMessages DEF StoreThumb, WorkerTypeOK
  <2>2. BackendsTypeOK'
    BY <1>5, <2>1, FaultTypes, NumSizesAssumption
       DEF StoreThumb, WorkerCall, BackendsTypeOK, Object, Sizes
  <2>3. CASE UploadConsumerGoes(w, "fail")
    <3>1. WorkerTypeOK'
      BY <1>5, <2>3, ConsumerMoves DEF StoreThumb, ConsumerPc
    <3> QED BY <1>s, <2>2, <3>1
  <2>4. ASSUME ucon' = [ucon EXCEPT ![w] = [pc   |-> AfterThumb(ucon[w].next),
                                               msg  |-> @.msg,
                                               next |-> ucon[w].next + 1]]
        PROVE  TypeOK'
    <3> DEFINE k == ucon[w].next
               c == [pc |-> AfterThumb(k), msg |-> ucon[w].msg, next |-> k + 1]
    <3>1. ucon[w] \in Consumer /\ ucon[w].msg # NoMsg
      BY <1>5 DEF StoreThumb, WorkerTypeOK, Consumer
    <3>2. /\ AfterThumb(k) \in ConsumerPc \ {"idle"}
          /\ AfterThumb(k) = "thumb" => k + 1 \in Sizes
          /\ k + 1 \in 1..(NumSizes + 1)
      BY <2>1, NumSizesAssumption DEF AfterThumb, ConsumerPc, Sizes
    <3>3. /\ c \in Consumer
          /\ c.pc = AfterThumb(k) /\ c.msg = ucon[w].msg /\ c.next = k + 1
      BY <3>1, <3>2 DEF Consumer
    <3>4. ucon' = [ucon EXCEPT ![w] = c]
      BY <2>4
    <3> HIDE DEF c
    <3>5. WorkerTypeOK'
      BY <1>5, <3>1, <3>2, <3>3, <3>4, ConsumerBecomes DEF StoreThumb
    <3> QED BY <1>s, <2>2, <3>5
  <2> QED BY <1>5, <2>3, <2>4 DEF StoreThumb, WorkerCall
<1>6. ASSUME NEW w \in Workers, Complete(w) PROVE TypeOK'
  <2>1. ucon[w].msg.avatar \in Avatars
    BY <1>6, HeldMessages DEF Complete
  <2>2. 1..(ucon[w].next - 1) \in SUBSET Sizes
    BY <1>6, NumSizesAssumption DEF WorkerTypeOK, Sizes
  <2>3. UpdateProcessingStatus(db[ucon[w].msg.avatar], "completed", 1..(ucon[w].next - 1)) \in Rows
    BY <2>1, <2>2, RowTypes DEF BackendsTypeOK, ProcessingStatus
  <2>4. BackendsTypeOK'
    BY <1>6, <2>1, <2>3, FaultTypes DEF Complete, WorkerCall, BackendsTypeOK
  <2>5. WorkerTypeOK'
    BY <1>6, ConsumerMoves DEF Complete, WorkerCall, ConsumerPc
  <2> QED BY <1>s, <2>4, <2>5
<1>7. ASSUME NEW w \in Workers, PublishRetry(w) PROVE TypeOK'
  <2>1. [ucon[w].msg EXCEPT !.retry = @ + 1] \in UploadMsg
    BY <1>7, HeldMessages, MaxRetryAssumption DEF PublishRetry, UploadMsg
  <2>2. BackendsTypeOK'
    BY <1>7, <2>1, QueueTypes DEF PublishRetry, BackendsTypeOK
  <2>3. WorkerTypeOK'
    BY <1>7, ConsumerMoves DEF PublishRetry, ConsumerPc
  <2> QED BY <1>s, <2>2, <2>3
<1>8. ASSUME NEW w \in Workers, PublishToDLQ(w) PROVE TypeOK'
  <2>1. BackendsTypeOK'
    BY <1>8, HeldMessages DEF PublishToDLQ, BackendsTypeOK
  <2>2. WorkerTypeOK'
    BY <1>8, ConsumerMoves DEF PublishToDLQ, ConsumerPc
  <2> QED BY <1>s, <2>1, <2>2
<1>9. ASSUME NEW w \in Workers, Requeue(w) PROVE TypeOK'
  <2>1. BackendsTypeOK'
    BY <1>9, HeldMessages, QueueTypes, FaultTypes DEF Requeue, BackendsTypeOK
  <2>2. WorkerTypeOK'
    BY <1>9, ConsumerStops DEF Requeue
  <2> QED BY <1>s, <2>1, <2>2
<1>10. ASSUME NEW w \in Workers, GiveUp(w) \/ AckUpload(w) PROVE TypeOK'
  <2>1. BackendsTypeOK'
    BY <1>10 DEF GiveUp, AckUpload, backendVars, BackendsTypeOK
  <2>2. WorkerTypeOK'
    BY <1>10, ConsumerStops DEF GiveUp, AckUpload
  <2> QED BY <1>s, <2>1, <2>2
<1>11. ASSUME NEW w \in Workers, MarkProcessingFailed(w) PROVE TypeOK'
  <2>1. ucon[w].msg.avatar \in Avatars
    BY <1>11, HeldMessages DEF MarkProcessingFailed
  <2>2. UpdateProcessingStatus(db[ucon[w].msg.avatar], "failed", {}) \in Rows
    BY <2>1, RowTypes DEF BackendsTypeOK, ProcessingStatus
  <2>3. BackendsTypeOK'
    BY <1>11, <2>1, <2>2, FaultTypes DEF MarkProcessingFailed, WorkerCall, BackendsTypeOK
  <2>4. WorkerTypeOK'
    BY <1>11, ConsumerMoves DEF MarkProcessingFailed, WorkerCall, ConsumerPc
  <2> QED BY <1>s, <2>3, <2>4
<1>12. ASSUME NEW w \in Workers, NEW m \in DeleteMsg, DeliverDelete(w, m) PROVE TypeOK'
  <2>1. BackendsTypeOK'
    BY <1>12, QueueTypes DEF DeliverDelete, BackendsTypeOK
  <2>2. Keys(m) \subseteq 0..NumSizes
    BY NumSizesAssumption DEF Keys, DeleteMsg, Sizes
  <2>3. WorkerTypeOK'
    BY <1>12, <2>2, NoMsgAssumption DEF DeliverDelete, WorkerTypeOK
  <2> QED BY <1>s, <2>1, <2>3
<1>13. ASSUME NEW w \in Workers, DeleteKey(w) PROVE TypeOK'
  <2>1. BackendsTypeOK'
    BY <1>13, FaultTypes DEF DeleteKey, WorkerCall, BackendsTypeOK
  <2>2. PICK k \in dcon[w].todo : dcon' = [dcon EXCEPT ![w] = [msg |-> @.msg, todo |-> @.todo \ {k}]]
    BY <1>13 DEF DeleteKey, WorkerCall
  <2>3. /\ dcon[w] \in [msg : DeleteMsg \cup {NoMsg}, todo : SUBSET (0..NumSizes)]
        /\ dcon[w].msg = NoMsg => dcon[w].todo = {}
    BY DEF WorkerTypeOK
  <2>4. WorkerTypeOK'
    BY <1>13, <2>2, <2>3 DEF DeleteKey, WorkerTypeOK
  <2> QED BY <1>s, <2>1, <2>4
<1>14. ASSUME NEW w \in Workers, AckDelete(w) PROVE TypeOK'
  <2>1. BackendsTypeOK'
    BY <1>14 DEF AckDelete, backendVars, BackendsTypeOK
  <2>2. WorkerTypeOK'
    BY <1>14 DEF AckDelete, IdleDelete, WorkerTypeOK
  <2> QED BY <1>s, <2>1, <2>2
<1>15. ASSUME NEW w \in Workers, Disconnect(w) PROVE TypeOK'
  <2>1. BackendsTypeOK'
    BY <1>15, ReturnTypes, FaultTypes DEF Disconnect, BackendsTypeOK
  <2>2. WorkerTypeOK'
    BY <1>15 DEF Disconnect, WorkerTypeOK
  <2> QED BY <1>s, <2>1, <2>2
<1>16. ASSUME NEW w \in Workers, Sigterm(w) PROVE TypeOK'
  <2>1. BackendsTypeOK'
    BY <1>16, FaultTypes DEF Sigterm, BackendsTypeOK
  <2>2. WorkerTypeOK'
    BY <1>16 DEF Sigterm, WorkerTypeOK
  <2> QED BY <1>s, <2>1, <2>2
<1>17. ASSUME NEW w \in Workers, Exit(w) \/ Crash(w) PROVE TypeOK'
  <2>1. Restart(w) /\ faults' \in 0..MaxFaults
    BY <1>17, FaultTypes DEF Exit, Crash, BackendsTypeOK
  <2> QED BY <1>s, <2>1, RestartTypes
<1> QED
  BY <1>1, <1>2, <1>3, <1>4, <1>5, <1>6, <1>7, <1>8, <1>9, <1>10, <1>11, <1>12, <1>13,
     <1>14, <1>15, <1>16, <1>17
     DEF WorkerNext, UploadConsumerStep, DeleteConsumerStep

\* Every step of the pipeline keeps the types.
LEMMA TypeNext == TypeOK /\ [Next]_vars => TypeOK'
<1>1. ASSUME TypeOK, UNCHANGED vars PROVE TypeOK'
  BY <1>1 DEF TypeOK, BackendsTypeOK, ServiceTypeOK, WorkerTypeOK, vars
<1> QED BY <1>1, ServiceTypes, WorkerTypes DEF Next

\* In every reachable state of the pipeline every variable has its type;
\* the upload consumer's thumbnail index never leaves thumbnailSizes.
THEOREM TypeCorrect == Spec => []TypeOK
BY TypeInit, TypeNext, PTL DEF Spec

---------------------------------------------------------------------------
(* The inductive invariant *)

\* How the statements treat a row.
LEMMA RowFacts ==
  ASSUME NEW row \in Rows, NEW status \in ProcessingStatus, NEW thumbs \in SUBSET Sizes
  PROVE  /\ ~Live(row) =>
              /\ SetAvatarUploaded(row) = row
              /\ SetAvatarUploadFailed(row) = row
              /\ UpdateProcessingStatus(row, status, thumbs) = row
              /\ SoftDeleteAvatar(row) = row
         /\ Live(row) =>
              /\ SetAvatarUploaded(row) =
                   [upload |-> "uploaded", processing |-> row.processing,
                    thumbs |-> row.thumbs, deleted |-> FALSE]
              /\ SetAvatarUploadFailed(row) =
                   [upload |-> "failed", processing |-> row.processing,
                    thumbs |-> row.thumbs, deleted |-> FALSE]
              /\ UpdateProcessingStatus(row, status, thumbs) =
                   [upload |-> row.upload, processing |-> status,
                    thumbs |-> thumbs, deleted |-> FALSE]
              /\ SoftDeleteAvatar(row) =
                   [upload |-> row.upload, processing |-> row.processing,
                    thumbs |-> row.thumbs, deleted |-> TRUE]
         /\ Live(row) <=> row.upload # "absent" /\ ~row.deleted
BY DEF Rows, RowsOver, Live, SetAvatarUploaded, SetAvatarUploadFailed,
       UpdateProcessingStatus, SoftDeleteAvatar

\* The steps that change a row or the bucket.
DataStep ==
  \/ \E a \in Avatars :
       CreateRow(a) \/ StoreOriginal(a) \/ MarkUploadFailed(a) \/ MarkUploaded(a)
  \/ \E d \in Deletes : SoftDelete(d)
  \/ \E w \in Workers :
       StoreThumb(w) \/ Complete(w) \/ MarkProcessingFailed(w) \/ DeleteKey(w)

\* Every other step leaves the table and the bucket alone.
LEMMA DataSteps == ASSUME Next PROVE DataStep \/ UNCHANGED <<db, objects>>
<1>1. ASSUME NEW a \in Avatars, PublishUpload(a) \/ AbortUpload(a) PROVE UNCHANGED <<db, objects>>
  BY <1>1 DEF PublishUpload, AbortUpload
<1>2. ASSUME NEW d \in Deletes,
             \/ \E a \in Avatars, u \in Users : ReadForDelete(d, a, u)
             \/ PublishDelete(d) \/ AbortDelete(d)
      PROVE  UNCHANGED <<db, objects>>
  BY <1>2 DEF ReadForDelete, PublishDelete, AbortDelete
<1>3. ASSUME NEW w \in Workers,
             \/ \E m \in UploadMsg : DeliverUpload(w, m)
             \/ CheckStatus(w) \/ Download(w) \/ ResizeFails(w)
             \/ PublishRetry(w) \/ PublishToDLQ(w) \/ Requeue(w) \/ GiveUp(w) \/ AckUpload(w)
      PROVE  UNCHANGED <<db, objects>>
  BY <1>3 DEF DeliverUpload, CheckStatus, Download, ResizeFails, PublishRetry, PublishToDLQ,
              Requeue, GiveUp, AckUpload, backendVars
<1>4. ASSUME NEW w \in Workers,
             \/ \E m \in DeleteMsg : DeliverDelete(w, m)
             \/ AckDelete(w) \/ Disconnect(w) \/ Sigterm(w) \/ Exit(w) \/ Crash(w)
      PROVE  UNCHANGED <<db, objects>>
  BY <1>4 DEF DeliverDelete, AckDelete, Disconnect, Sigterm, Exit, Crash, Restart, backendVars
<1> QED
  BY <1>1, <1>2, <1>3, <1>4
     DEF Next, ServiceNext, WorkerNext, UploadStep, DeleteStep, UploadConsumerStep,
         DeleteConsumerStep, DataStep

\* What no step takes back: a soft delete, an upload's success, and the
\* blobs of an avatar that is not deleted.
Monotone ==
  \A a \in Avatars :
    /\ db[a].deleted => db'[a] = db[a]
    /\ StoredOrDeleted(a) => StoredOrDeleted(a)'
    /\ db[a].upload # "absent" => db'[a].upload # "absent"
    /\ ~db[a].deleted => \A k \in 0..NumSizes : <<a, k>> \in objects => <<a, k>> \in objects'

\* No step takes these back.
LEMMA StepsAreMonotone == ASSUME IInv, Next PROVE Monotone
<1>t. TypeOK /\ BackendsTypeOK /\ ServiceTypeOK /\ WorkerTypeOK
  BY DEF IInv, TypeOK
<1>1. ASSUME NEW a \in Avatars, CreateRow(a) PROVE Monotone
  <2>1. db[a] = NoRow
    BY <1>1 DEF CreateRow, IInv, RowsFollowRequests, RowFollowsRequest
  <2>2. db' = db \/ db' = [db EXCEPT ![a] = CreateAvatar(db[a])]
    BY <1>1 DEF CreateRow, Call
  <2> QED BY <1>1, <1>t, <2>1, <2>2 DEF CreateRow, Monotone, StoredOrDeleted, NoRow, BackendsTypeOK
<1>2. ASSUME NEW a \in Avatars, StoreOriginal(a) PROVE Monotone
  BY <1>2 DEF StoreOriginal, Call, Monotone, StoredOrDeleted
<1>3. ASSUME NEW a \in Avatars, MarkUploadFailed(a) PROVE Monotone
  <2>1. db[a].deleted \/ db[a].upload = "uploading"
    BY <1>3 DEF MarkUploadFailed, IInv, RowsFollowRequests, RowFollowsRequest
  <2>2. db' = db \/ db' = [db EXCEPT ![a] = SetAvatarUploadFailed(db[a])]
    BY <1>3 DEF MarkUploadFailed, Call
  <2>3. db[a] \in Rows
    BY <1>t DEF BackendsTypeOK
  <2> QED BY <1>3, <1>t, <2>1, <2>2, <2>3, RowFacts
          DEF MarkUploadFailed, Monotone, StoredOrDeleted, BackendsTypeOK, ProcessingStatus
<1>4. ASSUME NEW a \in Avatars, MarkUploaded(a) PROVE Monotone
  <2>2. db' = db \/ db' = [db EXCEPT ![a] = SetAvatarUploaded(db[a])]
    BY <1>4 DEF MarkUploaded, Call
  <2>3. db[a] \in Rows
    BY <1>t DEF BackendsTypeOK
  <2> QED BY <1>4, <1>t, <2>2, <2>3, RowFacts
          DEF MarkUploaded, Monotone, StoredOrDeleted, BackendsTypeOK, ProcessingStatus
<1>5. ASSUME NEW d \in Deletes, SoftDelete(d) PROVE Monotone
  <2> DEFINE a == delete[d].event.avatar
  <2>1. a \in Avatars
    BY <1>5, <1>t DEF SoftDelete, ServiceTypeOK, DeleteMsg
  <2>2. db' = db \/ db' = [db EXCEPT ![a] = SoftDeleteAvatar(db[a])]
    BY <1>5 DEF SoftDelete, Call
  <2>3. db[a] \in Rows
    BY <1>t, <2>1 DEF BackendsTypeOK
  <2> QED BY <1>5, <1>t, <2>1, <2>2, <2>3, RowFacts
          DEF SoftDelete, Monotone, StoredOrDeleted, BackendsTypeOK, ProcessingStatus
<1>6. ASSUME NEW w \in Workers, StoreThumb(w) PROVE Monotone
  BY <1>6 DEF StoreThumb, WorkerCall, Monotone, StoredOrDeleted
<1>7. ASSUME NEW w \in Workers, Complete(w) \/ MarkProcessingFailed(w) PROVE Monotone
  <2> DEFINE a == ucon[w].msg.avatar
  <2>1. a \in Avatars /\ 1..(ucon[w].next - 1) \in SUBSET Sizes
    BY <1>7, <1>t, HeldMessages, NumSizesAssumption
       DEF Complete, MarkProcessingFailed, WorkerTypeOK, Sizes
  <2>2. PICK status \in ProcessingStatus, thumbs \in SUBSET Sizes :
          db' = db \/ db' = [db EXCEPT ![a] = UpdateProcessingStatus(db[a], status, thumbs)]
    BY <1>7, <2>1 DEF Complete, MarkProcessingFailed, WorkerCall, ProcessingStatus
  <2>3. db[a] \in Rows
    BY <1>t, <2>1 DEF BackendsTypeOK
  <2>4. UNCHANGED objects
    BY <1>7 DEF Complete, MarkProcessingFailed
  <2> QED BY <1>t, <2>1, <2>2, <2>3, <2>4, RowFacts DEF Monotone, StoredOrDeleted, BackendsTypeOK
<1>8. ASSUME NEW w \in Workers, DeleteKey(w) PROVE Monotone
  <2>1. dcon[w].msg # NoMsg /\ UNCHANGED db
    BY <1>8, <1>t DEF DeleteKey, WorkerTypeOK
  <2>2. db[dcon[w].msg.avatar].deleted
    BY <2>1 DEF IInv, EventsFollowRows
  <2>3. PICK k : objects' = objects \/ objects' = objects \ {<<dcon[w].msg.avatar, k>>}
    BY <1>8 DEF DeleteKey, WorkerCall
  <2> QED BY <2>1, <2>2, <2>3 DEF Monotone, StoredOrDeleted
<1>9. ASSUME UNCHANGED <<db, objects>> PROVE Monotone
  BY <1>9 DEF Monotone, StoredOrDeleted
<1> QED
  BY <1>1, <1>2, <1>3, <1>4, <1>5, <1>6, <1>7, <1>8, <1>9, DataSteps DEF DataStep

\* What the safety properties say of one avatar's row and its blobs.
RowInv(a) ==
  /\ db[a].processing # "pending" => db[a].upload = "uploaded"
  /\ db[a].thumbs = IF db[a].processing = "completed" THEN Sizes ELSE {}
  /\ Live(db[a]) =>
       /\ db[a].upload = "uploaded" => <<a, 0>> \in objects
       /\ \A k \in db[a].thumbs : <<a, k>> \in objects

\* The part of the invariant that a step leaves alone when it neither
\* writes the avatar's row nor moves its upload request.
LEMMA OtherAvatars ==
  ASSUME TypeOK, Monotone, NEW a \in Avatars, RowInv(a), RowFollowsRequest(a),
         db'[a] = db[a], upload'[a] = upload[a]
  PROVE  RowInv(a)' /\ RowFollowsRequest(a)'
<1>1. db[a].deleted \/ \A k \in 0..NumSizes : <<a, k>> \in objects => <<a, k>> \in objects'
  BY DEF Monotone
<1>2. db[a].thumbs \subseteq 0..NumSizes /\ 0 \in 0..NumSizes
  BY NumSizesAssumption DEF TypeOK, BackendsTypeOK, Rows, RowsOver, Sizes
<1> QED BY <1>1, <1>2 DEF RowInv, RowFollowsRequest, StoredOrDeleted, Live

\* Every step keeps the rows and blobs as the safety properties ask.
LEMMA RowsNext ==
  ASSUME IInv, Next, NEW b \in Avatars PROVE RowInv(b)' /\ RowFollowsRequest(b)'
<1>t. TypeOK /\ BackendsTypeOK /\ ServiceTypeOK /\ WorkerTypeOK
  BY DEF IInv, TypeOK
<1>m. Monotone
  BY StepsAreMonotone
<1>i. \A a \in Avatars : RowInv(a) /\ RowFollowsRequest(a) /\ db[a] \in Rows
  BY <1>t DEF IInv, ProcessedOnlyIfUploaded, ThumbsAllOrNone, LiveObjectsBacked, RowInv,
              RowsFollowRequests, BackendsTypeOK
<1>o. (db'[b] = db[b] /\ upload'[b] = upload[b]) => RowInv(b)' /\ RowFollowsRequest(b)'
  BY <1>t, <1>m, <1>i, OtherAvatars
<1>1. ASSUME NEW a \in Avatars, CreateRow(a) PROVE RowInv(b)' /\ RowFollowsRequest(b)'
  <2>1. CASE a # b
    BY <1>1, <1>t, <1>o, <2>1 DEF CreateRow, Call, UploadGoes, BackendsTypeOK, ServiceTypeOK
  <2>2. CASE a = b
    <3>1. db[b] = NoRow
      BY <1>1, <1>i, <2>2 DEF CreateRow, RowFollowsRequest
    <3>2. \/ db'[b] = CreateAvatar(NoRow) /\ upload'[b] \in {"store", "error"}
          \/ db'[b] = NoRow /\ upload'[b] = "error"
      BY <1>1, <1>t, <2>2, <3>1
         DEF CreateRow, Call, UploadGoes, BackendsTypeOK, ServiceTypeOK
    <3> QED BY <3>2 DEF CreateAvatar, NoRow, RowInv, RowFollowsRequest, Live, StoredOrDeleted
  <2> QED BY <2>1, <2>2
<1>2. ASSUME NEW a \in Avatars, StoreOriginal(a) PROVE RowInv(b)' /\ RowFollowsRequest(b)'
  <2>1. CASE a # b
    BY <1>2, <1>t, <1>o, <2>1 DEF StoreOriginal, Call, UploadGoes, BackendsTypeOK, ServiceTypeOK
  <2>2. CASE a = b
    <3>1. /\ UNCHANGED db
          /\ \/ upload'[b] = "markUploaded" /\ <<b, 0>> \in objects'
             \/ upload'[b] = "markFailed"
          /\ objects \subseteq objects'
          /\ upload[b] = "store"
      BY <1>2, <1>t, <2>2 DEF StoreOriginal, Call, UploadGoes, ServiceTypeOK
    <3> QED BY <1>i, <3>1 DEF RowInv, RowFollowsRequest, StoredOrDeleted
  <2> QED BY <2>1, <2>2
<1>3. ASSUME NEW a \in Avatars, MarkUploadFailed(a) PROVE RowInv(b)' /\ RowFollowsRequest(b)'
  <2>1. CASE a # b
    BY <1>3, <1>t, <1>o, <2>1 DEF MarkUploadFailed, Call, UploadGoes, BackendsTypeOK, ServiceTypeOK
  <2>2. CASE a = b
    <3>1. /\ db'[b] \in {db[b], SetAvatarUploadFailed(db[b])}
          /\ upload'[b] = "error" /\ upload[b] = "markFailed" /\ UNCHANGED objects
      BY <1>3, <1>t, <2>2 DEF MarkUploadFailed, Call, UploadGoes, BackendsTypeOK, ServiceTypeOK
    <3> QED BY <1>i, <3>1, RowFacts
            DEF RowInv, RowFollowsRequest, StoredOrDeleted, ProcessingStatus, Live
  <2> QED BY <2>1, <2>2
<1>4. ASSUME NEW a \in Avatars, MarkUploaded(a) PROVE RowInv(b)' /\ RowFollowsRequest(b)'
  <2>1. CASE a # b
    BY <1>4, <1>t, <1>o, <2>1 DEF MarkUploaded, Call, UploadGoes, BackendsTypeOK, ServiceTypeOK
  <2>2. CASE a = b
    <3>1. /\ \/ db'[b] = SetAvatarUploaded(db[b]) /\ upload'[b] \in {"publish", "error"}
             \/ db'[b] = db[b] /\ upload'[b] = "error"
          /\ upload[b] = "markUploaded" /\ UNCHANGED objects
      BY <1>4, <1>t, <2>2 DEF MarkUploaded, Call, UploadGoes, BackendsTypeOK, ServiceTypeOK
    <3> QED BY <1>i, <3>1, RowFacts
            DEF RowInv, RowFollowsRequest, StoredOrDeleted, ProcessingStatus, Live
  <2> QED BY <2>1, <2>2
<1>5. ASSUME NEW a \in Avatars, PublishUpload(a) \/ AbortUpload(a)
      PROVE  RowInv(b)' /\ RowFollowsRequest(b)'
  <2>1. CASE a # b
    BY <1>5, <1>t, <1>o, <2>1
       DEF PublishUpload, AbortUpload, Publish, Call, UploadGoes, ServiceTypeOK
  <2>2. CASE a = b
    <3>1. /\ \/ upload'[b] = "error"
             \/ upload'[b] = "created" /\ upload[b] = "publish"
          /\ UNCHANGED <<db, objects>>
      BY <1>5, <1>t, <2>2 DEF PublishUpload, AbortUpload, Publish, Call, UploadGoes, ServiceTypeOK
    <3> QED BY <1>i, <3>1 DEF RowInv, RowFollowsRequest, StoredOrDeleted
  <2> QED BY <2>1, <2>2
<1>6. ASSUME NEW d \in Deletes, SoftDelete(d) PROVE RowInv(b)' /\ RowFollowsRequest(b)'
  <2>1. UNCHANGED <<upload, objects>> /\ db'[b] \in {db[b], SoftDeleteAvatar(db[b])}
    BY <1>6, <1>t DEF SoftDelete, Call, BackendsTypeOK
  <2> QED BY <1>i, <2>1, RowFacts
          DEF RowInv, RowFollowsRequest, StoredOrDeleted, ProcessingStatus, Live, NoRow
<1>7. ASSUME NEW w \in Workers, Complete(w), UNCHANGED serviceVars
      PROVE  RowInv(b)' /\ RowFollowsRequest(b)'
  <2> DEFINE a == ucon[w].msg.avatar
  <2>1. /\ StoredOrDeleted(a)
        /\ ~db[a].deleted => \A k \in Sizes : <<a, k>> \in objects
        /\ 1..(ucon[w].next - 1) = Sizes
    BY <1>7, NumSizesAssumption DEF Complete, IInv, EventsFollowRows, ProgressIsStored, Sizes
  <2>2. /\ UNCHANGED <<upload, objects>>
        /\ \/ db'[b] = db[b]
           \/ b = a /\ db'[b] = UpdateProcessingStatus(db[b], "completed", Sizes)
    BY <1>7, <1>t, <2>1 DEF Complete, WorkerCall, BackendsTypeOK, serviceVars
  <2>3. Sizes \in SUBSET Sizes /\ "completed" \in ProcessingStatus
    BY DEF ProcessingStatus
  <2> QED BY <1>i, <2>1, <2>2, <2>3, RowFacts
          DEF RowInv, RowFollowsRequest, StoredOrDeleted, Live, NoRow
<1>8. ASSUME NEW w \in Workers, MarkProcessingFailed(w), UNCHANGED serviceVars
      PROVE  RowInv(b)' /\ RowFollowsRequest(b)'
  <2> DEFINE a == ucon[w].msg.avatar
  <2>1. StoredOrDeleted(a)
    BY <1>8 DEF MarkProcessingFailed, IInv, EventsFollowRows
  <2>2. /\ UNCHANGED <<upload, objects>>
        /\ \/ db'[b] = db[b]
           \/ b = a /\ db'[b] = UpdateProcessingStatus(db[b], "failed", {})
    BY <1>8, <1>t DEF MarkProcessingFailed, WorkerCall, BackendsTypeOK, serviceVars
  <2>3. {} \in SUBSET Sizes /\ "failed" \in ProcessingStatus
    BY DEF ProcessingStatus
  <2> QED BY <1>i, <2>1, <2>2, <2>3, RowFacts
          DEF RowInv, RowFollowsRequest, StoredOrDeleted, Live, NoRow
<1>9. ASSUME UNCHANGED <<db, upload>> PROVE RowInv(b)' /\ RowFollowsRequest(b)'
  BY <1>9, <1>o
<1>10. ASSUME NEW d \in Deletes,
              \/ \E a \in Avatars, u \in Users : ReadForDelete(d, a, u)
              \/ PublishDelete(d) \/ AbortDelete(d)
       PROVE  UNCHANGED <<db, upload>>
  BY <1>10 DEF ReadForDelete, PublishDelete, AbortDelete
<1>11. ASSUME NEW w \in Workers, UploadConsumerStep(w), ~Complete(w), ~MarkProcessingFailed(w),
              UNCHANGED serviceVars
       PROVE  UNCHANGED <<db, upload>>
  BY <1>11 DEF UploadConsumerStep, DeliverUpload, CheckStatus, Download, ResizeFails, StoreThumb,
               PublishRetry, PublishToDLQ, Requeue, GiveUp, AckUpload, backendVars, serviceVars
<1>12. ASSUME NEW w \in Workers,
              DeleteConsumerStep(w) \/ Disconnect(w) \/ Sigterm(w) \/ Exit(w) \/ Crash(w),
              UNCHANGED serviceVars
       PROVE  UNCHANGED <<db, upload>>
  BY <1>12 DEF DeleteConsumerStep, DeliverDelete, DeleteKey, AckDelete, Disconnect, Sigterm,
               Exit, Crash, Restart, backendVars, serviceVars
<1> QED
  BY <1>1, <1>2, <1>3, <1>4, <1>5, <1>6, <1>7, <1>8, <1>9, <1>10, <1>11, <1>12
     DEF Next, ServiceNext, WorkerNext, UploadStep, DeleteStep

\* Where an upload event in the queue after a step came from.
LEMMA UploadEventOrigins ==
  ASSUME TypeOK, Next, NEW m \in UploadMsg, uploadQ'[m] > 0
  PROVE  \/ uploadQ[m] > 0
         \/ upload[m.avatar] = "publish"
         \/ \E w \in Workers : ucon[w].pc # "idle" /\ ucon[w].msg.avatar = m.avatar
<1> DEFINE Origin ==
             \/ uploadQ[m] > 0
             \/ upload[m.avatar] = "publish"
             \/ \E w \in Workers : ucon[w].pc # "idle" /\ ucon[w].msg.avatar = m.avatar
<1>t. uploadQ \in [UploadMsg -> Nat] /\ WorkerTypeOK
  BY DEF TypeOK, BackendsTypeOK
<1>p. ASSUME NEW n \in UploadMsg, uploadQ' \in {uploadQ, Put(uploadQ, n), Take(uploadQ, n)}, n # m
      PROVE  Origin
  BY <1>t, <1>p DEF Put, Take
<1>1. ASSUME NEW a \in Avatars, PublishUpload(a) PROVE Origin
  <2> DEFINE n == [avatar |-> a, retry |-> 0]
  <2>1. n \in UploadMsg /\ n.avatar = a
    BY MaxRetryAssumption DEF UploadMsg
  <2>2. upload[n.avatar] = "publish" /\ uploadQ' \in {uploadQ, Put(uploadQ, n)}
    BY <1>1 DEF PublishUpload, Publish, Call
  <2> HIDE DEF n
  <2> QED BY <2>1, <2>2, <1>p
<1>2. ASSUME NEW w \in Workers, NEW n \in UploadMsg, DeliverUpload(w, n) PROVE Origin
  BY <1>2, <1>t DEF DeliverUpload, Take
<1>3. ASSUME NEW w \in Workers, PublishRetry(w) PROVE Origin
  <2> DEFINE n == [ucon[w].msg EXCEPT !.retry = @ + 1]
  <2>1. n \in UploadMsg /\ n.avatar = ucon[w].msg.avatar
    BY <1>3, <1>t, HeldMessages, MaxRetryAssumption DEF PublishRetry, UploadMsg
  <2>2. uploadQ' = Put(uploadQ, n) /\ ucon[w].pc # "idle"
    BY <1>3 DEF PublishRetry
  <2> HIDE DEF n
  <2> QED BY <2>1, <2>2, <1>p
<1>4. ASSUME NEW w \in Workers, Requeue(w) \/ Disconnect(w) \/ Exit(w) \/ Crash(w) PROVE Origin
  <2>1. CASE uploadQ' = uploadQ
    BY <2>1
  <2>2. CASE ucon[w].pc # "idle" /\ uploadQ' = Put(uploadQ, ucon[w].msg)
    BY <2>2, <1>t, <1>p, HeldMessages
  <2> QED BY <1>4, <2>1, <2>2 DEF Requeue, Disconnect, Exit, Crash, Restart, ReturnUnacked
<1>5. ASSUME UNCHANGED uploadQ PROVE Origin
  BY <1>5
<1>6. ASSUME NEW a \in Avatars,
             \/ CreateRow(a) \/ StoreOriginal(a) \/ MarkUploadFailed(a) \/ MarkUploaded(a)
             \/ AbortUpload(a)
      PROVE  UNCHANGED uploadQ
  BY <1>6 DEF CreateRow, StoreOriginal, MarkUploadFailed, MarkUploaded, AbortUpload
<1>7. ASSUME NEW d \in Deletes,
             \/ \E a \in Avatars, u \in Users : ReadForDelete(d, a, u)
             \/ SoftDelete(d) \/ PublishDelete(d) \/ AbortDelete(d)
      PROVE  UNCHANGED uploadQ
  BY <1>7 DEF ReadForDelete, SoftDelete, PublishDelete, AbortDelete
<1>8. ASSUME NEW w \in Workers,
             \/ CheckStatus(w) \/ Download(w) \/ ResizeFails(w) \/ StoreThumb(w) \/ Complete(w)
             \/ PublishToDLQ(w) \/ GiveUp(w) \/ MarkProcessingFailed(w) \/ AckUpload(w)
             \/ DeleteConsumerStep(w) \/ Sigterm(w)
      PROVE  UNCHANGED uploadQ
  BY <1>8 DEF CheckStatus, Download, ResizeFails, StoreThumb, Complete, PublishToDLQ, GiveUp,
              MarkProcessingFailed, AckUpload, DeleteConsumerStep, DeliverDelete, DeleteKey,
              AckDelete, Sigterm, backendVars
<1> QED
  BY <1>1, <1>2, <1>3, <1>4, <1>5, <1>6, <1>7, <1>8
     DEF Next, ServiceNext, WorkerNext, UploadStep, DeleteStep, UploadConsumerStep

\* Where a delete event in the queue after a step came from.
LEMMA DeleteEventOrigins ==
  ASSUME TypeOK, Next, NEW m \in DeleteMsg, deleteQ'[m] > 0
  PROVE  \/ deleteQ[m] > 0
         \/ \E d \in Deletes : delete[d].pc = "publish" /\ delete[d].event = m
         \/ \E w \in Workers : dcon[w].msg = m
<1> DEFINE Origin ==
             \/ deleteQ[m] > 0
             \/ \E d \in Deletes : delete[d].pc = "publish" /\ delete[d].event = m
             \/ \E w \in Workers : dcon[w].msg = m
<1>t. deleteQ \in [DeleteMsg -> Nat] /\ WorkerTypeOK /\ ServiceTypeOK
  BY DEF TypeOK, BackendsTypeOK
<1>p. ASSUME NEW n \in DeleteMsg, deleteQ' \in {deleteQ, Put(deleteQ, n), Take(deleteQ, n)}, n # m
      PROVE  Origin
  BY <1>t, <1>p DEF Put, Take
<1>1. ASSUME NEW d \in Deletes, PublishDelete(d) PROVE Origin
  <2>1. delete[d].event \in DeleteMsg
    BY <1>1, <1>t DEF PublishDelete, ServiceTypeOK
  <2>2. delete[d].pc = "publish" /\ deleteQ' \in {deleteQ, Put(deleteQ, delete[d].event)}
    BY <1>1 DEF PublishDelete, Publish, Call
  <2> QED BY <2>1, <2>2, <1>p
<1>2. ASSUME NEW w \in Workers, NEW n \in DeleteMsg, DeliverDelete(w, n) PROVE Origin
  BY <1>2, <1>t DEF DeliverDelete, Take
<1>3. ASSUME NEW w \in Workers, Disconnect(w) \/ Exit(w) \/ Crash(w) PROVE Origin
  <2>1. CASE deleteQ' = deleteQ
    BY <2>1
  <2>2. CASE dcon[w].msg # NoMsg /\ deleteQ' = Put(deleteQ, dcon[w].msg)
    BY <2>2, <1>t, <1>p, HeldMessages
  <2> QED BY <1>3, <2>1, <2>2 DEF Disconnect, Exit, Crash, Restart, ReturnUnacked
<1>4. ASSUME UNCHANGED deleteQ PROVE Origin
  BY <1>4
<1>5. ASSUME NEW a \in Avatars, CreateRow(a) \/ UploadStep(a) \/ AbortUpload(a)
      PROVE  UNCHANGED deleteQ
  BY <1>5 DEF CreateRow, UploadStep, StoreOriginal, MarkUploadFailed, MarkUploaded,
              PublishUpload, AbortUpload
<1>6. ASSUME NEW d \in Deletes,
             \/ \E a \in Avatars, u \in Users : ReadForDelete(d, a, u)
             \/ SoftDelete(d) \/ AbortDelete(d)
      PROVE  UNCHANGED deleteQ
  BY <1>6 DEF ReadForDelete, SoftDelete, AbortDelete
<1>7. ASSUME NEW w \in Workers,
             UploadConsumerStep(w) \/ DeleteKey(w) \/ AckDelete(w) \/ Sigterm(w)
      PROVE  UNCHANGED deleteQ
  BY <1>7 DEF UploadConsumerStep, DeliverUpload, CheckStatus, Download, ResizeFails, StoreThumb,
              Complete, PublishRetry, PublishToDLQ, Requeue, GiveUp, MarkProcessingFailed,
              AckUpload, DeleteKey, AckDelete, Sigterm, backendVars
<1> QED
  BY <1>1, <1>2, <1>3, <1>4, <1>5, <1>6, <1>7
     DEF Next, ServiceNext, WorkerNext, DeleteStep, DeleteConsumerStep

\* Where the messages that consumers hold after a step came from.
LEMMA HeldMessageOrigins ==
  ASSUME TypeOK, Next, NEW w \in Workers
  PROVE  /\ ucon'[w].pc # "idle" =>
              \/ ucon[w].pc # "idle" /\ ucon[w].msg = ucon'[w].msg
              \/ ucon'[w].msg \in UploadMsg /\ uploadQ[ucon'[w].msg] > 0
         /\ dcon'[w].msg # NoMsg =>
              \/ dcon[w].msg = dcon'[w].msg
              \/ dcon'[w].msg \in DeleteMsg /\ deleteQ[dcon'[w].msg] > 0
<1> DEFINE Held ==
             /\ ucon'[w].pc # "idle" =>
                  \/ ucon[w].pc # "idle" /\ ucon[w].msg = ucon'[w].msg
                  \/ ucon'[w].msg \in UploadMsg /\ uploadQ[ucon'[w].msg] > 0
             /\ dcon'[w].msg # NoMsg =>
                  \/ dcon[w].msg = dcon'[w].msg
                  \/ dcon'[w].msg \in DeleteMsg /\ deleteQ[dcon'[w].msg] > 0
<1>t. WorkerTypeOK
  BY DEF TypeOK
<1>1. ASSUME UNCHANGED workerVars PROVE Held
  BY <1>1 DEF workerVars
<1>2. ASSUME NEW v \in Workers, NEW n \in UploadMsg, DeliverUpload(v, n) PROVE Held
  BY <1>2, <1>t DEF DeliverUpload, WorkerTypeOK
<1>3. ASSUME NEW v \in Workers,
             \/ CheckStatus(v) \/ Download(v) \/ ResizeFails(v) \/ StoreThumb(v) \/ Complete(v)
             \/ PublishRetry(v) \/ PublishToDLQ(v) \/ MarkProcessingFailed(v)
      PROVE  Held
  <2>1. ucon[v].pc # "idle" /\ UNCHANGED dcon
    BY <1>3 DEF CheckStatus, Download, ResizeFails, StoreThumb, Complete, PublishRetry,
                PublishToDLQ, MarkProcessingFailed
  <2>2. PICK pc, next :
          ucon' = [ucon EXCEPT ![v] = [pc |-> pc, msg |-> @.msg, next |-> next]]
    BY <1>3 DEF CheckStatus, Download, ResizeFails, StoreThumb, Complete, PublishRetry,
                PublishToDLQ, MarkProcessingFailed, WorkerRead, WorkerCall, UploadConsumerGoes
  <2> QED BY <1>t, <2>1, <2>2 DEF WorkerTypeOK
<1>4. ASSUME NEW v \in Workers, Requeue(v) \/ GiveUp(v) \/ AckUpload(v) PROVE Held
  BY <1>4, <1>t DEF Requeue, GiveUp, AckUpload, IdleUpload, WorkerTypeOK
<1>5. ASSUME NEW v \in Workers, NEW n \in DeleteMsg, DeliverDelete(v, n) PROVE Held
  BY <1>5, <1>t DEF DeliverDelete, WorkerTypeOK
<1>6. ASSUME NEW v \in Workers, DeleteKey(v) \/ AckDelete(v) PROVE Held
  BY <1>6, <1>t DEF DeleteKey, AckDelete, IdleDelete, WorkerCall, WorkerTypeOK
<1>7. ASSUME NEW v \in Workers, Disconnect(v) \/ Sigterm(v) PROVE Held
  BY <1>7 DEF Disconnect, Sigterm
<1>8. ASSUME NEW v \in Workers, Exit(v) \/ Crash(v) PROVE Held
  BY <1>8, <1>t DEF Exit, Crash, Restart, IdleUpload, IdleDelete, WorkerTypeOK
<1> QED
  BY <1>1, <1>2, <1>3, <1>4, <1>5, <1>6, <1>7, <1>8
     DEF Next, WorkerNext, UploadConsumerStep, DeleteConsumerStep

\* A delete request that is past SoftDelete after a step was so before it,
\* or has just deleted a live row.
LEMMA DeletePasses ==
  ASSUME TypeOK, Next, NEW d \in Deletes, delete'[d].pc \in {"publish", "done"}
  PROVE  LET a == delete[d].event.avatar IN
         /\ delete'[d].event = delete[d].event
         /\ a \in Avatars
         /\ \/ delete[d].pc \in {"publish", "done"}
            \/ /\ Live(db[a])
               /\ db'[a].deleted
               /\ \A e \in Deletes \ {d} : delete'[e] = delete[e]
<1> DEFINE a == delete[d].event.avatar
           Passed ==
             /\ delete'[d].event = delete[d].event
             /\ a \in Avatars
             /\ \/ delete[d].pc \in {"publish", "done"}
                \/ /\ Live(db[a])
                   /\ db'[a].deleted
                   /\ \A e \in Deletes \ {d} : delete'[e] = delete[e]
<1>t. ServiceTypeOK /\ BackendsTypeOK
  BY DEF TypeOK
<1>a. delete[d].pc \in {"softDelete", "publish", "done"} => a \in Avatars
  BY <1>t DEF ServiceTypeOK, DeleteMsg
<1>1. ASSUME UNCHANGED delete PROVE Passed
  BY <1>1, <1>a
<1>2. ASSUME NEW e \in Deletes, NEW b \in Avatars, NEW u \in Users, ReadForDelete(e, b, u)
      PROVE  Passed
  BY <1>2, <1>a, <1>t DEF ReadForDelete, Read, DeleteGoes, ServiceTypeOK
<1>3. ASSUME NEW e \in Deletes, SoftDelete(e) PROVE Passed
  <2>1. CASE e # d
    BY <1>3, <1>a, <1>t, <2>1 DEF SoftDelete, Call, DeleteGoes, ServiceTypeOK
  <2>2. CASE e = d
    <3>1. /\ SoftDeleted(db[a]) /\ delete' = [delete EXCEPT ![d] = [pc |-> "publish", event |-> delete[d].event]]
          /\ db' = [db EXCEPT ![a] = SoftDeleteAvatar(db[a])]
          /\ delete[d].pc = "softDelete"
      BY <1>3, <1>t, <2>2 DEF SoftDelete, Call, DeleteGoes, ServiceTypeOK
    <3>2. a \in Avatars /\ db[a] \in Rows
      BY <3>1, <1>a, <1>t DEF BackendsTypeOK
    <3>3. db'[a].deleted /\ Live(db[a])
      BY <3>1, <3>2, <1>t DEF SoftDeleteAvatar, SoftDeleted, BackendsTypeOK, Rows, RowsOver
    <3> QED BY <3>1, <3>2, <3>3, <1>t DEF ServiceTypeOK
  <2> QED BY <2>1, <2>2
<1>4. ASSUME NEW e \in Deletes, PublishDelete(e) \/ AbortDelete(e) PROVE Passed
  BY <1>4, <1>a, <1>t DEF PublishDelete, AbortDelete, Publish, Call, DeleteGoes, ServiceTypeOK
<1>5. ASSUME NEW b \in Avatars, CreateRow(b) \/ UploadStep(b) \/ AbortUpload(b)
      PROVE  UNCHANGED delete
  BY <1>5 DEF CreateRow, UploadStep, StoreOriginal, MarkUploadFailed, MarkUploaded,
              PublishUpload, AbortUpload
<1> QED
  BY <1>1, <1>2, <1>3, <1>4, <1>5 DEF Next, ServiceNext, DeleteStep, serviceVars

\* Events and the messages that consumers hold stay behind the rows.
LEMMA EventsNext == ASSUME IInv, Next PROVE EventsFollowRows'
<1>t. TypeOK /\ WorkerTypeOK
  BY DEF IInv, TypeOK
<1>m. Monotone
  BY StepsAreMonotone
<1>n. TypeOK'
  BY <1>t, TypeNext
<1>1. ASSUME NEW m \in UploadMsg, uploadQ'[m] > 0 PROVE StoredOrDeleted(m.avatar)'
  <2>1. m.avatar \in Avatars
    BY DEF UploadMsg
  <2>2. StoredOrDeleted(m.avatar)
    BY <1>1, <1>t, <2>1, UploadEventOrigins
       DEF IInv, EventsFollowRows, RowsFollowRequests, RowFollowsRequest
  <2> QED BY <1>m, <2>1, <2>2 DEF Monotone
<1>2. ASSUME NEW m \in DeleteMsg, deleteQ'[m] > 0 PROVE db'[m.avatar].deleted
  <2>1. m.avatar \in Avatars /\ m # NoMsg
    BY NoMsgAssumption DEF DeleteMsg
  <2>2. db[m.avatar].deleted
    BY <1>2, <1>t, <2>1, DeleteEventOrigins DEF IInv, EventsFollowRows
  <2> QED BY <1>m, <2>1, <2>2 DEF Monotone
<1>3. ASSUME NEW w \in Workers, ucon'[w].pc # "idle" PROVE StoredOrDeleted(ucon[w].msg.avatar)'
  <2>1. ucon'[w].msg.avatar \in Avatars
    BY <1>3, <1>n DEF TypeOK, WorkerTypeOK, UploadMsg
  <2>2. StoredOrDeleted(ucon'[w].msg.avatar)
    BY <1>3, <1>t, HeldMessageOrigins DEF IInv, EventsFollowRows
  <2> QED BY <1>m, <2>1, <2>2 DEF Monotone, StoredOrDeleted
<1>4. ASSUME NEW w \in Workers, dcon'[w].msg # NoMsg PROVE db'[dcon'[w].msg.avatar].deleted
  <2>1. dcon'[w].msg.avatar \in Avatars
    BY <1>4, <1>n DEF TypeOK, WorkerTypeOK, DeleteMsg
  <2>2. db[dcon'[w].msg.avatar].deleted
    BY <1>4, <1>t, HeldMessageOrigins DEF IInv, EventsFollowRows
  <2> QED BY <1>m, <2>1, <2>2 DEF Monotone
<1>5. ASSUME NEW d \in Deletes, delete'[d].pc \in {"publish", "done"}
      PROVE  db'[delete'[d].event.avatar].deleted
  BY <1>5, <1>t, <1>m, DeletePasses DEF IInv, EventsFollowRows, Monotone
<1> QED BY <1>1, <1>2, <1>3, <1>4, <1>5 DEF EventsFollowRows

\* The dead-letter queue only grows.
LEMMA DlqGrows == ASSUME Next PROVE dlq \subseteq dlq'
<1>1. ASSUME NEW a \in Avatars, CreateRow(a) \/ UploadStep(a) \/ AbortUpload(a)
      PROVE  UNCHANGED dlq
  BY <1>1 DEF CreateRow, UploadStep, StoreOriginal, MarkUploadFailed, MarkUploaded,
              PublishUpload, AbortUpload
<1>2. ASSUME NEW d \in Deletes,
             \/ \E a \in Avatars, u \in Users : ReadForDelete(d, a, u)
             \/ DeleteStep(d) \/ AbortDelete(d)
      PROVE  UNCHANGED dlq
  BY <1>2 DEF ReadForDelete, DeleteStep, SoftDelete, PublishDelete, AbortDelete
<1>3. ASSUME NEW w \in Workers, UploadConsumerStep(w) PROVE dlq \subseteq dlq'
  BY <1>3 DEF UploadConsumerStep, DeliverUpload, CheckStatus, Download, ResizeFails, StoreThumb,
              Complete, PublishRetry, PublishToDLQ, Requeue, GiveUp, MarkProcessingFailed,
              AckUpload, backendVars
<1>4. ASSUME NEW w \in Workers,
             DeleteConsumerStep(w) \/ Disconnect(w) \/ Sigterm(w) \/ Exit(w) \/ Crash(w)
      PROVE  UNCHANGED dlq
  BY <1>4 DEF DeleteConsumerStep, DeliverDelete, DeleteKey, AckDelete, Disconnect, Sigterm,
              Exit, Crash, Restart, backendVars
<1> QED BY <1>1, <1>2, <1>3, <1>4 DEF Next, ServiceNext, WorkerNext

\* A consumer's position keeps telling what is stored.
LEMMA ProgressNext == ASSUME IInv, Next PROVE ProgressIsStored'
<1> SUFFICES ASSUME NEW w \in Workers
             PROVE  LET a == ucon'[w].msg.avatar IN
                    /\ ucon'[w].pc \in {"thumb", "complete"} /\ ~db'[a].deleted =>
                         \A k \in 1..(ucon'[w].next - 1) : <<a, k>> \in objects'
                    /\ ucon'[w].pc = "complete" => ucon'[w].next = NumSizes + 1
                    /\ ucon'[w].pc = "markFailed" => a \in dlq'
    BY DEF ProgressIsStored
<1> DEFINE Progress ==
      LET a == ucon'[w].msg.avatar IN
        /\ ucon'[w].pc \in {"thumb", "complete"} /\ ~db'[a].deleted =>
             \A k \in 1..(ucon'[w].next - 1) : <<a, k>> \in objects'
        /\ ucon'[w].pc = "complete" => ucon'[w].next = NumSizes + 1
        /\ ucon'[w].pc = "markFailed" => a \in dlq'
<1>t. TypeOK /\ WorkerTypeOK
  BY DEF IInv, TypeOK
<1>m. Monotone /\ dlq \subseteq dlq'
  BY StepsAreMonotone, DlqGrows
<1>1. ASSUME ucon'[w] = ucon[w] PROVE Progress
  <2> DEFINE a == ucon[w].msg.avatar
  <2>1. CASE ucon[w].pc = "idle"
    BY <1>1, <2>1
  <2>2. CASE ucon[w].pc # "idle"
    <3>1. a \in Avatars
      BY <1>t, <2>2, HeldMessages
    <3>2. 1..(ucon[w].next - 1) \subseteq 0..NumSizes
      BY <1>t, NumSizesAssumption DEF WorkerTypeOK
    <3>3. /\ ucon[w].pc \in {"thumb", "complete"} /\ ~db[a].deleted =>
               \A k \in 1..(ucon[w].next - 1) : <<a, k>> \in objects
          /\ ucon[w].pc = "complete" => ucon[w].next = NumSizes + 1
          /\ ucon[w].pc = "markFailed" => a \in dlq
      BY DEF IInv, ProgressIsStored
    <3> QED BY <1>1, <1>m, <3>1, <3>2, <3>3 DEF Monotone
  <2> QED BY <2>1, <2>2
<1>2. ASSUME NEW pc \in ConsumerPc \ {"complete", "markFailed"}, UploadConsumerGoes(w, pc)
      PROVE  Progress
  BY <1>2, <1>t DEF UploadConsumerGoes, WorkerTypeOK
<1>3. ASSUME StoreThumb(w) PROVE Progress
  <2> DEFINE a == ucon[w].msg.avatar
             k == ucon[w].next
  <2>1. CASE UploadConsumerGoes(w, "fail")
    BY <2>1, <1>2 DEF ConsumerPc
  <2>2. CASE /\ objects' = objects \cup {<<a, k>>}
             /\ ucon' = [ucon EXCEPT ![w] = [pc |-> AfterThumb(k), msg |-> @.msg, next |-> k + 1]]
    <3>1. /\ ucon'[w].pc = AfterThumb(k)
          /\ ucon'[w].msg.avatar = a
          /\ ucon'[w].next = k + 1
      BY <2>2, <1>t DEF WorkerTypeOK
    <3>2. k \in 1..NumSizes /\ AfterThumb(k) \in {"thumb", "complete"}
      BY <1>3, <1>t DEF StoreThumb, WorkerTypeOK, Sizes, AfterThumb
    <3>3. AfterThumb(k) = "complete" => k = NumSizes
      BY <3>2, NumSizesAssumption DEF AfterThumb
    <3>4. ~db[a].deleted => \A j \in 1..(k - 1) : <<a, j>> \in objects
      BY <1>3 DEF StoreThumb, IInv, ProgressIsStored
    <3>5. UNCHANGED db
      BY <1>3 DEF StoreThumb
    <3>6. \A j \in 1..((k + 1) - 1) : j = k \/ j \in 1..(k - 1)
      BY <3>2, NumSizesAssumption
    <3>7. (k + 1) = NumSizes + 1 \/ AfterThumb(k) # "complete"
      BY <3>3
    <3> HIDE DEF k
    <3> QED BY <2>2, <3>1, <3>2, <3>4, <3>5, <3>6, <3>7
  <2> QED BY <1>3, <2>1, <2>2 DEF StoreThumb, WorkerCall
<1>4. ASSUME PublishToDLQ(w) PROVE Progress
  BY <1>4, <1>t DEF PublishToDLQ, UploadConsumerGoes, WorkerTypeOK
<1>5. ASSUME ucon'[w].pc \in {"idle", "status"} PROVE Progress
  BY <1>5
<1>6. ASSUME NEW v \in Workers, UploadConsumerStep(v), v # w PROVE ucon'[w] = ucon[w]
  BY <1>6, <1>t
     DEF UploadConsumerStep, DeliverUpload, CheckStatus, Download, ResizeFails, StoreThumb,
         Complete, PublishRetry, PublishToDLQ, Requeue, GiveUp, MarkProcessingFailed, AckUpload,
         WorkerRead, WorkerCall, UploadConsumerGoes, WorkerTypeOK
<1>7. ASSUME UploadConsumerStep(w), ~StoreThumb(w), ~PublishToDLQ(w) PROVE Progress
  <2>1. CASE \E m \in UploadMsg : DeliverUpload(w, m)
    BY <2>1, <1>t, <1>5 DEF DeliverUpload, WorkerTypeOK
  <2>2. CASE Requeue(w) \/ GiveUp(w) \/ AckUpload(w)
    BY <2>2, <1>t, <1>5 DEF Requeue, GiveUp, AckUpload, IdleUpload, WorkerTypeOK
  <2>3. CASE \/ CheckStatus(w) \/ Download(w) \/ ResizeFails(w) \/ Complete(w)
             \/ PublishRetry(w) \/ MarkProcessingFailed(w)
    BY <2>3, <1>2
       DEF CheckStatus, Download, ResizeFails, Complete, PublishRetry, MarkProcessingFailed,
           WorkerRead, WorkerCall, ConsumerPc
  <2> QED BY <1>7, <2>1, <2>2, <2>3 DEF UploadConsumerStep
<1>8. ASSUME NEW v \in Workers, DeleteConsumerStep(v) \/ Disconnect(v) \/ Sigterm(v)
      PROVE  ucon'[w] = ucon[w]
  BY <1>8 DEF DeleteConsumerStep, DeliverDelete, DeleteKey, AckDelete, Disconnect, Sigterm
<1>9. ASSUME NEW v \in Workers, Exit(v) \/ Crash(v)
      PROVE  ucon'[w] = ucon[w] \/ ucon'[w].pc = "idle"
  BY <1>9, <1>t DEF Exit, Crash, Restart, IdleUpload, WorkerTypeOK
<1> QED
  BY <1>1, <1>3, <1>4, <1>5, <1>6, <1>7, <1>8, <1>9 DEF Next, WorkerNext, workerVars

\* The invariant holds at first.
LEMMA IInvInit == Init => IInv
<1> SUFFICES ASSUME Init PROVE IInv
    OBVIOUS
<1>1. TypeOK
  BY TypeInit
<1>2. RowsFollowRequests /\ ProcessedOnlyIfUploaded /\ ThumbsAllOrNone /\ LiveObjectsBacked
  BY DEF Init, BackendsInit, ServiceInit, RowsFollowRequests, RowFollowsRequest,
         ProcessedOnlyIfUploaded, ThumbsAllOrNone, LiveObjectsBacked, Live, NoRow
<1>3. EventsFollowRows /\ ProgressIsStored /\ DeletedOnce
  BY DEF Init, BackendsInit, ServiceInit, WorkerInit, EventsFollowRows, ProgressIsStored,
         DeletedOnce, IdleUpload, IdleDelete
<1> QED BY <1>1, <1>2, <1>3 DEF IInv

\* Every step keeps the invariant.
LEMMA IInvNext == IInv /\ [Next]_vars => IInv'
<1>1. ASSUME IInv, Next PROVE IInv'
  <2>1. TypeOK'
    BY <1>1, TypeNext DEF IInv
  <2>2. RowsFollowRequests' /\ ProcessedOnlyIfUploaded' /\ ThumbsAllOrNone' /\ LiveObjectsBacked'
    BY <1>1, RowsNext
       DEF RowInv, RowsFollowRequests, ProcessedOnlyIfUploaded, ThumbsAllOrNone, LiveObjectsBacked
  <2>3. EventsFollowRows' /\ ProgressIsStored'
    BY <1>1, EventsNext, ProgressNext
  <2>4. DeletedOnce'
    <3> SUFFICES ASSUME NEW d \in Deletes, NEW e \in Deletes,
                        delete'[d].pc \in {"publish", "done"},
                        delete'[e].pc \in {"publish", "done"},
                        delete'[d].event.avatar = delete'[e].event.avatar,
                        d # e
                 PROVE  FALSE
        BY DEF DeletedOnce
    <3> QED BY <1>1, DeletePasses DEF IInv, DeletedOnce, EventsFollowRows, Live
  <2> QED BY <2>1, <2>2, <2>3, <2>4 DEF IInv
<1>2. ASSUME IInv, UNCHANGED vars PROVE IInv'
  BY <1>2, TypeNext
     DEF IInv, vars, RowsFollowRequests, RowFollowsRequest, StoredOrDeleted, EventsFollowRows,
         ProgressIsStored, ProcessedOnlyIfUploaded, ThumbsAllOrNone, LiveObjectsBacked,
         DeletedOnce
<1> QED BY <1>1, <1>2

\* The invariant holds throughout.
LEMMA Invariance == Spec => []IInv
BY IInvInit, IInvNext, PTL DEF Spec

---------------------------------------------------------------------------
(* The safety properties *)

\* For every instance: a live row never promises a blob that the bucket does
\* not have (AvatarService.GetImage can always download what it resolves).
THEOREM LiveRowsAreBacked == Spec => []LiveObjectsBacked
BY Invariance, PTL DEF IInv

\* For every instance: a worker's result is only ever on a row whose original
\* was stored and marked uploaded.
THEOREM ResultsFollowUploads == Spec => []ProcessedOnlyIfUploaded
BY Invariance, PTL DEF IInv

\* For every instance: a row lists every thumbnail or none, according to its
\* processing status (GetImage never serves a partial set).
THEOREM ThumbnailsComeTogether == Spec => []ThumbsAllOrNone
BY Invariance, PTL DEF IInv

\* For every instance: of any number of racing DELETE requests at most one
\* gets past SoftDelete for an avatar.
THEOREM OneDeleteWins == Spec => []DeletedOnce
BY Invariance, PTL DEF IInv

\* For every instance: no step of any actor changes a soft-deleted row.
THEOREM DeletedRowsStay == Spec => DeletedRowFrozen
<1>1. IInv /\ [Next]_vars => [\A a \in Avatars : db[a].deleted => db'[a] = db[a]]_vars
  BY StepsAreMonotone DEF Monotone
<1> QED BY <1>1, Invariance, PTL DEF Spec, DeletedRowFrozen

---------------------------------------------------------------------------
(* An accepted upload is not forgotten *)

\* Nothing is left to do for avatar a.
Resolved(a) == ~Live(db[a]) \/ db[a].processing = "completed" \/ a \in dlq

\* A stored avatar that is resolved stays so: only MarkProcessingFailed takes
\* "completed" away, and by then the event is in the dead-letter queue.
LEMMA ResolvedStays ==
  ASSUME IInv, Next, NEW b \in Avatars, StoredOrDeleted(b), Resolved(b)
  PROVE  Resolved(b)'
<1>t. TypeOK /\ BackendsTypeOK /\ ServiceTypeOK /\ WorkerTypeOK
  BY DEF IInv, TypeOK
<1>m. Monotone /\ dlq \subseteq dlq'
  BY StepsAreMonotone, DlqGrows
<1>r. db[b] \in Rows
  BY <1>t DEF BackendsTypeOK
<1>1. CASE db[b].deleted
  BY <1>1, <1>m DEF Monotone, Resolved, Live
<1>2. CASE b \in dlq
  BY <1>2, <1>m DEF Resolved
<1>3. CASE ~db[b].deleted /\ db[b].processing = "completed" /\ b \notin dlq
  <2>l. db[b].upload = "uploaded" /\ Live(db[b])
    BY <1>3 DEF StoredOrDeleted, Live
  <2>f. RowFollowsRequest(b)
    BY DEF IInv, RowsFollowRequests
  <2>0. upload[b] \notin {"none", "markFailed"}
    <3>1. NoRow.upload = "absent"
      BY DEF NoRow
    <3> QED BY <1>3, <2>l, <2>f, <3>1 DEF RowFollowsRequest
  <2>1. ASSUME db'[b] = db[b] PROVE Resolved(b)'
    BY <1>3, <2>1 DEF Resolved
  <2>2. ASSUME NEW a \in Avatars,
               CreateRow(a) \/ StoreOriginal(a) \/ MarkUploadFailed(a)
        PROVE  db'[b] = db[b]
    BY <2>0, <2>2, <1>t DEF CreateRow, StoreOriginal, MarkUploadFailed, Call, BackendsTypeOK
  <2>3. ASSUME NEW a \in Avatars, MarkUploaded(a) PROVE Resolved(b)'
    <3>1. db'[b] \in {db[b], SetAvatarUploaded(db[b])}
      BY <2>3, <1>t DEF MarkUploaded, Call, BackendsTypeOK
    <3> QED BY <3>1, <1>3, <1>r, RowFacts DEF Resolved, ProcessingStatus
  <2>4. ASSUME NEW d \in Deletes, SoftDelete(d) PROVE Resolved(b)'
    <3>1. db'[b] \in {db[b], SoftDeleteAvatar(db[b])}
      BY <2>4, <1>t DEF SoftDelete, Call, BackendsTypeOK
    <3> QED BY <3>1, <1>3, <1>r, RowFacts DEF Resolved, ProcessingStatus
  <2>5. ASSUME NEW w \in Workers, Complete(w) PROVE Resolved(b)'
    <3>1. db'[b] \in {db[b], UpdateProcessingStatus(db[b], "completed", 1..(ucon[w].next - 1))}
      BY <2>5, <1>t DEF Complete, WorkerCall, BackendsTypeOK
    <3>2. 1..(ucon[w].next - 1) \in SUBSET Sizes
      BY <1>t, NumSizesAssumption DEF WorkerTypeOK, Sizes
    <3>3. "completed" \in ProcessingStatus
      BY DEF ProcessingStatus
    <3>4. UpdateProcessingStatus(db[b], "completed", 1..(ucon[w].next - 1)).processing = "completed"
      BY <3>2, <3>3, <2>l, <1>r DEF UpdateProcessingStatus, Rows, RowsOver
    <3> QED BY <3>1, <3>4, <1>3 DEF Resolved
  <2>6. ASSUME NEW w \in Workers, MarkProcessingFailed(w) PROVE db'[b] = db[b]
    <3>1. ucon[w].msg.avatar \in dlq
      BY <2>6 DEF MarkProcessingFailed, IInv, ProgressIsStored
    <3> QED BY <2>6, <3>1, <1>3, <1>t DEF MarkProcessingFailed, WorkerCall, BackendsTypeOK
  <2>7. ASSUME NEW w \in Workers, StoreThumb(w) \/ DeleteKey(w) PROVE db'[b] = db[b]
    BY <2>7 DEF StoreThumb, DeleteKey
  <2> QED BY <2>1, <2>2, <2>3, <2>4, <2>5, <2>6, <2>7, DataSteps DEF DataStep
<1> QED BY <1>1, <1>2, <1>3, <1>r DEF Resolved, Live, StoredOrDeleted

\* A pending upload event stays pending or becomes resolved: whatever a
\* consumer takes it puts back, passes on, or is done with.
LEMMA PendingStays ==
  ASSUME IInv, Next, NEW b \in Avatars, UploadPending(b), ~Resolved(b)
  PROVE  UploadPending(b)' \/ Resolved(b)'
<1>t. TypeOK /\ BackendsTypeOK /\ ServiceTypeOK /\ WorkerTypeOK
  BY DEF IInv, TypeOK
<1>l. Live(db[b]) /\ db[b].processing # "completed"
  BY DEF Resolved
<1> DEFINE Holds(w) == w \in linked /\ ucon[w].pc \notin {"idle", "ack"} /\ ucon[w].msg.avatar = b
           Queued(m) == m \in UploadMsg /\ m.avatar = b /\ uploadQ[m] > 0
<1>p. \/ \E m : Queued(m)
      \/ \E w \in Workers : Holds(w)
  BY <1>t DEF UploadPending, WorkerTypeOK
<1>q. ASSUME NEW m, Queued(m)' PROVE UploadPending(b)'
  BY <1>q DEF UploadPending
<1>h. ASSUME NEW w \in Workers, Holds(w)' PROVE UploadPending(b)'
  BY <1>h DEF UploadPending
<1>a. ASSUME NEW n \in UploadMsg, uploadQ' = Put(uploadQ, n) PROVE
        /\ \A m : Queued(m) => Queued(m)'
        /\ n.avatar = b => Queued(n)'
  BY <1>a, <1>t DEF Put, BackendsTypeOK
<1>1. ASSUME UNCHANGED <<uploadQ, ucon, linked>> PROVE UploadPending(b)'
  BY <1>1 DEF UploadPending
<1>2. ASSUME NEW a \in Avatars, PublishUpload(a), UNCHANGED workerVars PROVE UploadPending(b)'
  <2>1. [avatar |-> a, retry |-> 0] \in UploadMsg
    BY MaxRetryAssumption DEF UploadMsg
  <2>2. uploadQ' = uploadQ \/ uploadQ' = Put(uploadQ, [avatar |-> a, retry |-> 0])
    BY <1>2 DEF PublishUpload, Publish, Call
  <2> QED BY <1>2, <2>1, <2>2, <1>p, <1>q, <1>h, <1>a DEF workerVars
<1>3. ASSUME NEW w \in Workers, NEW n \in UploadMsg, DeliverUpload(w, n) PROVE UploadPending(b)'
  <2>1. CASE n.avatar = b
    <3>1. Holds(w)'
      BY <1>3, <1>t, <2>1 DEF DeliverUpload, WorkerTypeOK
    <3> QED BY <3>1, <1>h
  <2>2. CASE n.avatar # b
    <3>1. \A m : Queued(m) => Queued(m)'
      BY <1>3, <1>t, <2>2 DEF DeliverUpload, Take, BackendsTypeOK
    <3>2. \A v \in Workers : Holds(v) => Holds(v)'
      BY <1>3, <1>t DEF DeliverUpload, WorkerTypeOK
    <3> QED BY <3>1, <3>2, <1>p, <1>q, <1>h
  <2> QED BY <2>1, <2>2
<1>4. ASSUME NEW w \in Workers, NEW pc \in ConsumerPc \ {"idle"}, ucon[w].pc # "idle",
             NEW next, ucon' = [ucon EXCEPT ![w] = [pc |-> pc, msg |-> @.msg, next |-> next]],
             UNCHANGED <<uploadQ, linked>>,
             pc = "ack" /\ ucon[w].pc # "ack" /\ ucon[w].msg.avatar = b => Resolved(b)'
      PROVE  UploadPending(b)' \/ Resolved(b)'
  <2>1. \A m : Queued(m) => Queued(m)'
    BY <1>4
  <2>2. \A v \in Workers : Holds(v) => Holds(v)' \/ Resolved(b)'
    BY <1>4, <1>t DEF WorkerTypeOK
  <2> QED BY <2>1, <2>2, <1>p, <1>q, <1>h
<1>5. ASSUME NEW w \in Workers, CheckStatus(w) PROVE UploadPending(b)' \/ Resolved(b)'
  <2>1. PICK pc \in ConsumerPc \ {"idle"} :
          /\ UploadConsumerGoes(w, pc)
          /\ pc = "ack" => db[ucon[w].msg.avatar].processing = "completed"
    BY <1>5 DEF CheckStatus, WorkerRead, ConsumerPc
  <2> QED BY <1>4, <1>5, <1>l, <2>1 DEF CheckStatus, UploadConsumerGoes
<1>6. ASSUME NEW w \in Workers, Download(w) \/ ResizeFails(w) \/ StoreThumb(w)
      PROVE  UploadPending(b)' \/ Resolved(b)'
  <2>1. PICK pc \in ConsumerPc \ {"idle", "ack"} : \E next :
          ucon' = [ucon EXCEPT ![w] = [pc |-> pc, msg |-> @.msg, next |-> next]]
    BY <1>6 DEF Download, ResizeFails, StoreThumb, WorkerRead, WorkerCall, UploadConsumerGoes,
                AfterThumb, ConsumerPc
  <2>2. PICK next : ucon' = [ucon EXCEPT ![w] = [pc |-> pc, msg |-> @.msg, next |-> next]]
    BY <2>1
  <2> QED BY <1>4, <1>6, <2>2 DEF Download, ResizeFails, StoreThumb
<1>7. ASSUME NEW w \in Workers, Complete(w) PROVE UploadPending(b)' \/ Resolved(b)'
  <2> DEFINE a == ucon[w].msg.avatar
             thumbs == 1..(ucon[w].next - 1)
  <2>1. CASE UploadConsumerGoes(w, "fail")
    BY <1>4, <1>7, <2>1 DEF Complete, UploadConsumerGoes, ConsumerPc
  <2>2. CASE /\ UploadConsumerGoes(w, "ack")
             /\ db' = [db EXCEPT ![a] = UpdateProcessingStatus(@, "completed", thumbs)]
    <3>1. db[b] \in Rows /\ thumbs \in SUBSET Sizes /\ "completed" \in ProcessingStatus
      BY <1>t, NumSizesAssumption DEF BackendsTypeOK, WorkerTypeOK, Sizes, ProcessingStatus
    <3>2. a = b => db'[b] = UpdateProcessingStatus(db[b], "completed", thumbs)
      BY <2>2, <1>t DEF BackendsTypeOK
    <3>4. UpdateProcessingStatus(db[b], "completed", thumbs).processing = "completed"
      BY <3>1, <1>l DEF UpdateProcessingStatus, Rows, RowsOver
    <3>3. a = b => Resolved(b)'
      BY <3>2, <3>4 DEF Resolved
    <3> QED BY <1>4, <1>7, <2>2, <3>3 DEF Complete, UploadConsumerGoes, ConsumerPc
  <2> QED BY <1>7, <2>1, <2>2 DEF Complete, WorkerCall
<1>8. ASSUME NEW w \in Workers, PublishRetry(w) PROVE UploadPending(b)'
  <2> DEFINE n == [ucon[w].msg EXCEPT !.retry = @ + 1]
  <2>1. n \in UploadMsg /\ n.avatar = ucon[w].msg.avatar
    BY <1>8, <1>t, HeldMessages, MaxRetryAssumption DEF PublishRetry, UploadMsg
  <2>2. uploadQ' = Put(uploadQ, n)
    BY <1>8 DEF PublishRetry
  <2>3. \A v \in Workers : Holds(v) => Holds(v)' \/ n.avatar = b
    BY <1>8, <1>t, <2>1 DEF PublishRetry, UploadConsumerGoes, WorkerTypeOK
  <2> HIDE DEF n
  <2> QED BY <2>1, <2>2, <2>3, <1>p, <1>q, <1>h, <1>a
<1>9. ASSUME NEW w \in Workers, PublishToDLQ(w) PROVE UploadPending(b)' \/ Resolved(b)'
  BY <1>4, <1>9 DEF PublishToDLQ, UploadConsumerGoes, ConsumerPc
<1>10. ASSUME NEW w \in Workers, Requeue(w) PROVE UploadPending(b)'
  <2>1. ucon[w].msg \in UploadMsg /\ uploadQ' = Put(uploadQ, ucon[w].msg)
    BY <1>10, <1>t, HeldMessages DEF Requeue
  <2>2. \A v \in Workers : Holds(v) => Holds(v)' \/ v = w
    BY <1>10, <1>t DEF Requeue, WorkerTypeOK
  <2> QED BY <2>1, <2>2, <1>p, <1>q, <1>h, <1>a
<1>11. ASSUME NEW w \in Workers, GiveUp(w) \/ AckUpload(w) PROVE UploadPending(b)'
  <2>1. \A v \in Workers : Holds(v) => Holds(v)'
    BY <1>11, <1>t DEF GiveUp, AckUpload, WorkerTypeOK
  <2>2. UNCHANGED uploadQ
    BY <1>11 DEF GiveUp, AckUpload, backendVars
  <2> QED BY <2>1, <2>2, <1>p, <1>q, <1>h
<1>12. ASSUME NEW w \in Workers, MarkProcessingFailed(w) PROVE UploadPending(b)' \/ Resolved(b)'
  <2>1. ucon[w].msg.avatar \in dlq /\ UNCHANGED dlq
    BY <1>12 DEF MarkProcessingFailed, IInv, ProgressIsStored
  <2>2. UploadConsumerGoes(w, "ack")
    BY <1>12 DEF MarkProcessingFailed, WorkerCall
  <2> QED BY <1>4, <1>12, <2>1, <2>2
          DEF MarkProcessingFailed, UploadConsumerGoes, ConsumerPc, Resolved
<1>13. ASSUME NEW w \in Workers, Disconnect(w) \/ Exit(w) \/ Crash(w) PROVE UploadPending(b)'
  <2>1. \A v \in Workers : v # w => ucon'[v] = ucon[v] /\ (v \in linked <=> v \in linked')
    BY <1>13, <1>t DEF Disconnect, Exit, Crash, Restart, WorkerTypeOK
  <2>2. \/ uploadQ' = uploadQ /\ ~Holds(w)
        \/ ucon[w].msg \in UploadMsg /\ uploadQ' = Put(uploadQ, ucon[w].msg)
    BY <1>13, <1>t, HeldMessages DEF Disconnect, Exit, Crash, Restart, ReturnUnacked
  <2> QED BY <2>1, <2>2, <1>p, <1>q, <1>h, <1>a
<1>14. ASSUME NEW w \in Workers, DeleteConsumerStep(w) \/ Sigterm(w) PROVE UploadPending(b)'
  BY <1>1, <1>14 DEF DeleteConsumerStep, DeliverDelete, DeleteKey, AckDelete, Sigterm, backendVars
<1>15. ASSUME NEW a \in Avatars,
              \/ CreateRow(a) \/ StoreOriginal(a) \/ MarkUploadFailed(a) \/ MarkUploaded(a)
              \/ AbortUpload(a),
              UNCHANGED workerVars
       PROVE  UploadPending(b)'
  BY <1>1, <1>15
     DEF CreateRow, StoreOriginal, MarkUploadFailed, MarkUploaded, AbortUpload, workerVars
<1>16. ASSUME NEW d \in Deletes,
              \/ \E a \in Avatars, u \in Users : ReadForDelete(d, a, u)
              \/ DeleteStep(d) \/ AbortDelete(d),
              UNCHANGED workerVars
       PROVE  UploadPending(b)'
  BY <1>1, <1>16
     DEF ReadForDelete, DeleteStep, SoftDelete, PublishDelete, AbortDelete, workerVars
<1> QED
  BY <1>2, <1>3, <1>5, <1>6, <1>7, <1>8, <1>9, <1>10, <1>11, <1>12, <1>13, <1>14, <1>15, <1>16
     DEF Next, ServiceNext, WorkerNext, UploadStep, UploadConsumerStep

\* Only the publish of its event answers an upload with 201.
LEMMA AcceptedByPublish ==
  ASSUME TypeOK, Next, NEW b \in Avatars, upload[b] # "created", upload'[b] = "created"
  PROVE  PublishUpload(b)
<1>t. upload \in [Avatars -> UploadPc]
  BY DEF TypeOK, ServiceTypeOK
<1>1. ASSUME NEW a \in Avatars,
             \/ CreateRow(a) \/ StoreOriginal(a) \/ MarkUploadFailed(a) \/ MarkUploaded(a)
             \/ AbortUpload(a)
      PROVE  FALSE
  BY <1>1, <1>t
     DEF CreateRow, StoreOriginal, MarkUploadFailed, MarkUploaded, AbortUpload, Call, UploadGoes
<1>2. ASSUME NEW a \in Avatars, PublishUpload(a) PROVE a = b
  BY <1>2, <1>t DEF PublishUpload, Publish, Call, UploadGoes
<1>3. ASSUME NEW d \in Deletes,
             \/ \E a \in Avatars, u \in Users : ReadForDelete(d, a, u)
             \/ DeleteStep(d) \/ AbortDelete(d)
      PROVE  FALSE
  BY <1>3 DEF ReadForDelete, DeleteStep, SoftDelete, PublishDelete, AbortDelete
<1>4. ~UNCHANGED serviceVars
  BY DEF serviceVars
<1> QED BY <1>1, <1>2, <1>3, <1>4 DEF Next, ServiceNext, UploadStep

\* For every instance in which no publish is lost: an upload answered with 201
\* has a copy of its event on the way until its thumbnails are recorded, it is
\* deleted or its message is dead-lettered, whatever crashes, retries,
\* redeliveries and lost connections come between.
THEOREM AcceptedIsKept ==
  ASSUME "lost" \notin FaultKinds
  PROVE  Spec => []AcceptedNotForgotten
<1>1. Init => AcceptedNotForgotten
  BY DEF Init, ServiceInit, AcceptedNotForgotten
<1>2. ASSUME IInv, AcceptedNotForgotten, Next PROVE AcceptedNotForgotten'
  <2> SUFFICES ASSUME NEW b \in Avatars, upload'[b] = "created"
               PROVE  UploadPending(b)' \/ Resolved(b)'
      BY DEF AcceptedNotForgotten, Resolved
  <2>1. CASE upload[b] = "created"
    <3>1. StoredOrDeleted(b)
      BY <1>2, <2>1 DEF IInv, RowsFollowRequests, RowFollowsRequest
    <3>2. UploadPending(b) \/ Resolved(b)
      BY <1>2, <2>1 DEF AcceptedNotForgotten, Resolved
    <3> QED BY <1>2, <3>1, <3>2, ResolvedStays, PendingStays
  <2>2. CASE upload[b] # "created"
    <3> DEFINE m == [avatar |-> b, retry |-> 0]
    <3>1. TypeOK /\ uploadQ \in [UploadMsg -> Nat] /\ upload \in [Avatars -> UploadPc]
      BY <1>2 DEF IInv, TypeOK, BackendsTypeOK, ServiceTypeOK
    <3>2. PublishUpload(b)
      BY <1>2, <2>2, <3>1, AcceptedByPublish
    <3>3. uploadQ' = Put(uploadQ, m)
      BY <3>1, <3>2 DEF PublishUpload, Publish, Call, Fault, UploadGoes
    <3>4. m \in UploadMsg /\ m.avatar = b
      BY MaxRetryAssumption DEF UploadMsg
    <3>5. uploadQ'[m] > 0
      BY <3>1, <3>3, <3>4 DEF Put
    <3> QED BY <3>4, <3>5 DEF UploadPending
  <2> QED BY <2>1, <2>2
<1>3. ASSUME AcceptedNotForgotten, UNCHANGED vars PROVE AcceptedNotForgotten'
  BY <1>3 DEF vars, AcceptedNotForgotten, UploadPending
<1> QED BY <1>1, <1>2, <1>3, Invariance, PTL DEF Spec

---------------------------------------------------------------------------
(* A single fault never takes a completion back *)

\* A step is at most one fault.
LEMMA FaultsCount ==
  ASSUME TypeOK, Next
  PROVE  faults \in Nat /\ (faults' = faults \/ faults' = faults + 1)
<1>t. faults \in Nat
  BY DEF TypeOK, BackendsTypeOK
<1>1. ASSUME NEW a \in Avatars, CreateRow(a) \/ UploadStep(a) \/ AbortUpload(a)
      PROVE  faults' = faults \/ faults' = faults + 1
  BY <1>1 DEF CreateRow, UploadStep, StoreOriginal, MarkUploadFailed, MarkUploaded, PublishUpload,
              AbortUpload, Publish, Call, Fault
<1>2. ASSUME NEW d \in Deletes,
             \/ \E a \in Avatars, u \in Users : ReadForDelete(d, a, u)
             \/ DeleteStep(d) \/ AbortDelete(d)
      PROVE  faults' = faults \/ faults' = faults + 1
  BY <1>2 DEF ReadForDelete, DeleteStep, SoftDelete, PublishDelete, AbortDelete, Publish, Call,
              Read, Fault
<1>3. ASSUME NEW w \in Workers, UploadConsumerStep(w)
      PROVE  faults' = faults \/ faults' = faults + 1
  BY <1>3 DEF UploadConsumerStep, DeliverUpload, CheckStatus, Download, ResizeFails, StoreThumb,
              Complete, PublishRetry, PublishToDLQ, Requeue, GiveUp, MarkProcessingFailed,
              AckUpload, WorkerRead, WorkerCall, Fault, backendVars
<1>4. ASSUME NEW w \in Workers,
             DeleteConsumerStep(w) \/ Disconnect(w) \/ Sigterm(w) \/ Exit(w) \/ Crash(w)
      PROVE  faults' = faults \/ faults' = faults + 1
  BY <1>4 DEF DeleteConsumerStep, DeliverDelete, DeleteKey, AckDelete, Disconnect, Sigterm, Exit,
              Crash, WorkerCall, Fault, backendVars
<1> QED BY <1>t, <1>1, <1>2, <1>3, <1>4 DEF Next, ServiceNext, WorkerNext

\* Only a fault stops a process, and only a process that ends is no longer
\* stopping: its consumers have let go of what they held.
LEMMA StoppingSteps ==
  ASSUME TypeOK, Next
  PROVE  /\ faults' = faults => stopping' \subseteq stopping
         /\ \A w \in Workers : w \in stopping /\ w \notin stopping' => ucon'[w].pc = "idle"
<1>t. WorkerTypeOK /\ faults \in Nat
  BY FaultsCount DEF TypeOK
<1> DEFINE Steps == /\ faults' = faults => stopping' \subseteq stopping
                    /\ \A w \in Workers : w \in stopping /\ w \notin stopping' => ucon'[w].pc = "idle"
<1>1. ASSUME UNCHANGED stopping PROVE Steps
  BY <1>1
<1>2. ASSUME NEW w \in Workers, UploadConsumerStep(w) \/ DeleteConsumerStep(w) \/ Disconnect(w)
      PROVE  UNCHANGED stopping
  BY <1>2 DEF UploadConsumerStep, DeliverUpload, CheckStatus, Download, ResizeFails, StoreThumb,
              Complete, PublishRetry, PublishToDLQ, Requeue, GiveUp, MarkProcessingFailed,
              AckUpload, DeleteConsumerStep, DeliverDelete, DeleteKey, AckDelete, Disconnect
<1>3. ASSUME NEW w \in Workers, Sigterm(w) PROVE Steps
  BY <1>3, <1>t DEF Sigterm, Fault
<1>4. ASSUME NEW w \in Workers, Exit(w) \/ Crash(w) PROVE Steps
  BY <1>4, <1>t DEF Exit, Crash, Restart, IdleUpload, WorkerTypeOK
<1> QED BY <1>1, <1>2, <1>3, <1>4 DEF Next, WorkerNext, workerVars

\* How a consumer comes to a failure: its handler returns an error only after
\* a fault, in a stopping process, or over an avatar that cannot be processed;
\* and it gives up on the event only once the retries are used up.
LEMMA ConsumerTrips ==
  ASSUME IInv, Next, NEW w \in Workers
  PROVE  /\ ucon'[w].pc = "fail" =>
              /\ ucon[w].pc # "idle" /\ ucon'[w].msg = ucon[w].msg
              /\ \/ ucon[w].pc = "fail"
                 \/ faults' = faults + 1
                 \/ w \in stopping'
                 \/ ~Processable(ucon[w].msg.avatar)
         /\ ucon'[w].pc = "markFailed" =>
              /\ ucon[w].pc # "idle" /\ ucon'[w].msg = ucon[w].msg
              /\ \/ ucon[w].pc = "markFailed"
                 \/ ucon[w].pc = "fail" /\ ~(ucon[w].msg.retry < MaxRetry)
<1> DEFINE Fails == ucon'[w].pc = "fail" =>
                      /\ ucon[w].pc # "idle" /\ ucon'[w].msg = ucon[w].msg
                      /\ \/ ucon[w].pc = "fail"
                         \/ faults' = faults + 1
                         \/ w \in stopping'
                         \/ ~Processable(ucon[w].msg.avatar)
           GivesUp == ucon'[w].pc = "markFailed" =>
                        /\ ucon[w].pc # "idle" /\ ucon'[w].msg = ucon[w].msg
                        /\ \/ ucon[w].pc = "markFailed"
                           \/ ucon[w].pc = "fail" /\ ~(ucon[w].msg.retry < MaxRetry)
           Trips == Fails /\ GivesUp
<1>t. TypeOK /\ BackendsTypeOK /\ WorkerTypeOK
  BY DEF IInv, TypeOK
<1>u. ucon[w].pc # "idle" => ucon[w].msg.avatar \in Avatars /\ ucon[w].msg.retry \in 0..MaxRetry
  BY <1>t, HeldMessages
<1>1. ASSUME ucon'[w] = ucon[w] PROVE Trips
  BY <1>1
<1>2. ASSUME ucon'[w].pc \notin {"fail", "markFailed"} PROVE Trips
  BY <1>2
<1>3. ASSUME NEW pc \in ConsumerPc, UploadConsumerGoes(w, pc) PROVE
        ucon'[w].pc = pc /\ ucon'[w].msg = ucon[w].msg
  BY <1>3, <1>t DEF UploadConsumerGoes, WorkerTypeOK
<1>l. ASSUME ucon[w].pc # "idle", Processable(ucon[w].msg.avatar)
      PROVE  /\ Live(db[ucon[w].msg.avatar])
             /\ <<ucon[w].msg.avatar, 0>> \in objects
  BY <1>l, <1>u DEF IInv, EventsFollowRows, StoredOrDeleted, LiveObjectsBacked, Processable, Live
<1>4. ASSUME CheckStatus(w) PROVE Trips
  BY <1>3, <1>4, <1>l DEF CheckStatus, WorkerRead, Fault, ConsumerPc
<1>5. ASSUME Download(w) PROVE Trips
  BY <1>3, <1>5, <1>l DEF Download, WorkerRead, Fault, ConsumerPc
<1>6. ASSUME ResizeFails(w) PROVE Trips
  BY <1>3, <1>6 DEF ResizeFails, Processable, ConsumerPc
<1>7. ASSUME StoreThumb(w) PROVE Trips
  <2>1. CASE UploadConsumerGoes(w, "fail") /\ (w \in stopping \/ faults' = faults + 1)
    BY <1>3, <1>7, <2>1 DEF StoreThumb, ConsumerPc
  <2>2. CASE ucon' = [ucon EXCEPT ![w] = [pc   |-> AfterThumb(ucon[w].next),
                                            msg  |-> @.msg,
                                            next |-> ucon[w].next + 1]]
    BY <2>2, <1>2, <1>t DEF AfterThumb, WorkerTypeOK
  <2> QED BY <1>7, <2>1, <2>2 DEF StoreThumb, WorkerCall, Fault
<1>8. ASSUME Complete(w) PROVE Trips
  BY <1>3, <1>8 DEF Complete, WorkerCall, Fault, ConsumerPc
<1>9. ASSUME PublishRetry(w) \/ MarkProcessingFailed(w) PROVE Trips
  <2>1. UploadConsumerGoes(w, "ack")
    BY <1>9 DEF PublishRetry, MarkProcessingFailed, WorkerCall
  <2> QED BY <1>2, <1>3, <2>1 DEF ConsumerPc
<1>10. ASSUME PublishToDLQ(w) PROVE Trips
  BY <1>3, <1>10, <1>u, MaxRetryAssumption DEF PublishToDLQ, ConsumerPc
<1>11. ASSUME Requeue(w) \/ GiveUp(w) \/ AckUpload(w) \/ \E m \in UploadMsg : DeliverUpload(w, m)
       PROVE  Trips
  BY <1>2, <1>11, <1>t DEF Requeue, GiveUp, AckUpload, DeliverUpload, IdleUpload, WorkerTypeOK
<1>12. ASSUME NEW v \in Workers, UploadConsumerStep(v), v # w PROVE ucon'[w] = ucon[w]
  BY <1>12, <1>t
     DEF UploadConsumerStep, DeliverUpload, CheckStatus, Download, ResizeFails, StoreThumb,
         Complete, PublishRetry, PublishToDLQ, Requeue, GiveUp, MarkProcessingFailed, AckUpload,
         WorkerRead, WorkerCall, UploadConsumerGoes, WorkerTypeOK
<1>13. ASSUME NEW v \in Workers, DeleteConsumerStep(v) \/ Disconnect(v) \/ Sigterm(v)
       PROVE  ucon'[w] = ucon[w]
  BY <1>13 DEF DeleteConsumerStep, DeliverDelete, DeleteKey, AckDelete, Disconnect, Sigterm
<1>14. ASSUME NEW v \in Workers, Exit(v) \/ Crash(v)
       PROVE  ucon'[w] = ucon[w] \/ ucon'[w].pc = "idle"
  BY <1>14, <1>t DEF Exit, Crash, Restart, IdleUpload, WorkerTypeOK
<1> QED
  BY <1>1, <1>2, <1>4, <1>5, <1>6, <1>7, <1>8, <1>9, <1>10, <1>11, <1>12, <1>13, <1>14
     DEF Next, WorkerNext, UploadConsumerStep, workerVars

\* Only a failure makes an event with a retry count.
LEMMA RetriesComeFromFailures ==
  ASSUME TypeOK, Next, NEW m \in UploadMsg, uploadQ'[m] > 0, m.retry # 0
  PROVE  \/ uploadQ[m] > 0
         \/ \E w \in Workers :
              /\ ucon[w].pc # "idle"
              /\ ucon[w].msg.avatar = m.avatar
              /\ ucon[w].msg = m \/ ucon[w].pc = "fail"
<1> DEFINE Origin ==
             \/ uploadQ[m] > 0
             \/ \E w \in Workers :
                  /\ ucon[w].pc # "idle"
                  /\ ucon[w].msg.avatar = m.avatar
                  /\ ucon[w].msg = m \/ ucon[w].pc = "fail"
<1>t. uploadQ \in [UploadMsg -> Nat] /\ WorkerTypeOK
  BY DEF TypeOK, BackendsTypeOK
<1>1. ASSUME UNCHANGED uploadQ PROVE Origin
  BY <1>1
<1>2. ASSUME NEW n \in UploadMsg, uploadQ' = Put(uploadQ, n), n # m PROVE Origin
  BY <1>2, <1>t DEF Put
<1>3. ASSUME NEW a \in Avatars, PublishUpload(a) PROVE Origin
  <2>1. [avatar |-> a, retry |-> 0] \in UploadMsg /\ [avatar |-> a, retry |-> 0] # m
    BY MaxRetryAssumption DEF UploadMsg
  <2> QED BY <1>1, <1>2, <1>3, <2>1 DEF PublishUpload, Publish, Call
<1>4. ASSUME NEW w \in Workers, NEW n \in UploadMsg, DeliverUpload(w, n) PROVE Origin
  BY <1>4, <1>t DEF DeliverUpload, Take
<1>5. ASSUME NEW w \in Workers, PublishRetry(w) PROVE Origin
  <2> DEFINE n == [ucon[w].msg EXCEPT !.retry = @ + 1]
  <2>1. n \in UploadMsg /\ n.avatar = ucon[w].msg.avatar
    BY <1>5, <1>t, HeldMessages, MaxRetryAssumption DEF PublishRetry, UploadMsg
  <2>2. uploadQ' = Put(uploadQ, n) /\ ucon[w].pc = "fail"
    BY <1>5 DEF PublishRetry
  <2> HIDE DEF n
  <2> QED BY <1>2, <2>1, <2>2
<1>6. ASSUME NEW w \in Workers,
             Requeue(w) \/ Disconnect(w) \/ Exit(w) \/ Crash(w)
      PROVE  Origin
  <2>1. \/ uploadQ' = uploadQ
        \/ /\ ucon[w].pc # "idle"
           /\ ucon[w].msg \in UploadMsg
           /\ uploadQ' = Put(uploadQ, ucon[w].msg)
    BY <1>6, <1>t, HeldMessages DEF Requeue, Disconnect, Exit, Crash, Restart, ReturnUnacked
  <2> QED BY <1>1, <1>2, <2>1
<1>7. ASSUME NEW w \in Workers,
             \/ CheckStatus(w) \/ Download(w) \/ ResizeFails(w) \/ StoreThumb(w) \/ Complete(w)
             \/ PublishToDLQ(w) \/ GiveUp(w) \/ MarkProcessingFailed(w) \/ AckUpload(w)
             \/ DeleteConsumerStep(w) \/ Sigterm(w)
      PROVE  UNCHANGED uploadQ
  BY <1>7 DEF CheckStatus, Download, ResizeFails, StoreThumb, Complete, PublishToDLQ, GiveUp,
              MarkProcessingFailed, AckUpload, DeleteConsumerStep, DeliverDelete, DeleteKey,
              AckDelete, Sigterm, backendVars
<1>8. ASSUME NEW a \in Avatars,
             \/ CreateRow(a) \/ StoreOriginal(a) \/ MarkUploadFailed(a) \/ MarkUploaded(a)
             \/ AbortUpload(a)
      PROVE  UNCHANGED uploadQ
  BY <1>8 DEF CreateRow, StoreOriginal, MarkUploadFailed, MarkUploaded, AbortUpload
<1>9. ASSUME NEW d \in Deletes,
             \/ \E a \in Avatars, u \in Users : ReadForDelete(d, a, u)
             \/ DeleteStep(d) \/ AbortDelete(d)
      PROVE  UNCHANGED uploadQ
  BY <1>9 DEF ReadForDelete, DeleteStep, SoftDelete, PublishDelete, AbortDelete
<1> QED
  BY <1>1, <1>3, <1>4, <1>5, <1>6, <1>7, <1>8, <1>9
     DEF Next, ServiceNext, WorkerNext, UploadStep, UploadConsumerStep

\* What holds of failures while no fault has happened.
LEMMA UnprovokedNext ==
  ASSUME IInv, FailuresTakeFaults, Next PROVE NothingFailsUnprovoked'
<1> SUFFICES ASSUME faults' = 0
             PROVE  /\ stopping' = {}
                    /\ \A m \in UploadMsg : Processable(m.avatar)' /\ uploadQ'[m] > 0 => m.retry = 0
                    /\ \A w \in Workers :
                         ucon'[w].pc # "idle" /\ ~db'[ucon'[w].msg.avatar].deleted
                           /\ ucon'[w].msg.avatar \notin Undecodable =>
                         ucon'[w].msg.retry = 0 /\ ucon'[w].pc \notin {"fail", "markFailed"}
    BY DEF NothingFailsUnprovoked, Processable
<1>t. TypeOK /\ WorkerTypeOK
  BY DEF IInv, TypeOK
<1>f. faults = 0 /\ faults' = faults
  BY <1>t, FaultsCount
<1>m. \A a \in Avatars : ~db'[a].deleted => ~db[a].deleted
  BY StepsAreMonotone DEF Monotone
<1>0. /\ stopping = {}
      /\ \A m \in UploadMsg : Processable(m.avatar) /\ uploadQ[m] > 0 => m.retry = 0
      /\ \A w \in Workers : ucon[w].pc # "idle" /\ Processable(ucon[w].msg.avatar) =>
           ucon[w].msg.retry = 0 /\ ucon[w].pc \notin {"fail", "markFailed"}
  BY <1>f DEF FailuresTakeFaults, NothingFailsUnprovoked
<1>1. stopping' = {}
  BY <1>t, <1>f, <1>0, StoppingSteps
<1>2. ASSUME NEW m \in UploadMsg, Processable(m.avatar)', uploadQ'[m] > 0 PROVE m.retry = 0
  <2>1. m.avatar \in Avatars
    BY DEF UploadMsg
  <2>2. Processable(m.avatar)
    BY <1>2, <1>m, <2>1 DEF Processable
  <2> QED BY <1>2, <1>0, <1>t, <2>2, RetriesComeFromFailures
<1>3. ASSUME NEW w \in Workers, ucon'[w].pc # "idle",
             ~db'[ucon'[w].msg.avatar].deleted, ucon'[w].msg.avatar \notin Undecodable
      PROVE  ucon'[w].msg.retry = 0 /\ ucon'[w].pc \notin {"fail", "markFailed"}
  <2>1. \/ ucon[w].pc # "idle" /\ ucon[w].msg = ucon'[w].msg
        \/ ucon'[w].msg \in UploadMsg /\ uploadQ[ucon'[w].msg] > 0
    BY <1>3, <1>t, HeldMessageOrigins
  <2>2. ucon'[w].msg.avatar \in Avatars
    BY <1>t, <2>1, HeldMessages DEF UploadMsg
  <2>3. Processable(ucon'[w].msg.avatar)
    BY <1>3, <1>m, <2>2 DEF Processable
  <2>4. ucon'[w].msg.retry = 0
    BY <1>0, <2>1, <2>3
  <2>5. ucon'[w].pc \notin {"fail", "markFailed"}
    BY <1>0, <1>1, <1>f, <2>3, ConsumerTrips
  <2> QED BY <2>4, <2>5
<1> QED BY <1>1, <1>2, <1>3

\* What holds of failures after the first fault.
LEMMA OneFaultNext ==
  ASSUME MaxRetry > 0, IInv, FailuresTakeFaults, Next PROVE OneFaultLeavesRetries'
<1> SUFFICES ASSUME faults' = 1, NEW w \in Workers, w \notin stopping', ucon'[w].pc # "idle",
                    ~db'[ucon'[w].msg.avatar].deleted, ucon'[w].msg.avatar \notin Undecodable
             PROVE  /\ ucon'[w].pc # "markFailed"
                    /\ ucon'[w].pc = "fail" => ucon'[w].msg.retry < MaxRetry
    BY DEF OneFaultLeavesRetries, Processable
<1>t. TypeOK /\ WorkerTypeOK
  BY DEF IInv, TypeOK
<1>f. faults \in Nat /\ ((faults = 1 /\ faults' = faults) \/ faults = 0)
  BY <1>t, FaultsCount
<1>m. \A a \in Avatars : ~db'[a].deleted => ~db[a].deleted
  BY StepsAreMonotone DEF Monotone
<1>s. w \notin stopping
  BY <1>t, StoppingSteps
<1>1. ASSUME ucon[w].pc # "idle", ucon'[w].msg = ucon[w].msg
      PROVE  /\ Processable(ucon[w].msg.avatar)
             /\ faults = 0 => /\ ucon[w].msg.retry = 0
                              /\ ucon[w].pc \notin {"fail", "markFailed"}
             /\ faults = 1 => /\ ucon[w].pc # "markFailed"
                              /\ ucon[w].pc = "fail" => ucon[w].msg.retry < MaxRetry
  <2>1. ucon[w].msg.avatar \in Avatars
    BY <1>1, <1>t, HeldMessages
  <2>2. Processable(ucon[w].msg.avatar)
    BY <1>1, <1>m, <2>1 DEF Processable
  <2> QED BY <1>1, <1>s, <2>2
          DEF FailuresTakeFaults, NothingFailsUnprovoked, OneFaultLeavesRetries
<1>2. ASSUME ucon'[w].pc = "markFailed" PROVE FALSE
  BY <1>2, <1>1, <1>f, ConsumerTrips
<1>3. ASSUME ucon'[w].pc = "fail" PROVE ucon'[w].msg.retry < MaxRetry
  BY <1>3, <1>1, <1>f, ConsumerTrips
<1> QED BY <1>2, <1>3

\* Of all statements only the worker's completion makes a row completed.
LEMMA OtherStatements ==
  ASSUME NEW row \in Rows, row.processing # "completed"
  PROVE  /\ CreateAvatar(row).processing # "completed"
         /\ SetAvatarUploaded(row).processing # "completed"
         /\ SetAvatarUploadFailed(row).processing # "completed"
         /\ SoftDeleteAvatar(row).processing # "completed"
         /\ UpdateProcessingStatus(row, "failed", {}).processing # "completed"
BY DEF Rows, RowsOver, CreateAvatar, NoRow, SetAvatarUploaded, SetAvatarUploadFailed,
       SoftDeleteAvatar, UpdateProcessingStatus

\* An image that cannot be decoded is never completed.
LEMMA UndecodableNext ==
  ASSUME IInv, UndecodableIncomplete, Next PROVE UndecodableIncomplete'
<1>t. TypeOK /\ BackendsTypeOK /\ WorkerTypeOK
  BY DEF IInv, TypeOK
<1>1. ASSUME NEW w \in Workers, ucon'[w].pc = "complete"
      PROVE  ucon'[w].msg.avatar \notin Undecodable
  <2>1. CASE ucon'[w] = ucon[w]
    BY <1>1, <2>1 DEF UndecodableIncomplete
  <2>2. CASE StoreThumb(w)
    BY <2>2, <1>1, <1>t DEF StoreThumb, WorkerCall, UploadConsumerGoes, WorkerTypeOK
  <2>3. ASSUME NEW pc \in ConsumerPc \ {"complete"}, UploadConsumerGoes(w, pc) PROVE FALSE
    BY <2>3, <1>1, <1>t DEF UploadConsumerGoes, WorkerTypeOK
  <2>4. CASE \/ CheckStatus(w) \/ Download(w) \/ ResizeFails(w) \/ Complete(w)
             \/ PublishRetry(w) \/ PublishToDLQ(w) \/ MarkProcessingFailed(w)
    BY <2>3, <2>4 DEF CheckStatus, Download, ResizeFails, Complete, PublishRetry, PublishToDLQ,
                      MarkProcessingFailed, WorkerRead, WorkerCall, ConsumerPc
  <2>5. CASE Requeue(w) \/ GiveUp(w) \/ AckUpload(w) \/ \E m \in UploadMsg : DeliverUpload(w, m)
    BY <2>5, <1>1, <1>t DEF Requeue, GiveUp, AckUpload, DeliverUpload, IdleUpload, WorkerTypeOK
  <2>6. ASSUME NEW v \in Workers, UploadConsumerStep(v), v # w PROVE ucon'[w] = ucon[w]
    BY <2>6, <1>t
       DEF UploadConsumerStep, DeliverUpload, CheckStatus, Download, ResizeFails, StoreThumb,
           Complete, PublishRetry, PublishToDLQ, Requeue, GiveUp, MarkProcessingFailed, AckUpload,
           WorkerRead, WorkerCall, UploadConsumerGoes, WorkerTypeOK
  <2>7. ASSUME NEW v \in Workers, DeleteConsumerStep(v) \/ Disconnect(v) \/ Sigterm(v)
        PROVE  ucon'[w] = ucon[w]
    BY <2>7 DEF DeleteConsumerStep, DeliverDelete, DeleteKey, AckDelete, Disconnect, Sigterm
  <2>8. ASSUME NEW v \in Workers, Exit(v) \/ Crash(v) PROVE ucon'[w] = ucon[w]
    BY <2>8, <1>1, <1>t DEF Exit, Crash, Restart, IdleUpload, WorkerTypeOK
  <2> QED BY <2>1, <2>2, <2>4, <2>5, <2>6, <2>7, <2>8
          DEF Next, WorkerNext, UploadConsumerStep, workerVars
<1>2. ASSUME NEW a \in Undecodable PROVE db'[a].processing # "completed"
  <2>1. /\ a \in Avatars /\ db[a] \in Rows /\ db[a].processing # "completed"
        /\ \A w \in Workers : ucon[w].pc = "complete" => ucon[w].msg.avatar # a
    BY <1>t, UndecodableAssumption DEF UndecodableIncomplete, BackendsTypeOK
  <2>2. CASE UNCHANGED db
    BY <2>1, <2>2
  <2>3. ASSUME NEW b \in Avatars, CreateRow(b) \/ MarkUploadFailed(b) \/ MarkUploaded(b)
        PROVE  db'[a].processing # "completed"
    <3> DEFINE created  == CreateAvatar(db[a])
               failed   == SetAvatarUploadFailed(db[a])
               uploaded == SetAvatarUploaded(db[a])
    <3>0. \/ db' = db
          \/ db' = [db EXCEPT ![b] = CreateAvatar(@)]
          \/ db' = [db EXCEPT ![b] = SetAvatarUploadFailed(@)]
          \/ db' = [db EXCEPT ![b] = SetAvatarUploaded(@)]
      BY <2>3 DEF CreateRow, MarkUploadFailed, MarkUploaded, Call
    <3>1. db'[a] \in {db[a], created, failed, uploaded}
      BY <3>0, <2>1, <1>t DEF BackendsTypeOK
    <3>2. /\ created.processing # "completed"
          /\ failed.processing # "completed"
          /\ uploaded.processing # "completed"
      BY <2>1, OtherStatements
    <3> HIDE DEF created, failed, uploaded
    <3> QED BY <3>1, <3>2, <2>1
  <2>4. ASSUME NEW d \in Deletes, SoftDelete(d) PROVE db'[a].processing # "completed"
    <3> DEFINE deleted == SoftDeleteAvatar(db[a])
    <3>0. db' = db \/ db' = [db EXCEPT ![delete[d].event.avatar] = SoftDeleteAvatar(@)]
      BY <2>4 DEF SoftDelete, Call
    <3>1. db'[a] \in {db[a], deleted}
      BY <3>0, <2>1, <1>t DEF BackendsTypeOK
    <3>2. deleted.processing # "completed"
      BY <2>1, OtherStatements
    <3> HIDE DEF deleted
    <3> QED BY <3>1, <3>2, <2>1
  <2>5. ASSUME NEW w \in Workers, Complete(w) PROVE db'[a] = db[a]
    BY <2>5, <2>1, <1>t DEF Complete, WorkerCall, BackendsTypeOK
  <2>6. ASSUME NEW w \in Workers, MarkProcessingFailed(w) PROVE db'[a].processing # "completed"
    <3> DEFINE failed == UpdateProcessingStatus(db[a], "failed", {})
    <3>1. db' = db \/ db' = [db EXCEPT ![ucon[w].msg.avatar] = UpdateProcessingStatus(@, "failed", {})]
      BY <2>6 DEF MarkProcessingFailed, WorkerCall
    <3>2. db'[a] \in {db[a], failed}
      BY <3>1, <2>1, <1>t DEF BackendsTypeOK
    <3>3. failed.processing # "completed"
      BY <2>1, OtherStatements
    <3> HIDE DEF failed
    <3> QED BY <3>2, <3>3, <2>1
  <2>7. ASSUME NEW b \in Avatars, StoreOriginal(b) PROVE UNCHANGED db
    BY <2>7 DEF StoreOriginal
  <2>8. ASSUME NEW w \in Workers, StoreThumb(w) \/ DeleteKey(w) PROVE UNCHANGED db
    BY <2>8 DEF StoreThumb, DeleteKey
  <2> QED BY <2>1, <2>2, <2>3, <2>4, <2>5, <2>6, <2>7, <2>8, DataSteps DEF DataStep
<1> QED BY <1>1, <1>2 DEF UndecodableIncomplete

\* Every step of the pipeline, and with it the invariant, keeps failures tied
\* to faults.
LEMMA FailuresNext ==
  ASSUME MaxRetry > 0 PROVE IInv /\ FailuresTakeFaults /\ [Next]_vars => FailuresTakeFaults'
<1>1. ASSUME IInv, FailuresTakeFaults, Next PROVE FailuresTakeFaults'
  BY <1>1, UnprovokedNext, OneFaultNext, UndecodableNext DEF FailuresTakeFaults
<1>2. ASSUME FailuresTakeFaults, UNCHANGED vars PROVE FailuresTakeFaults'
  BY <1>2 DEF vars, FailuresTakeFaults, NothingFailsUnprovoked, OneFaultLeavesRetries,
              UndecodableIncomplete, Processable
<1> QED BY <1>1, <1>2

LEMMA FailuresInit == Init => FailuresTakeFaults
BY UndecodableAssumption DEF Init, BackendsInit, WorkerInit, FailuresTakeFaults, NothingFailsUnprovoked,
       OneFaultLeavesRetries, UndecodableIncomplete, NoRow, IdleUpload

\* No step takes a completion back before the second fault.
LEMMA CompletionStays ==
  ASSUME IInv, FailuresTakeFaults, Next, NEW a \in Avatars,
         db[a].processing = "completed", ~(faults' >= 2)
  PROVE  db'[a].processing = "completed" /\ db'[a].upload = db[a].upload
<1> DEFINE Stays == db'[a].processing = "completed" /\ db'[a].upload = db[a].upload
<1>t. TypeOK /\ BackendsTypeOK /\ WorkerTypeOK
  BY DEF IInv, TypeOK
<1>a. /\ db[a] \in Rows /\ a \notin Undecodable
      /\ db[a].upload = "uploaded"
  BY <1>t DEF IInv, ProcessedOnlyIfUploaded, FailuresTakeFaults, UndecodableIncomplete,
              BackendsTypeOK
<1>f. faults \in Nat /\ (faults = 0 \/ faults = 1) /\ (faults' = faults \/ faults = 0)
  BY <1>t, FaultsCount
<1>u. upload[a] \notin {"none", "markFailed"} \/ db[a].deleted
  <2>1. RowFollowsRequest(a) /\ NoRow.upload = "absent"
    BY DEF IInv, RowsFollowRequests, NoRow
  <2> QED BY <1>a, <2>1 DEF RowFollowsRequest
<1>1. CASE db'[a] = db[a]
  BY <1>1
<1>2. CASE db[a].deleted
  BY <1>2, <1>1, StepsAreMonotone DEF Monotone
<1>l. ~db[a].deleted => Live(db[a])
  BY <1>a DEF Live
<1>3. ASSUME NEW b \in Avatars, ~db[a].deleted, CreateRow(b) \/ StoreOriginal(b) \/ MarkUploadFailed(b)
      PROVE  db'[a] = db[a]
  BY <1>3, <1>u, <1>t DEF CreateRow, StoreOriginal, MarkUploadFailed, Call, BackendsTypeOK
<1>4. ASSUME NEW b \in Avatars, MarkUploaded(b) PROVE Stays
  <2>1. db'[a] \in {db[a], SetAvatarUploaded(db[a])}
    BY <1>4, <1>t DEF MarkUploaded, Call, BackendsTypeOK
  <2> QED BY <2>1, <1>a DEF SetAvatarUploaded, Rows, RowsOver
<1>5. ASSUME NEW d \in Deletes, SoftDelete(d) PROVE Stays
  <2>1. db'[a] \in {db[a], SoftDeleteAvatar(db[a])}
    BY <1>5, <1>t DEF SoftDelete, Call, BackendsTypeOK
  <2> QED BY <2>1, <1>a DEF SoftDeleteAvatar, Rows, RowsOver
<1>6. ASSUME NEW w \in Workers, Complete(w) PROVE Stays
  <2> DEFINE thumbs == 1..(ucon[w].next - 1)
  <2>1. db' = db \/ db' = [db EXCEPT ![ucon[w].msg.avatar] = UpdateProcessingStatus(@, "completed", thumbs)]
    BY <1>6 DEF Complete, WorkerCall
  <2>2. db'[a] \in {db[a], UpdateProcessingStatus(db[a], "completed", thumbs)}
    BY <2>1, <1>t DEF BackendsTypeOK
  <2> HIDE DEF thumbs
  <2> QED BY <2>2, <1>a DEF UpdateProcessingStatus, Rows, RowsOver
<1>7. ASSUME NEW w \in Workers, MarkProcessingFailed(w), ~db[a].deleted PROVE db'[a] = db[a]
  <2>1. CASE ucon[w].msg.avatar # a
    BY <1>7, <2>1, <1>t DEF MarkProcessingFailed, WorkerCall, BackendsTypeOK
  <2>2. CASE ucon[w].msg.avatar = a
    <3>1. ucon[w].pc = "markFailed" /\ Processable(ucon[w].msg.avatar)
      BY <1>7, <2>2, <1>a DEF MarkProcessingFailed, Processable
    <3>2. faults # 0 /\ w \in stopping
      BY <1>f, <3>1 DEF FailuresTakeFaults, NothingFailsUnprovoked, OneFaultLeavesRetries
    <3>3. ~Fault("ambiguous")
      BY <1>f, <3>2 DEF Fault
    <3> QED BY <1>7, <3>2, <3>3 DEF MarkProcessingFailed, WorkerCall
  <2> QED BY <2>1, <2>2
<1>8. ASSUME NEW w \in Workers, StoreThumb(w) \/ DeleteKey(w) PROVE db'[a] = db[a]
  BY <1>8 DEF StoreThumb, DeleteKey
<1> QED
  BY <1>1, <1>2, <1>3, <1>4, <1>5, <1>6, <1>7, <1>8, DataSteps DEF DataStep

\* For every instance that retries at all (the code has two retry levels): one
\* fault of any kind, at whatever moment, never makes a worker take a
\* completion back, for a second failure of the same event takes a second fault.
THEOREM OneFaultIsSurvived ==
  ASSUME MaxRetry > 0
  PROVE  Spec => CompletedOutlivesOneFault
<1>1. Init => FailuresTakeFaults
  BY FailuresInit
<1>2. IInv /\ FailuresTakeFaults /\ [Next]_vars => FailuresTakeFaults'
  BY FailuresNext
<1>3. IInv /\ FailuresTakeFaults /\ [Next]_vars =>
        [\A a \in Avatars :
           db[a].processing = "completed" /\ db'[a].processing # "completed" => faults' >= 2]_vars
  BY CompletionStays
<1> QED BY <1>1, <1>2, <1>3, Invariance, PTL DEF Spec, CompletedOutlivesOneFault

=============================================================================
