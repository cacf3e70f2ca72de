------------------------ MODULE AvatarErasure_proofs ------------------------
(***************************************************************************)
(* A delete that was answered with 204 erases what its event names, for    *)
(* every instance, unless a call of the worker or its publish fails in a   *)
(* way that the code does not notice.                                      *)
(***************************************************************************)
EXTENDS AvatarErasure, AvatarPipeline_proofs

\* The same two conditions after a step, for an event and a blob named before it.
PendingAfter(m) ==
  \/ deleteQ'[m] > 0
  \/ \E w \in linked' : dcon'[w].msg = m

ErasedAfter(o) == o \in objects' => o \in late'

\* No step puts back a blob of a deleted avatar without its being noted.
LEMMA ErasedStays ==
  ASSUME NotesLateBlobs, NEW a, NEW k, db[a].deleted, Erased(<<a, k>>)
  PROVE  ErasedAfter(<<a, k>>)
BY DEF NotesLateBlobs, Erased, ErasedAfter

\* How a delete consumer moves.
LEMMA DeleteConsumerMoves ==
  ASSUME TypeOK, Next, NEW w \in Workers
  PROVE  \/ dcon'[w] = dcon[w]
         \/ dcon'[w].msg = NoMsg
         \/ dcon'[w].todo = Keys(dcon'[w].msg)
         \/ DeleteKey(w)
<1>t. WorkerTypeOK
  BY DEF TypeOK
<1>1. ASSUME NEW v \in Workers, NEW m \in DeleteMsg, DeliverDelete(v, m)
      PROVE  dcon'[w] = dcon[w] \/ dcon'[w].todo = Keys(dcon'[w].msg)
  BY <1>1, <1>t DEF DeliverDelete, WorkerTypeOK
<1>2. ASSUME NEW v \in Workers, v # w, DeleteKey(v) PROVE dcon'[w] = dcon[w]
  BY <1>2, <1>t DEF DeleteKey, WorkerCall, WorkerTypeOK
<1>3. ASSUME NEW v \in Workers, AckDelete(v) \/ Exit(v) \/ Crash(v)
      PROVE  dcon'[w] = dcon[w] \/ dcon'[w].msg = NoMsg
  BY <1>3, <1>t DEF AckDelete, Exit, Crash, Restart, IdleDelete, WorkerTypeOK
<1>4. ASSUME NEW v \in Workers, UploadConsumerStep(v) \/ Disconnect(v) \/ Sigterm(v)
      PROVE  dcon' = dcon
  BY <1>4
     DEF UploadConsumerStep, DeliverUpload, CheckStatus, Download, ResizeFails, StoreThumb,
         Complete, PublishRetry, PublishToDLQ, Requeue, GiveUp, MarkProcessingFailed, AckUpload,
         Disconnect, Sigterm
<1> QED BY <1>1, <1>2, <1>3, <1>4 DEF Next, WorkerNext, DeleteConsumerStep, workerVars

---------------------------------------------------------------------------
(* Without signals, storage.Delete of a key in hand erases it *)

LEMMA NobodyStops ==
  ASSUME "sigterm" \notin FaultKinds, WorkerTypeOK, stopping = {}, Next
  PROVE  stopping' = {}
<1>1. ASSUME NEW w \in Workers, UploadConsumerStep(w) \/ DeleteConsumerStep(w)
      PROVE  stopping' = stopping
  BY <1>1
     DEF UploadConsumerStep, DeliverUpload, CheckStatus, Download, ResizeFails, StoreThumb,
         Complete, PublishRetry, PublishToDLQ, Requeue, GiveUp, MarkProcessingFailed, AckUpload,
         DeleteConsumerStep, DeliverDelete, DeleteKey, AckDelete
<1>2. ASSUME NEW w \in Workers, Disconnect(w) \/ Sigterm(w) \/ Exit(w) \/ Crash(w)
      PROVE  stopping' = {}
  BY <1>2 DEF Disconnect, Sigterm, Exit, Crash, Restart, Fault
<1> QED BY <1>1, <1>2 DEF Next, WorkerNext, workerVars

LEMMA KeyIsErased ==
  ASSUME "error" \notin FaultKinds, WorkerTypeOK, stopping = {}, NEW w \in Workers, DeleteKey(w)
  PROVE  \E k \in dcon[w].todo :
           /\ dcon'[w].msg = dcon[w].msg
           /\ dcon'[w].todo = dcon[w].todo \ {k}
           /\ <<dcon[w].msg.avatar, k>> \notin objects'
BY DEF DeleteKey, WorkerCall, Fault, WorkerTypeOK

LEMMA TickedOffStays ==
  ASSUME {"error", "sigterm"} \cap FaultKinds = {}, EInv, Next, NotesLateBlobs
  PROVE  TickedOffIsErased'
<1>t. TypeOK /\ WorkerTypeOK /\ stopping = {}
  BY DEF EInv, IInv, TypeOK
<1> SUFFICES ASSUME NEW w \in Workers, dcon'[w].msg # NoMsg,
                    NEW k \in Keys(dcon'[w].msg) \ dcon'[w].todo
             PROVE  ErasedAfter(<<dcon'[w].msg.avatar, k>>)
    BY DEF TickedOffIsErased, Erased, ErasedAfter
<1> DEFINE a == dcon[w].msg.avatar
<1>1. dcon[w].msg # NoMsg => db[a].deleted
  BY DEF EInv, IInv, EventsFollowRows
<1>2. ASSUME dcon[w].msg # NoMsg, k \in Keys(dcon[w].msg) \ dcon[w].todo PROVE ErasedAfter(<<a, k>>)
  <2>1. Erased(<<a, k>>)
    BY <1>2 DEF EInv, TickedOffIsErased
  <2> QED BY <1>1, <1>2, <2>1, ErasedStays
<1>3. CASE dcon'[w] = dcon[w]
  BY <1>2, <1>3
<1>4. CASE DeleteKey(w)
  <2>1. PICK j \in dcon[w].todo :
          /\ dcon'[w].msg = dcon[w].msg
          /\ dcon'[w].todo = dcon[w].todo \ {j}
          /\ <<dcon[w].msg.avatar, j>> \notin objects'
    BY <1>4, <1>t, KeyIsErased
  <2>2. CASE k = j
    BY <2>1, <2>2 DEF ErasedAfter
  <2>3. CASE k # j
    BY <1>2, <2>1, <2>3
  <2> QED BY <2>2, <2>3
<1> QED BY <1>t, <1>3, <1>4, DeleteConsumerMoves

---------------------------------------------------------------------------
(* A pending delete event stays pending until its blobs are erased *)

LEMMA ErasePendingStays ==
  ASSUME TypeOK, Next, NEW m \in DeleteMsg, ErasePending(m)
  PROVE  \/ PendingAfter(m)
         \/ \E w \in Workers : dcon[w].msg = m /\ dcon[w].todo = {}
<1>t. WorkerTypeOK /\ deleteQ \in [DeleteMsg -> Nat] /\ linked \subseteq Workers /\ m # NoMsg
  BY NoMsgAssumption DEF TypeOK, BackendsTypeOK, WorkerTypeOK
<1>k. ASSUME deleteQ[m] > 0 => deleteQ'[m] > 0,
             \A w \in linked : dcon[w].msg = m => w \in linked' /\ dcon'[w].msg = m
      PROVE  PendingAfter(m)
  BY <1>k DEF ErasePending, PendingAfter
<1>1. ASSUME NEW w \in Workers, NEW n \in DeleteMsg, DeliverDelete(w, n) PROVE PendingAfter(m)
  <2>1. CASE n = m
    BY <1>1, <1>t, <2>1 DEF DeliverDelete, ErasePending, PendingAfter, WorkerTypeOK
  <2>2. CASE n # m
    BY <1>1, <1>t, <1>k, <2>2 DEF DeliverDelete, Take, WorkerTypeOK
  <2> QED BY <2>1, <2>2
<1>2. ASSUME NEW w \in Workers, DeleteKey(w) PROVE PendingAfter(m)
  BY <1>2, <1>t, <1>k DEF DeleteKey, WorkerCall, WorkerTypeOK
<1>3. ASSUME NEW w \in Workers, AckDelete(w), ~(dcon[w].msg = m /\ dcon[w].todo = {})
      PROVE  PendingAfter(m)
  BY <1>3, <1>t, <1>k DEF AckDelete, backendVars, WorkerTypeOK
<1>4. ASSUME NEW w \in Workers, Disconnect(w) \/ Exit(w) \/ Crash(w) PROVE PendingAfter(m)
  <2>1. /\ \A v \in linked : v # w => v \in linked' /\ dcon'[v].msg = dcon[v].msg
        /\ deleteQ' = IF w \in linked /\ dcon[w].msg # NoMsg
                      THEN Put(deleteQ, dcon[w].msg) ELSE deleteQ
    BY <1>4, <1>t DEF Disconnect, Exit, Crash, Restart, ReturnUnacked, WorkerTypeOK
  <2>2. CASE w \in linked /\ dcon[w].msg = m
    BY <1>t, <2>1, <2>2 DEF ErasePending, PendingAfter, Put
  <2>3. CASE ~(w \in linked /\ dcon[w].msg = m)
    <3>1. deleteQ[m] > 0 => deleteQ'[m] > 0
      BY <1>t, <2>1, HeldMessages DEF Put
    <3> QED BY <1>t, <1>k, <2>1, <2>3, <3>1
  <2> QED BY <2>2, <2>3
<1>5. ASSUME NEW w \in Workers, UploadConsumerStep(w) \/ Sigterm(w) PROVE PendingAfter(m)
  <2>1. UNCHANGED <<deleteQ, dcon, linked>>
    BY <1>5
       DEF UploadConsumerStep, DeliverUpload, CheckStatus, Download, ResizeFails, StoreThumb,
           Complete, PublishRetry, PublishToDLQ, Requeue, GiveUp, MarkProcessingFailed, AckUpload,
           Sigterm, backendVars
  <2> QED BY <1>k, <2>1
<1>6. ASSUME ServiceNext, UNCHANGED workerVars PROVE PendingAfter(m)
  <2>1. deleteQ' = deleteQ \/ \E d \in Deletes : PublishDelete(d)
    BY <1>6
       DEF ServiceNext, CreateRow, UploadStep, StoreOriginal, MarkUploadFailed, MarkUploaded,
           PublishUpload, AbortUpload, ReadForDelete, DeleteStep, SoftDelete, AbortDelete
  <2>2. ASSUME NEW d \in Deletes, PublishDelete(d) PROVE deleteQ[m] > 0 => deleteQ'[m] > 0
    <3>1. delete[d].event \in DeleteMsg
      BY <2>2 DEF PublishDelete, TypeOK, ServiceTypeOK
    <3>2. deleteQ' = deleteQ \/ deleteQ' = Put(deleteQ, delete[d].event)
      BY <2>2 DEF PublishDelete, Publish, Call
    <3> QED BY <1>t, <3>1, <3>2 DEF Put
  <2> QED BY <1>6, <1>k, <2>1, <2>2 DEF workerVars
<1> QED BY <1>1, <1>2, <1>3, <1>4, <1>5, <1>6 DEF Next, WorkerNext, DeleteConsumerStep

\* Only the publish of its event answers a delete with 204.
LEMMA DoneByPublish ==
  ASSUME TypeOK, Next, "lost" \notin FaultKinds,
         NEW d \in Deletes, delete[d].pc # "done", delete'[d].pc = "done"
  PROVE  PendingAfter(delete'[d].event)
<1>t. /\ deleteQ \in [DeleteMsg -> Nat] /\ ServiceTypeOK
      /\ delete \in [Deletes -> [pc : DeletePc, event : DeleteMsg \cup {NoMsg}]]
  BY DEF TypeOK, BackendsTypeOK, ServiceTypeOK
<1>1. ASSUME NEW e \in Deletes,
             \/ \E a \in Avatars, u \in Users : ReadForDelete(e, a, u)
             \/ SoftDelete(e) \/ AbortDelete(e)
      PROVE  FALSE
  BY <1>1, <1>t DEF ReadForDelete, SoftDelete, AbortDelete, Read, Call, DeleteGoes
<1>2. ASSUME NEW a \in Avatars, CreateRow(a) \/ UploadStep(a) \/ AbortUpload(a) PROVE FALSE
  BY <1>2
     DEF CreateRow, UploadStep, StoreOriginal, MarkUploadFailed, MarkUploaded, PublishUpload,
         AbortUpload
<1>3. ASSUME NEW e \in Deletes, PublishDelete(e) PROVE PendingAfter(delete'[d].event)
  <2>1. e = d
    BY <1>3, <1>t DEF PublishDelete, Publish, Call, DeleteGoes
  <2>2. delete'[d].event = delete[d].event /\ deleteQ' = Put(deleteQ, delete[d].event)
    BY <1>3, <1>t, <2>1 DEF PublishDelete, Publish, Call, Fault, DeleteGoes
  <2>3. delete[d].event \in DeleteMsg
    BY <1>3, <1>t, <2>1 DEF PublishDelete, ServiceTypeOK
  <2>4. deleteQ'[delete'[d].event] > 0
    BY <1>t, <2>2, <2>3 DEF Put
  <2> QED BY <2>4 DEF ErasePending, PendingAfter
<1> QED BY <1>1, <1>2, <1>3 DEF Next, ServiceNext, DeleteStep, serviceVars

---------------------------------------------------------------------------
LEMMA EInvInit == ErasureInit => EInv
BY IInvInit
   DEF ErasureInit, EInv, Init, ServiceInit, WorkerInit, IdleDelete, TickedOffIsErased,
       NamedBlobsErased

LEMMA EInvNext ==
  ASSUME {"error", "sigterm", "lost"} \cap FaultKinds = {}, EInv, ErasureNext
  PROVE  EInv'
<1>t. IInv /\ TypeOK /\ WorkerTypeOK /\ Next /\ NotesLateBlobs
  BY DEF EInv, IInv, TypeOK, ErasureNext
<1>1. IInv'
  BY <1>t, IInvNext
<1>2. late' \subseteq objects'
  BY <1>t DEF NotesLateBlobs
<1>3. stopping' = {}
  BY <1>t, NobodyStops DEF EInv
<1>4. TickedOffIsErased'
  BY <1>t, TickedOffStays
<1>5. NamedBlobsErased'
  <2> SUFFICES ASSUME NEW d \in Deletes, delete'[d].pc = "done"
               PROVE  LET event == delete'[d].event IN
                      \/ PendingAfter(event)
                      \/ \A k \in Keys(event) : ErasedAfter(<<event.avatar, k>>)
      BY DEF NamedBlobsErased, ErasePending, PendingAfter, Erased, ErasedAfter
  <2>1. CASE delete[d].pc # "done"
    BY <1>t, <2>1, DoneByPublish
  <2>2. CASE delete[d].pc = "done"
    <3> DEFINE event == delete[d].event
    <3>1. delete'[d].event = event
      BY <1>t, DeletePasses
    <3>2. event \in DeleteMsg /\ db[event.avatar].deleted /\ event # NoMsg
      BY <1>t, <2>2, NoMsgAssumption DEF IInv, EventsFollowRows, TypeOK, ServiceTypeOK
    <3>3. ASSUME \A k \in Keys(event) : Erased(<<event.avatar, k>>)
          PROVE  \A k \in Keys(event) : ErasedAfter(<<event.avatar, k>>)
      BY <1>t, <3>2, <3>3, ErasedStays
    <3>4. CASE ErasePending(event)
      <4>1. ASSUME NEW w \in Workers, dcon[w].msg = event, dcon[w].todo = {}
            PROVE  \A k \in Keys(event) : Erased(<<event.avatar, k>>)
        BY <3>2, <4>1 DEF EInv, TickedOffIsErased
      <4> QED BY <1>t, <3>1, <3>2, <3>3, <3>4, <4>1, ErasePendingStays
    <3>5. CASE ~ErasePending(event)
      BY <2>2, <3>1, <3>3, <3>5 DEF EInv, NamedBlobsErased
    <3> QED BY <3>4, <3>5
  <2> QED BY <2>1, <2>2
<1> QED BY <1>1, <1>2, <1>3, <1>4, <1>5 DEF EInv

\* For every instance in which no call of a worker fails without effect, no
\* worker is told to stop and no publish is lost: after a delete was answered
\* with 204 its event is on the way, or the blobs it names are erased but for
\* those stored after the row was deleted.  Crashes, lost connections,
\* redeliveries, racing deletes and uploads do not make HandleDeleteEvent skip
\* a key.
THEOREM NamedBlobsAreErased ==
  ASSUME {"error", "sigterm", "lost"} \cap FaultKinds = {}
  PROVE  ErasureSpec => []NamedBlobsErased
<1>1. ASSUME EInv, UNCHANGED erasureVars PROVE EInv'
  <2>1. IInv'
    BY <1>1, IInvNext DEF EInv, erasureVars
  <2> QED BY <1>1, <2>1
          DEF EInv, erasureVars, vars, TickedOffIsErased, NamedBlobsErased, ErasePending, Erased
<1>2. EInv /\ [ErasureNext]_erasureVars => EInv'
  BY <1>1, EInvNext
<1>3. EInv => NamedBlobsErased
  BY DEF EInv
<1> QED BY <1>2, <1>3, EInvInit, PTL DEF ErasureSpec

=============================================================================
