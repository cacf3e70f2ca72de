----------------------- MODULE AvatarDelivery_proofs -----------------------
(***************************************************************************)
(* What holds of the queues and of the worker processes for any number of  *)
(* workers, retry levels and faults, and any prefetch.                     *)
(***************************************************************************)
EXTENDS AvatarDelivery, FiniteSetTheorems, TLAPS

ReadyType  == ready \in [Queues -> [Msg -> Nat]]
BufferType == buffer \in [Workers -> [Queues -> Seq(Msg)]]
HandRecord == [pc : HandPc, msg : Msg \cup {NoMsg}]
HandType ==
  /\ hand \in [Workers -> [Queues -> HandRecord]]
  /\ \A w \in Workers, q \in Queues : hand[w][q].pc = "idle" <=> hand[w][q].msg = NoMsg

---------------------------------------------------------------------------
(* Queues, buffers and hands *)

PutsReady(q, m) == ready' = [ready EXCEPT ![q] = Put(@, m)]

LEMMA ReadyPut ==
  ASSUME ReadyType, NEW q \in Queues, NEW m \in Msg, PutsReady(q, m)
  PROVE  /\ ReadyType'
         /\ \A p \in Queues, n \in Msg : ready'[p][n] > 0 => ready[p][n] > 0 \/ n = m
<1>1. ready[q] \in [Msg -> Nat]
  BY DEF ReadyType
<1>2. Put(ready[q], m) \in [Msg -> Nat]
  BY <1>1 DEF Put
<1>3. \A n \in Msg : Put(ready[q], m)[n] > 0 => ready[q][n] > 0 \/ n = m
  BY <1>1 DEF Put
<1> QED BY <1>2, <1>3 DEF ReadyType, PutsReady

LEMMA ReadyTake ==
  ASSUME ReadyType, NEW q \in Queues, NEW m \in Msg, ready[q][m] > 0,
         ready' = [ready EXCEPT ![q] = Take(@, m)]
  PROVE  /\ ReadyType'
         /\ \A p \in Queues, n \in Msg : ready'[p][n] > 0 => ready[p][n] > 0
<1>1. ready[q] \in [Msg -> Nat]
  BY DEF ReadyType
<1>2. Take(ready[q], m) \in [Msg -> Nat]
  BY <1>1 DEF Take
<1>3. \A n \in Msg : Take(ready[q], m)[n] > 0 => ready[q][n] > 0
  BY <1>1 DEF Take
<1> QED BY <1>2, <1>3 DEF ReadyType

SetsBuffer(w, q, s) == buffer' = [buffer EXCEPT ![w][q] = s]

LEMMA BufferSet ==
  ASSUME BufferType, NEW w \in Workers, NEW q \in Queues, NEW s \in Seq(Msg),
         SetsBuffer(w, q, s)
  PROVE  /\ BufferType'
         /\ buffer'[w][q] = s
         /\ \A v \in Workers, p \in Queues : <<v, p>> # <<w, q>> => buffer'[v][p] = buffer[v][p]
BY DEF BufferType, SetsBuffer

SetsHand(w, q, h) == hand' = [hand EXCEPT ![w][q] = h]

LEMMA HandSet ==
  ASSUME HandType, NEW w \in Workers, NEW q \in Queues, NEW h \in HandRecord,
         h.pc = "idle" <=> h.msg = NoMsg, SetsHand(w, q, h)
  PROVE  /\ HandType'
         /\ hand'[w][q] = h
         /\ \A v \in Workers, p \in Queues : <<v, p>> # <<w, q>> => hand'[v][p] = hand[v][p]
BY DEF HandType, SetsHand

LEMMA HandMoves ==
  ASSUME HandType, NEW w \in Workers, NEW q \in Queues, NEW pc \in HandPc \ {"idle"},
         hand[w][q].pc # "idle", HandGoes(w, q, pc)
  PROVE  /\ HandType'
         /\ hand'[w][q].pc = pc /\ hand'[w][q].msg = hand[w][q].msg
         /\ \A v \in Workers, p \in Queues : <<v, p>> # <<w, q>> => hand'[v][p] = hand[v][p]
<1> DEFINE h == [pc |-> pc, msg |-> hand[w][q].msg]
<1>1. hand[w][q] \in HandRecord /\ hand[w][q].msg # NoMsg
  BY DEF HandType
<1>2. h \in HandRecord /\ h.pc = pc /\ h.msg = hand[w][q].msg
  BY <1>1 DEF HandRecord
<1>3. [hand[w][q] EXCEPT !.pc = pc] = h
  BY <1>1 DEF HandRecord
<1>4. SetsHand(w, q, h)
  BY <1>3 DEF HandGoes, HandType, SetsHand
<1>5. h.pc = "idle" <=> h.msg = NoMsg
  BY <1>1, <1>2
<1> HIDE DEF h
<1>6. HandType' /\ hand'[w][q] = h
      /\ \A v \in Workers, p \in Queues : <<v, p>> # <<w, q>> => hand'[v][p] = hand[v][p]
  BY <1>2, <1>4, <1>5, HandSet
<1> QED BY <1>2, <1>6

LEMMA IdleRecord == Idle \in HandRecord /\ Idle.pc = "idle" /\ Idle.msg = NoMsg
BY DEF Idle, HandRecord, HandPc

\* Message m waits for the loop over q, or is in it.
Fetched(w, q, m) ==
  \/ \E i \in 1..Len(buffer[w][q]) : buffer[w][q][i] = m
  \/ hand[w][q].msg = m

LEMMA UnackedCounts ==
  ASSUME BufferType, NEW w \in Workers, NEW q \in Queues, NEW m \in Msg
  PROVE  /\ Unacked(w, q, m) \in Nat
         /\ Unacked(w, q, m) > 0 => Fetched(w, q, m)
<1> DEFINE copies == {i \in 1..Len(buffer[w][q]) : buffer[w][q][i] = m}
<1>1. buffer[w][q] \in Seq(Msg) /\ Len(buffer[w][q]) \in Nat
  BY DEF BufferType
<1>2. IsFiniteSet(1..Len(buffer[w][q])) /\ copies \in SUBSET (1..Len(buffer[w][q]))
  BY <1>1, FS_Interval
<1>3. IsFiniteSet(copies)
  BY <1>2, FS_Subset
<1>4. Cardinality(copies) \in Nat /\ (Cardinality(copies) = 0 <=> copies = {})
  BY <1>3, FS_CardinalityType, FS_EmptySet
<1>5. Unacked(w, q, m) =
        Cardinality(copies) + IF w \in linked /\ hand[w][q].msg = m THEN 1 ELSE 0
  BY DEF Unacked
<1>6. copies # {} => Fetched(w, q, m)
  BY DEF Fetched
<1>7. hand[w][q].msg = m => Fetched(w, q, m)
  BY DEF Fetched
<1> HIDE DEF copies
<1> QED BY <1>4, <1>5, <1>6, <1>7

LEMMA TakesBack ==
  ASSUME ReadyType, BufferType, NEW w \in Workers, TakeBack(w)
  PROVE  /\ ReadyType' /\ BufferType'
         /\ \A q \in Queues : buffer'[w][q] = <<>>
         /\ \A v \in Workers \ {w} : buffer'[v] = buffer[v]
         /\ \A q \in Queues, m \in Msg :
              ready'[q][m] > 0 => ready[q][m] > 0 \/ Fetched(w, q, m)
<1>1. \A q \in Queues, m \in Msg :
        ready[q][m] \in Nat /\ Unacked(w, q, m) \in Nat
          /\ (Unacked(w, q, m) > 0 => Fetched(w, q, m))
  BY UnackedCounts DEF ReadyType
<1>2. ready' = [q \in Queues |-> [m \in Msg |-> ready[q][m] + Unacked(w, q, m)]]
  BY DEF TakeBack
<1>3. \A q \in Queues : ready'[q] = [m \in Msg |-> ready[q][m] + Unacked(w, q, m)]
  BY <1>2
<1>4. \A q \in Queues, m \in Msg : ready'[q][m] = ready[q][m] + Unacked(w, q, m)
  BY <1>3
<1>5. ASSUME NEW q \in Queues PROVE ready'[q] \in [Msg -> Nat]
  <2>1. \A m \in Msg : ready[q][m] + Unacked(w, q, m) \in Nat
    BY <1>1
  <2> QED BY <1>3, <2>1
<1>6. ReadyType'
  BY <1>2, <1>5 DEF ReadyType
<1>7. \A q \in Queues, m \in Msg : ready'[q][m] > 0 => ready[q][m] > 0 \/ Fetched(w, q, m)
  BY <1>1, <1>4
<1>8. buffer' = [buffer EXCEPT ![w] = [q \in Queues |-> <<>>]] /\ <<>> \in Seq(Msg)
  BY DEF TakeBack
<1>9. [q \in Queues |-> <<>>] \in [Queues -> Seq(Msg)]
  BY <1>8
<1>10. BufferType' /\ buffer'[w] = [q \in Queues |-> <<>>]
       /\ \A v \in Workers \ {w} : buffer'[v] = buffer[v]
  BY <1>8, <1>9 DEF BufferType
<1> QED BY <1>6, <1>7, <1>10

---------------------------------------------------------------------------
(* Types *)

BrokerType ==
  published \in [Queues -> SUBSET Avatars] /\ gone \subseteq Avatars /\ dead \subseteq Avatars
WaitingType == waiting \in [1..MaxRetry -> [Msg -> Nat]]
ProcessType ==
  /\ phase \in [Workers -> Phases]
  /\ linked \subseteq Workers
  /\ overdue \subseteq Workers
  /\ failed \in [Workers -> SUBSET Msg]
  /\ again \subseteq Avatars
FaultType   == faults \in 0..MaxFaults

AllTypes ==
  BrokerType /\ ReadyType /\ WaitingType /\ ProcessType /\ BufferType /\ HandType /\ FaultType

LEMMA ByType == DeliveryTypeOK <=> AllTypes
BY DEF DeliveryTypeOK, AllTypes, BrokerType, ReadyType, WaitingType, ProcessType, BufferType,
       HandType, HandRecord, FaultType

LEMMA NothingElse ==
  ASSUME AllTypes
  PROVE  /\ UNCHANGED <<published, gone, dead>> => BrokerType'
         /\ UNCHANGED ready => ReadyType'
         /\ UNCHANGED waiting => WaitingType'
         /\ UNCHANGED processVars => ProcessType'
         /\ UNCHANGED buffer => BufferType'
         /\ UNCHANGED hand => HandType'
         /\ UNCHANGED faults => FaultType'
BY DEF AllTypes, BrokerType, ReadyType, WaitingType, ProcessType, BufferType,
       HandType, HandRecord, FaultType, processVars, historyVars

LEMMA DeliveryFaultTyped ==
  ASSUME FaultType, NEW kind, DeliveryFault(kind)
  PROVE  FaultType' /\ faults' = faults + 1
BY DeliveryFaultAssumption DEF DeliveryFault, FaultType

\* A message of the loop for uploads.
LEMMA InHandTyped ==
  ASSUME HandType, NEW w \in Workers, NEW q \in Queues, hand[w][q].pc # "idle"
  PROVE  /\ hand[w][q].msg \in Msg
         /\ hand[w][q].msg.avatar \in Avatars
         /\ hand[w][q].msg.retry \in 0..MaxRetry
BY DEF HandType, HandRecord, Msg

LEMMA Phased ==
  ASSUME ProcessType, NEW w \in Workers, NEW to \in Phases, Goes(w, to)
  PROVE  /\ phase' \in [Workers -> Phases]
         /\ phase'[w] = to
         /\ \A v \in Workers \ {w} : phase'[v] = phase[v]
BY DEF ProcessType, Goes

LEMMA BrokerTyped ==
  ASSUME AllTypes, BrokerStep
  PROVE  AllTypes'
<1> USE DEF AllTypes
<1>0. ASSUME NEW a \in Avatars, SoftDelete(a) PROVE AllTypes'
  <2>1. BrokerType'
    BY <1>0 DEF SoftDelete, BrokerType
  <2> QED BY <1>0, <2>1, NothingElse DEF SoftDelete
<1>1. ASSUME NEW q \in Queues, NEW a \in Avatars, PublishEvent(q, a)
      PROVE  AllTypes'
  <2> DEFINE m == [avatar |-> a, retry |-> 0]
  <2>1. m \in Msg
    BY DeliveryRetryAssumption DEF Msg
  <2>2. PutsReady(q, m)
    BY <1>1 DEF PublishEvent, PutsReady
  <2> HIDE DEF m
  <2>3. ReadyType'
    BY <2>1, <2>2, ReadyPut
  <2>4. BrokerType'
    BY <1>1 DEF PublishEvent, BrokerType
  <2>5. UNCHANGED <<waiting, processVars, buffer, hand, faults>>
    BY <1>1 DEF PublishEvent
  <2> QED BY <2>3, <2>4, <2>5, NothingElse
<1>2. ASSUME NEW w \in Workers, NEW q \in Queues, NEW m \in Msg, Push(w, q, m)
      PROVE  AllTypes'
  <2>1. ready[q][m] > 0 /\ ready' = [ready EXCEPT ![q] = Take(@, m)]
    BY <1>2 DEF Push
  <2>2. ReadyType'
    BY <2>1, ReadyTake
  <2>3. SetsBuffer(w, q, Append(buffer[w][q], m))
    BY <1>2 DEF Push, SetsBuffer
  <2>4. Append(buffer[w][q], m) \in Seq(Msg)
    BY DEF BufferType
  <2>5. BufferType'
    BY <2>3, <2>4, BufferSet
  <2>6. UNCHANGED <<published, gone, waiting, dead, processVars, hand, faults>>
    BY <1>2 DEF Push
  <2> QED BY <2>2, <2>5, <2>6, NothingElse
<1>3. ASSUME NEW l \in 1..MaxRetry, NEW m \in Msg, Expire(l, m)
      PROVE  AllTypes'
  <2>1. PutsReady("upload", m) /\ "upload" \in Queues
    BY <1>3 DEF Expire, Queues, PutsReady
  <2>2. ReadyType'
    BY <2>1, ReadyPut
  <2>3. WaitingType'
    BY <1>3 DEF Expire, Take, WaitingType
  <2>4. UNCHANGED <<published, gone, dead, processVars, buffer, hand, faults>>
    BY <1>3 DEF Expire
  <2> QED BY <2>2, <2>3, <2>4, NothingElse
<1> QED BY <1>0, <1>1, <1>2, <1>3 DEF BrokerStep

\* A step of a loop that moves its delivery on, and leaves queues alone but
\* for what the step says of them.
LEMMA MovesOn ==
  ASSUME AllTypes, NEW w \in Workers, NEW q \in Queues, NEW pc \in HandPc \ {"idle"},
         hand[w][q].pc # "idle", HandGoes(w, q, pc), UNCHANGED <<ready, buffer>>,
         UNCHANGED processVars \/ ProcessType',
         UNCHANGED waiting \/ WaitingType', UNCHANGED <<published, gone, dead>> \/ BrokerType',
         UNCHANGED faults \/ FaultType'
  PROVE  AllTypes'
<1>1. HandType'
  BY HandMoves DEF AllTypes
<1> QED BY <1>1, NothingElse DEF AllTypes

LEMMA SetsDown ==
  ASSUME AllTypes, NEW w \in Workers, NEW q \in Queues, hand' = [hand EXCEPT ![w][q] = Idle],
         UNCHANGED <<published, gone, waiting, dead, processVars, buffer>>,
         UNCHANGED ready \/ ReadyType', UNCHANGED faults \/ FaultType'
  PROVE  AllTypes'
<1>1. SetsHand(w, q, Idle)
  BY DEF SetsHand
<1>2. HandType'
  BY <1>1, HandSet, IdleRecord DEF AllTypes
<1> QED BY <1>2, NothingElse DEF AllTypes

LEMMA LoopTyped ==
  ASSUME AllTypes, NEW w \in Workers, LoopStep(w)
  PROVE  AllTypes'
<1> USE DEF AllTypes
<1>0. "upload" \in Queues /\ "delete" \in Queues
      /\ {"handling", "failed", "mark", "ack"} \subseteq HandPc \ {"idle"}
  BY DEF Queues, HandPc
<1>1. ASSUME NEW q \in Queues, TakeNext(w, q) PROVE AllTypes'
  <2> DEFINE h == [pc |-> "handling", msg |-> Head(buffer[w][q])]
  <2>1. Head(buffer[w][q]) \in Msg /\ Tail(buffer[w][q]) \in Seq(Msg)
    BY <1>1 DEF TakeNext, BufferType
  <2>2. h \in HandRecord /\ h.pc # "idle" /\ h.msg # NoMsg
    BY <2>1, DeliveryNoMsgAssumption DEF HandRecord, HandPc
  <2>3. SetsHand(w, q, h) /\ SetsBuffer(w, q, Tail(buffer[w][q]))
    BY <1>1 DEF TakeNext, SetsHand, SetsBuffer
  <2> HIDE DEF h
  <2>4. HandType' /\ BufferType'
    BY <2>1, <2>2, <2>3, HandSet, BufferSet
  <2>5. UNCHANGED <<published, gone, ready, waiting, dead, processVars, faults>>
    BY <1>1 DEF TakeNext, brokerVars
  <2> QED BY <2>4, <2>5, NothingElse
<1>2. ASSUME NEW q \in Queues, Ack(w, q) PROVE AllTypes'
  BY <1>2, SetsDown DEF Ack, brokerVars
<1>3. CASE HandlerSucceeds(w)
  BY <1>0, <1>3, MovesOn DEF HandlerSucceeds, brokerVars
<1>4. CASE HandlerFails(w)
  <2> DEFINE n == hand[w]["upload"].msg
  <2>1. n \in Msg /\ n.avatar \in Avatars
    BY <1>0, <1>4, InHandTyped DEF HandlerFails
  <2>2. UNCHANGED historyVars \/ Remembers(w, n)
    BY <1>4 DEF HandlerFails
  <2> HIDE DEF n
  <2>3. UNCHANGED <<phase, linked, overdue>>
    BY <1>4 DEF HandlerFails
  <2>4. failed' \in [Workers -> SUBSET Msg] /\ again' \subseteq Avatars
    BY <2>1, <2>2 DEF Remembers, ProcessType, historyVars
  <2>5. ProcessType'
    BY <2>3, <2>4 DEF ProcessType
  <2> QED BY <1>0, <1>4, <2>5, MovesOn, DeliveryFaultTyped DEF HandlerFails, brokerVars
<1>5. CASE DeleteHandled(w)
  BY <1>0, <1>5, MovesOn DEF DeleteHandled, brokerVars
<1>6. CASE PublishRetry(w)
  <2> DEFINE m    == hand[w]["upload"].msg
             next == [m EXCEPT !.retry = @ + 1]
  <2>1. m \in Msg /\ m.retry < MaxRetry
    BY <1>0, <1>6, InHandTyped DEF PublishRetry
  <2>2. next \in Msg /\ next.retry \in 1..MaxRetry
    BY <2>1, DeliveryRetryAssumption DEF Msg
  <2>3. waiting' = [waiting EXCEPT ![next.retry] = Put(@, next)]
    BY <1>6 DEF PublishRetry
  <2> HIDE DEF m, next
  <2>4. WaitingType'
    BY <2>2, <2>3 DEF WaitingType, Put
  <2> QED BY <1>0, <1>6, <2>4, MovesOn DEF PublishRetry
<1>7. CASE PublishToDLQ(w)
  <2>1. BrokerType'
    BY <1>0, <1>7, InHandTyped DEF PublishToDLQ, BrokerType
  <2> QED BY <1>0, <1>7, <2>1, MovesOn DEF PublishToDLQ
<1>8. CASE MarkFailed(w)
  BY <1>0, <1>8, MovesOn DEF MarkFailed, brokerVars
<1>9. CASE Requeue(w)
  <2>1. hand[w]["upload"].msg \in Msg
    BY <1>0, <1>9, InHandTyped DEF Requeue
  <2>2. PutsReady("upload", hand[w]["upload"].msg)
    BY <1>9 DEF Requeue, PutsReady
  <2>3. ReadyType'
    BY <1>0, <2>1, <2>2, ReadyPut
  <2> QED BY <1>0, <1>9, <2>3, SetsDown, DeliveryFaultTyped DEF Requeue
<1>10. CASE GiveUp(w)
  BY <1>0, <1>10, SetsDown DEF GiveUp, brokerVars
<1> QED BY <1>1, <1>2, <1>3, <1>4, <1>5, <1>6, <1>7, <1>8, <1>9, <1>10 DEF LoopStep

\* Idles(w) is what the end of process w does to its loops.
Idles(w) == hand' = [hand EXCEPT ![w] = [q \in Queues |-> Idle]]

LEMMA HandsIdle ==
  ASSUME HandType, NEW w \in Workers, Idles(w)
  PROVE  /\ HandType'
         /\ \A q \in Queues : hand'[w][q] = Idle
         /\ \A v \in Workers \ {w} : hand'[v] = hand[v]
<1> DEFINE idle == [q \in Queues |-> Idle]
<1>1. idle \in [Queues -> HandRecord] /\ \A q \in Queues : idle[q] = Idle
  BY IdleRecord
<1>2. hand' = [hand EXCEPT ![w] = idle]
  BY DEF Idles
<1> HIDE DEF idle
<1>3. hand' \in [Workers -> [Queues -> HandRecord]] /\ hand'[w] = idle
      /\ \A v \in Workers \ {w} : hand'[v] = hand[v]
  BY <1>1, <1>2 DEF HandType
<1>4. \A v \in Workers, q \in Queues : hand'[v][q].pc = "idle" <=> hand'[v][q].msg = NoMsg
  BY <1>1, <1>3, IdleRecord DEF HandType
<1> QED BY <1>1, <1>3, <1>4 DEF HandType

LEMMA EndTyped ==
  ASSUME AllTypes, NEW w \in Workers, Ends(w), UNCHANGED faults \/ FaultType'
  PROVE  AllTypes'
<1>1. ReadyType' /\ BufferType'
  BY TakesBack DEF Ends, AllTypes
<1>2. HandType'
  BY HandsIdle DEF Ends, Idles, AllTypes
<1>3. phase' \in [Workers -> Phases]
  BY Phased DEF Ends, AllTypes, Phases
<1>4. ProcessType'
  BY <1>3 DEF Ends, AllTypes, ProcessType
<1>5. UNCHANGED <<published, gone, dead, waiting>>
  BY DEF Ends
<1> QED BY <1>1, <1>2, <1>4, <1>5, NothingElse DEF AllTypes

\* A step of Run that waits for a loop, or for nothing.
LEMMA PhaseTyped ==
  ASSUME AllTypes, NEW w \in Workers, NEW to \in Phases, Goes(w, to),
         UNCHANGED <<brokerVars, linked, historyVars, buffer, hand>>,
         UNCHANGED overdue \/ overdue' = overdue \cup {w},
         UNCHANGED faults \/ FaultType'
  PROVE  AllTypes'
<1>1. phase' \in [Workers -> Phases]
  BY Phased DEF AllTypes
<1>2. ProcessType'
  BY <1>1 DEF AllTypes, ProcessType, historyVars
<1>3. UNCHANGED <<published, gone, dead, ready, waiting>>
  BY DEF brokerVars
<1> QED BY <1>2, <1>3, NothingElse DEF AllTypes

LEMMA ProcessTyped ==
  ASSUME AllTypes, NEW w \in Workers,
         RunStep(w) \/ Signal(w) \/ StartFails(w) \/ Crash(w) \/ Disconnect(w)
  PROVE  AllTypes'
<1>0. FaultType /\ Phases = {"down", "consuming", "running", "signalled", "cancelled",
                             "waitUpload", "waitDelete", "closing"}
  BY DEF AllTypes, Phases
<1>1. CASE StartUploadConsumer(w)
  BY <1>0, <1>1, PhaseTyped DEF StartUploadConsumer
<1>2. CASE StartDeleteConsumer(w)
  BY <1>0, <1>2, PhaseTyped DEF StartDeleteConsumer
<1>3. CASE CancelUpload(w)
  BY <1>0, <1>3, PhaseTyped DEF CancelUpload
<1>4. CASE CancelDelete(w)
  BY <1>0, <1>4, PhaseTyped DEF CancelDelete
<1>5. CASE WaitForUploads(w)
  BY <1>0, <1>5, PhaseTyped DEF WaitForUploads, WaitForLoop
<1>6. CASE WaitForDeletes(w)
  BY <1>0, <1>6, PhaseTyped DEF WaitForDeletes, WaitForLoop
<1>7. CASE Return(w)
  BY <1>7, EndTyped DEF Return
<1>8. CASE Signal(w)
  BY <1>0, <1>8, PhaseTyped, DeliveryFaultTyped DEF Signal
<1>9. CASE StartFails(w) \/ Crash(w)
  BY <1>0, <1>9, EndTyped, DeliveryFaultTyped DEF StartFails, Crash
<1>10. CASE Disconnect(w)
  <2>1. ReadyType' /\ BufferType'
    BY <1>10, TakesBack DEF Disconnect, AllTypes
  <2>2. ProcessType'
    BY <1>10 DEF Disconnect, AllTypes, ProcessType, historyVars
  <2>3. FaultType' /\ UNCHANGED <<published, gone, dead, waiting, hand>>
    BY <1>0, <1>10, DeliveryFaultTyped DEF Disconnect
  <2> QED BY <2>1, <2>2, <2>3, NothingElse DEF AllTypes
<1> QED BY <1>1, <1>2, <1>3, <1>4, <1>5, <1>6, <1>7, <1>8, <1>9, <1>10 DEF RunStep

LEMMA StartTyped == DeliveryInit => AllTypes
<1> SUFFICES ASSUME DeliveryInit PROVE AllTypes
  OBVIOUS
<1>1. BrokerType /\ ReadyType /\ WaitingType
  BY DEF DeliveryInit, BrokerType, ReadyType, WaitingType, NoMessages
<1>2. ProcessType /\ FaultType
  BY DeliveryFaultAssumption DEF DeliveryInit, ProcessType, FaultType, Phases
<1>3. BufferType
  BY DEF DeliveryInit, BufferType
<1>4. HandType
  BY IdleRecord DEF DeliveryInit, HandType
<1> QED BY <1>1, <1>2, <1>3, <1>4 DEF AllTypes

LEMMA StepTyped == AllTypes /\ [DeliveryNext]_deliveryVars => AllTypes'
<1> SUFFICES ASSUME AllTypes, [DeliveryNext]_deliveryVars PROVE AllTypes'
  OBVIOUS
<1>1. CASE UNCHANGED deliveryVars
  BY <1>1, NothingElse DEF AllTypes, deliveryVars, brokerVars
<1> QED BY <1>1, BrokerTyped, LoopTyped, ProcessTyped DEF DeliveryNext

\* Queues, buffers and loops hold well-formed messages only, and a loop is idle
\* exactly when it holds none: for any number of workers, levels and faults.
THEOREM DeliveryTypeCorrect == Delivery => []DeliveryTypeOK
<1>1. Delivery => []AllTypes
  BY StartTyped, StepTyped, PTL DEF Delivery
<1>2. AllTypes => DeliveryTypeOK
  BY ByType
<1> QED BY <1>1, <1>2, PTL

---------------------------------------------------------------------------
(* An orderly stop: what a process that waited for its loops has done *)

\* The inductive form of CleanDrain: the broker pushes nothing to a cancelled
\* consumer, so that its loop, once it has ended, has ended for good.
Drained(w) ==
  w \notin overdue =>
    /\ phase[w] \in {"waitDelete", "closing"} => LoopEnds(w, "upload")
    /\ phase[w] = "closing" => LoopEnds(w, "delete")

AllDrained == \A w \in Workers : Drained(w)

LEMMA LoopStaysEnded ==
  ASSUME AllTypes, NEW w \in Workers, LoopStep(w), NEW v \in Workers, NEW q \in Queues,
         LoopEnds(v, q)
  PROVE  LoopEnds(v, q)'
<1> USE DEF AllTypes
<1>0. /\ "upload" \in Queues /\ "delete" \in Queues
      /\ {"handling", "failed", "mark", "ack"} \subseteq HandPc \ {"idle"}
      /\ buffer[v][q] = <<>> /\ hand[v][q].pc = "idle"
  BY DEF Queues, HandPc, LoopEnds
<1> SUFFICES buffer'[v][q] = <<>> /\ hand'[v][q].pc = "idle"
  BY DEF LoopEnds
\* A step that moves w's loop over p on, or ends it, found it busy.
<1>a. ASSUME NEW p \in Queues, NEW pc \in HandPc \ {"idle"}, hand[w][p].pc # "idle",
             HandGoes(w, p, pc)
      PROVE  hand'[v][q].pc = "idle"
  BY <1>0, <1>a, HandMoves
<1>b. ASSUME NEW p \in Queues, hand' = [hand EXCEPT ![w][p] = Idle]
      PROVE  hand'[v][q].pc = "idle"
  <2>1. SetsHand(w, p, Idle)
    BY <1>b DEF SetsHand
  <2> QED BY <1>0, <2>1, HandSet, IdleRecord
<1>1. ASSUME NEW p \in Queues, TakeNext(w, p)
      PROVE  buffer'[v][q] = <<>> /\ hand'[v][q].pc = "idle"
  <2>1. <<w, p>> # <<v, q>>
    BY <1>0, <1>1 DEF TakeNext
  <2>2. /\ buffer' = [buffer EXCEPT ![w][p] = Tail(@)]
        /\ hand' = [hand EXCEPT ![w][p] = [pc |-> "handling", msg |-> Head(buffer[w][p])]]
    BY <1>1 DEF TakeNext
  <2> QED BY <1>0, <2>1, <2>2 DEF BufferType, HandType
<1>2. ASSUME NEW p \in Queues, Ack(w, p)
      PROVE  buffer'[v][q] = <<>> /\ hand'[v][q].pc = "idle"
  BY <1>0, <1>2, <1>b DEF Ack
<1>3. CASE HandlerSucceeds(w)
  BY <1>0, <1>3, <1>a DEF HandlerSucceeds
<1>4. CASE HandlerFails(w)
  BY <1>0, <1>4, <1>a DEF HandlerFails
<1>5. CASE DeleteHandled(w)
  BY <1>0, <1>5, <1>a DEF DeleteHandled
<1>6. CASE PublishRetry(w)
  BY <1>0, <1>6, <1>a DEF PublishRetry
<1>7. CASE PublishToDLQ(w)
  BY <1>0, <1>7, <1>a DEF PublishToDLQ
<1>8. CASE MarkFailed(w)
  BY <1>0, <1>8, <1>a DEF MarkFailed
<1>9. CASE Requeue(w) \/ GiveUp(w)
  BY <1>0, <1>9, <1>b DEF Requeue, GiveUp
<1> QED BY <1>1, <1>2, <1>3, <1>4, <1>5, <1>6, <1>7, <1>8, <1>9 DEF LoopStep

LEMMA BrokerDrained ==
  ASSUME AllTypes, AllDrained, BrokerStep
  PROVE  AllDrained'
<1> SUFFICES ASSUME NEW v \in Workers, Drained(v) PROVE Drained(v)'
  BY DEF AllDrained
<1>0. UNCHANGED <<phase, overdue, hand>>
  BY DEF BrokerStep, SoftDelete, PublishEvent, Push, Expire, processVars
<1>1. CASE UNCHANGED buffer
  BY <1>0, <1>1 DEF Drained, LoopEnds
<1>2. ASSUME NEW w \in Workers, NEW q \in Queues, NEW m \in Msg, Push(w, q, m)
      PROVE  Drained(v)'
  <2>1. Consumes(w, q) /\ buffer' = [buffer EXCEPT ![w][q] = Append(@, m)]
    BY <1>2 DEF Push
  <2>2. \A p \in Queues : <<v, p>> # <<w, q>> => buffer'[v][p] = buffer[v][p]
    BY <2>1 DEF AllTypes, BufferType
  <2>3. phase[w] # "closing" /\ (q = "upload" => phase[w] # "waitDelete")
    BY <2>1 DEF Consumes
  <2> QED BY <1>0, <2>2, <2>3 DEF Drained, LoopEnds, Queues
<1>3. CASE \E w \in Workers, q \in Queues, m \in Msg : Push(w, q, m)
  BY <1>2, <1>3
<1> QED BY <1>1, <1>3 DEF BrokerStep, SoftDelete, PublishEvent, Expire

LEMMA LoopDrained ==
  ASSUME AllTypes, AllDrained, NEW w \in Workers, LoopStep(w)
  PROVE  AllDrained'
<1> SUFFICES ASSUME NEW v \in Workers, Drained(v) PROVE Drained(v)'
  BY DEF AllDrained
<1>1. UNCHANGED <<phase, overdue>>
  BY DEF LoopStep, TakeNext, Ack, HandlerSucceeds, HandlerFails, DeleteHandled, PublishRetry,
         PublishToDLQ, MarkFailed, Requeue, GiveUp, processVars
<1>2. \A q \in Queues : LoopEnds(v, q) => LoopEnds(v, q)'
  BY LoopStaysEnded
<1> QED BY <1>1, <1>2 DEF Drained, Queues

\* A phase step of w that leaves its deliveries alone.
LEMMA PhaseDrained ==
  ASSUME AllTypes, AllDrained, NEW w \in Workers, NEW to \in Phases, Goes(w, to),
         UNCHANGED <<buffer, hand>>,
         overdue \subseteq overdue', overdue' \subseteq overdue \cup {w},
         to = "waitDelete" => w \in overdue' \/ LoopEnds(w, "upload"),
         to = "closing" => phase[w] = "waitDelete" /\ (w \in overdue' \/ LoopEnds(w, "delete"))
  PROVE  AllDrained'
<1> SUFFICES ASSUME NEW v \in Workers, Drained(v) PROVE Drained(v)'
  BY DEF AllDrained
<1>1. phase'[w] = to /\ \A u \in Workers \ {w} : phase'[u] = phase[u]
  BY Phased DEF AllTypes
<1>2. CASE v = w
  BY <1>1, <1>2 DEF Drained, LoopEnds
<1>3. CASE v # w
  BY <1>1, <1>3 DEF Drained, LoopEnds
<1> QED BY <1>2, <1>3

LEMMA EndDrained ==
  ASSUME AllTypes, AllDrained, NEW w \in Workers, Ends(w)
  PROVE  AllDrained'
<1> SUFFICES ASSUME NEW v \in Workers, Drained(v) PROVE Drained(v)'
  BY DEF AllDrained
<1>1. phase'[w] = "down" /\ \A u \in Workers \ {w} : phase'[u] = phase[u]
  BY Phased DEF AllTypes, Ends, Phases
<1>2. \A u \in Workers \ {w} : buffer'[u] = buffer[u]
  BY TakesBack DEF AllTypes, Ends
<1>3. \A u \in Workers \ {w} : hand'[u] = hand[u]
  BY HandsIdle DEF AllTypes, Ends, Idles
<1>4. overdue' = overdue \ {w}
  BY DEF Ends
<1> QED BY <1>1, <1>2, <1>3, <1>4 DEF Drained, LoopEnds

LEMMA ProcessDrained ==
  ASSUME AllTypes, AllDrained, NEW w \in Workers,
         RunStep(w) \/ Signal(w) \/ StartFails(w) \/ Crash(w) \/ Disconnect(w)
  PROVE  AllDrained'
<1>0. {"consuming", "running", "signalled", "cancelled", "waitUpload", "waitDelete", "closing"}
        \subseteq Phases
  BY DEF Phases
<1>1. CASE \/ StartUploadConsumer(w) \/ StartDeleteConsumer(w) \/ Signal(w)
           \/ CancelUpload(w) \/ CancelDelete(w)
  BY <1>0, <1>1, PhaseDrained
     DEF StartUploadConsumer, StartDeleteConsumer, Signal, CancelUpload, CancelDelete
<1>2. CASE WaitForUploads(w)
  BY <1>0, <1>2, PhaseDrained DEF WaitForUploads, WaitForLoop
<1>3. CASE WaitForDeletes(w)
  BY <1>0, <1>3, PhaseDrained DEF WaitForDeletes, WaitForLoop
<1>4. CASE Return(w) \/ StartFails(w) \/ Crash(w)
  BY <1>4, EndDrained DEF Return, StartFails, Crash
<1>5. CASE Disconnect(w)
  <2> SUFFICES ASSUME NEW v \in Workers, Drained(v) PROVE Drained(v)'
    BY DEF AllDrained
  <2>1. UNCHANGED <<phase, overdue, hand>>
    BY <1>5 DEF Disconnect
  <2>2. \A q \in Queues : buffer'[v][q] = buffer[v][q] \/ buffer'[v][q] = <<>>
    BY <1>5, TakesBack DEF Disconnect, AllTypes
  <2> QED BY <2>1, <2>2 DEF Drained, LoopEnds, Queues
<1> QED BY <1>1, <1>2, <1>3, <1>4, <1>5 DEF RunStep

LEMMA StepDrained == AllTypes /\ AllDrained /\ [DeliveryNext]_deliveryVars => AllDrained'
<1> SUFFICES ASSUME AllTypes, AllDrained, [DeliveryNext]_deliveryVars PROVE AllDrained'
  OBVIOUS
<1>1. CASE UNCHANGED deliveryVars
  BY <1>1 DEF deliveryVars, processVars, AllDrained, Drained, LoopEnds
<1> QED BY <1>1, BrokerDrained, LoopDrained, ProcessDrained DEF DeliveryNext

\* A process whose Run returns without a drain timeout has acknowledged all that
\* it got, whatever the broker pushed while it stopped.
THEOREM CleanStop == Delivery => []CleanDrain
<1>1. DeliveryInit => AllDrained
  BY DEF DeliveryInit, AllDrained, Drained
<1>2. Delivery => []AllDrained
  BY <1>1, StartTyped, StepTyped, StepDrained, PTL DEF Delivery
<1>3. AllDrained => CleanDrain
  BY DEF AllDrained, Drained, CleanDrain, Queues
<1> QED BY <1>2, <1>3, PTL

---------------------------------------------------------------------------
(* What it takes to dead-letter an event *)

\* Between the signal and Cancel a process still gets events, with its context
\* cancelled already: each such process stands for a fault that may still have
\* to pay for the failure of an event that is in no handler yet.
Signalled == {v \in Workers : phase[v] = "signalled"}

\* Of attempt r of a's event it does not when the process has failed an earlier
\* attempt so: what it fails now is excused.
Charges(a, r) == {v \in Signalled : ~FailedBefore(v, a, r)}

\* The same for an attempt that process w has got.
AtRisk(w, a, r) == Charges(a, r) \cup IF Alive(w) \/ FailedBefore(w, a, r) THEN {} ELSE {w}

Pays(n, M) == faults >= n + Cardinality(M)

FairMsg == {m \in Msg : m.avatar \notin Poison \cup gone \cup again}

Queued(m)    == ready["upload"][m] > 0 \/ \E l \in 1..MaxRetry : waiting[l][m] > 0
Failed(w, m) == hand[w]["upload"].pc = "failed" /\ hand[w]["upload"].msg = m

\* Every attempt that an event's header counts, and every failure or signal that
\* may still become one, is a fault of its own.
QueuedPaid == \A m \in FairMsg : Queued(m) => Pays(m.retry, Charges(m.avatar, m.retry))
FetchedPaid ==
  \A w \in Workers, m \in FairMsg :
    Fetched(w, "upload", m) => Pays(m.retry, AtRisk(w, m.avatar, m.retry))
FailedPaid ==
  \A w \in Workers, m \in FairMsg :
    Failed(w, m) => Pays(m.retry + 1, Charges(m.avatar, m.retry + 1))

Paid ==
  /\ Pays(0, Signalled)
  /\ QueuedPaid
  /\ FetchedPaid
  /\ FailedPaid
  /\ DeadLetteredForCause

\* Every number of faults that covers a set covers its subsets.
LEMMA PaysLess ==
  ASSUME NEW M, NEW L \in SUBSET M, IsFiniteSet(M), NEW n \in Nat, NEW f \in Nat,
         f >= n + Cardinality(M)
  PROVE  f >= n + Cardinality(L)
<1>1. Cardinality(L) \in Nat /\ Cardinality(M) \in Nat /\ Cardinality(L) <= Cardinality(M)
  BY FS_Subset, FS_CardinalityType
<1> QED BY <1>1

\* The accounts are sets of workers, and what w has got has all the charges of
\* what is queued; they are the same while the broker pushes to w.
LEMMA Accounts ==
  ASSUME NEW a, NEW r \in Nat
  PROVE  /\ Signalled \subseteq Workers /\ Charges(a, r) \subseteq Signalled
         /\ \A w \in Workers : AtRisk(w, a, r) \subseteq Workers
         /\ \A w \in Workers : Charges(a, r) \subseteq AtRisk(w, a, r)
         /\ \A w \in Workers : ~Alive(w) /\ ~FailedBefore(w, a, r) => w \in AtRisk(w, a, r)
         /\ \A w \in Workers : Consumes(w, "upload") => AtRisk(w, a, r) = Charges(a, r)
BY DEF Signalled, Charges, AtRisk, Consumes, Alive

\* A process that has failed an attempt is no charge on the later ones.
LEMMA LaterCharges ==
  ASSUME AllTypes, NEW a \in Avatars, NEW r \in Nat
  PROVE  Charges(a, r + 1) \subseteq Charges(a, r)
<1>1. ASSUME NEW v \in Workers, FailedBefore(v, a, r) PROVE FailedBefore(v, a, r + 1)
  <2>1. PICK n \in failed[v] : n.avatar = a /\ n.retry < r
    BY <1>1 DEF FailedBefore
  <2>2. n.retry \in Nat
    BY <2>1, DeliveryRetryAssumption DEF AllTypes, ProcessType, Msg
  <2>3. n.retry < r + 1
    BY <2>1, <2>2
  <2> QED BY <2>1, <2>3 DEF FailedBefore
<1> QED BY <1>1 DEF Charges, Signalled

\* While no process changes its phase or forgets, no account grows.
LEMMA SteadyAccounts ==
  ASSUME UNCHANGED phase, \A v \in Workers : failed[v] \subseteq failed'[v]
  PROVE  /\ Signalled' = Signalled
         /\ \A a \in Avatars, r \in Nat : Charges(a, r)' \subseteq Charges(a, r)
         /\ \A w \in Workers, a \in Avatars, r \in Nat :
              AtRisk(w, a, r)' \subseteq AtRisk(w, a, r)
<1>1. \A v \in Workers, a \in Avatars, r \in Nat : FailedBefore(v, a, r) => FailedBefore(v, a, r)'
  BY DEF FailedBefore
<1>2. Signalled' = Signalled /\ \A v \in Workers : Alive(v)' = Alive(v)
  BY DEF Signalled, Alive
<1>3. \A a \in Avatars, r \in Nat : Charges(a, r)' \subseteq Charges(a, r)
  BY <1>1, <1>2 DEF Charges, Signalled
<1> QED BY <1>1, <1>2, <1>3 DEF AtRisk

\* While no account grows, it is enough that every message is where it was, or
\* came from a place that had paid for it.
LEMMA KeepsPaid ==
  ASSUME IsFiniteSet(Workers), AllTypes, AllTypes', Paid, faults' >= faults,
         gone \subseteq gone', again \subseteq again', Signalled' \subseteq Signalled,
         \A a \in Avatars, r \in Nat : Charges(a, r)' \subseteq Charges(a, r),
         \A m \in FairMsg' : Queued(m)' =>
           \/ Queued(m)
           \/ m.retry = 0
           \/ \E w \in Workers : Fetched(w, "upload", m)
           \/ Pays(m.retry, Charges(m.avatar, m.retry)),
         \A w \in Workers, m \in FairMsg' : Fetched(w, "upload", m)' =>
           \/ /\ Fetched(w, "upload", m)
              /\ AtRisk(w, m.avatar, m.retry)' \subseteq AtRisk(w, m.avatar, m.retry)
           \/ /\ Queued(m)
              /\ AtRisk(w, m.avatar, m.retry)' \subseteq Charges(m.avatar, m.retry),
         \A w \in Workers, m \in FairMsg' : Failed(w, m)' =>
           Failed(w, m) \/ Pays(m.retry + 1, Charges(m.avatar, m.retry + 1))',
         \A a \in dead' : a \in dead \/ a \in Poison \cup gone' \cup again' \/ faults' > MaxRetry
  PROVE  Paid'
<1>0. /\ faults \in Nat /\ faults' \in Nat /\ MaxRetry \in Nat
      /\ \A m \in Msg : m.avatar \in Avatars /\ m.retry \in Nat /\ m.retry + 1 \in Nat
  BY DeliveryRetryAssumption, DeliveryFaultAssumption DEF AllTypes, FaultType, Msg
<1>1. FairMsg' \subseteq FairMsg /\ FairMsg \subseteq Msg
  BY DEF FairMsg
<1>2. ASSUME NEW S \in SUBSET Workers, NEW T \in SUBSET S, NEW n \in Nat, Pays(n, S)
      PROVE  faults' >= n + Cardinality(T)
  <2>1. IsFiniteSet(S) /\ IsFiniteSet(T)
    BY FS_Subset
  <2>2. faults >= n + Cardinality(T) /\ Cardinality(T) \in Nat
    BY <1>0, <1>2, <2>1, PaysLess, FS_CardinalityType DEF Pays
  <2> QED BY <1>0, <2>2
<1>3. Pays(0, Signalled)'
  BY <1>2, Accounts DEF Paid, Pays, Signalled
<1>4. QueuedPaid'
  <2> SUFFICES ASSUME NEW m \in FairMsg', Queued(m)'
               PROVE  faults' >= m.retry + Cardinality(Charges(m.avatar, m.retry)')
    BY DEF QueuedPaid, Pays
  <2> DEFINE C == Charges(m.avatar, m.retry)
  <2>1. m \in FairMsg /\ m.avatar \in Avatars /\ m.retry \in Nat
    BY <1>0, <1>1
  <2>2. /\ C' \subseteq C /\ C \subseteq Signalled /\ Signalled \subseteq Workers
        /\ \A w \in Workers : /\ AtRisk(w, m.avatar, m.retry) \subseteq Workers
                              /\ C \subseteq AtRisk(w, m.avatar, m.retry)
    BY <2>1, Accounts
  <2>3. Pays(m.retry, C) => faults' >= m.retry + Cardinality(C')
    <3> HIDE DEF C
    <3> QED BY <1>2, <2>1, <2>2
  <2>4. CASE Queued(m)
    BY <2>1, <2>3, <2>4 DEF Paid, QueuedPaid
  <2>5. CASE m.retry = 0
    <3>1. Pays(m.retry, Signalled)
      BY <2>5 DEF Paid
    <3> HIDE DEF C
    <3>2. faults' >= m.retry + Cardinality(C')
      BY <1>2, <2>1, <2>2, <3>1
    <3> QED BY <3>2 DEF C
  <2>6. ASSUME NEW w \in Workers, Fetched(w, "upload", m)
        PROVE  faults' >= m.retry + Cardinality(Charges(m.avatar, m.retry)')
    <3>1. Pays(m.retry, AtRisk(w, m.avatar, m.retry))
      BY <2>1, <2>6 DEF Paid, FetchedPaid
    <3> DEFINE R == AtRisk(w, m.avatar, m.retry)
    <3>2. Pays(m.retry, R) /\ R \subseteq Workers /\ C \subseteq R
      BY <2>2, <3>1
    <3> HIDE DEF C, R
    <3>3. faults' >= m.retry + Cardinality(C')
      BY <1>2, <2>1, <2>2, <3>2
    <3> QED BY <3>3 DEF C
  <2> QED BY <2>3, <2>4, <2>5, <2>6
<1>5. FetchedPaid'
  <2> SUFFICES ASSUME NEW w \in Workers, NEW m \in FairMsg', Fetched(w, "upload", m)'
               PROVE  faults' >= m.retry + Cardinality(AtRisk(w, m.avatar, m.retry)')
    BY DEF FetchedPaid, Pays
  <2> DEFINE C == Charges(m.avatar, m.retry)
             R == AtRisk(w, m.avatar, m.retry)
  <2>1. m \in FairMsg /\ m.avatar \in Avatars /\ m.retry \in Nat
    BY <1>0, <1>1
  <2>2. C \subseteq Workers /\ R \subseteq Workers
    BY <2>1, Accounts
  <2>3. \/ Fetched(w, "upload", m) /\ R' \subseteq R
        \/ Queued(m) /\ R' \subseteq C
    OBVIOUS
  <2>4. /\ Fetched(w, "upload", m) => Pays(m.retry, R)
        /\ Queued(m) => Pays(m.retry, C)
    BY <2>1 DEF Paid, FetchedPaid, QueuedPaid
  <2> HIDE DEF C, R
  <2>5. faults' >= m.retry + Cardinality(R')
    BY <1>2, <2>1, <2>2, <2>3, <2>4
  <2> QED BY <2>5 DEF R
<1>6. FailedPaid'
  <2> SUFFICES ASSUME NEW w \in Workers, NEW m \in FairMsg', Failed(w, m)', Failed(w, m)
               PROVE  faults' >= m.retry + 1 + Cardinality(Charges(m.avatar, m.retry + 1)')
    BY DEF FailedPaid, Pays
  <2> DEFINE C == Charges(m.avatar, m.retry + 1)
  <2>1. m \in FairMsg /\ m.avatar \in Avatars /\ m.retry + 1 \in Nat
    BY <1>0, <1>1
  <2>2. C' \subseteq C /\ C \subseteq Workers
    BY <2>1, Accounts
  <2>3. Pays(m.retry + 1, C)
    BY <2>1 DEF Paid, FailedPaid
  <2> HIDE DEF C
  <2>4. faults' >= m.retry + 1 + Cardinality(C')
    BY <1>2, <2>1, <2>2, <2>3
  <2> QED BY <2>4 DEF C
<1>7. DeadLetteredForCause'
  BY <1>0 DEF Paid, DeadLetteredForCause
<1> QED BY <1>3, <1>4, <1>5, <1>6, <1>7 DEF Paid

\* The case of a step in which no process changes its phase or forgets.
LEMMA SteadyPaid ==
  ASSUME IsFiniteSet(Workers), AllTypes, AllTypes', Paid, UNCHANGED phase, faults' >= faults,
         gone \subseteq gone', again \subseteq again',
         \A v \in Workers : failed[v] \subseteq failed'[v],
         \A m \in FairMsg' : Queued(m)' =>
           \/ Queued(m)
           \/ m.retry = 0
           \/ \E w \in Workers : Fetched(w, "upload", m)
           \/ Pays(m.retry, Charges(m.avatar, m.retry)),
         \A w \in Workers, m \in FairMsg' : Fetched(w, "upload", m)' =>
           Fetched(w, "upload", m) \/ (ready["upload"][m] > 0 /\ Consumes(w, "upload")),
         \A w \in Workers, m \in FairMsg' : Failed(w, m)' =>
           Failed(w, m) \/ Pays(m.retry + 1, Charges(m.avatar, m.retry + 1))',
         \A a \in dead' : a \in dead \/ a \in Poison \cup gone' \cup again' \/ faults' > MaxRetry
  PROVE  Paid'
<1>1. \A m \in FairMsg' : m.avatar \in Avatars /\ m.retry \in Nat
  BY DeliveryRetryAssumption DEF FairMsg, Msg
<1>2. /\ Signalled' = Signalled
      /\ \A a \in Avatars, r \in Nat : Charges(a, r)' \subseteq Charges(a, r)
      /\ \A w \in Workers, a \in Avatars, r \in Nat :
           AtRisk(w, a, r)' \subseteq AtRisk(w, a, r)
  BY SteadyAccounts
<1>3. ASSUME NEW w \in Workers, NEW m \in FairMsg', Fetched(w, "upload", m)'
      PROVE  \/ /\ Fetched(w, "upload", m)
                /\ AtRisk(w, m.avatar, m.retry)' \subseteq AtRisk(w, m.avatar, m.retry)
             \/ /\ Queued(m)
                /\ AtRisk(w, m.avatar, m.retry)' \subseteq Charges(m.avatar, m.retry)
  <2>1. AtRisk(w, m.avatar, m.retry)' \subseteq AtRisk(w, m.avatar, m.retry)
    BY <1>1, <1>2
  <2>2. CASE Fetched(w, "upload", m)
    BY <2>1, <2>2
  <2>3. CASE ready["upload"][m] > 0 /\ Consumes(w, "upload")
    <3>1. AtRisk(w, m.avatar, m.retry) = Charges(m.avatar, m.retry)
      BY <1>1, <2>3, Accounts
    <3> QED BY <2>1, <2>3, <3>1 DEF Queued
  <2> QED BY <1>3, <2>2, <2>3
<1> QED BY <1>2, <1>3, KeepsPaid

LEMMA BrokerPaid ==
  ASSUME IsFiniteSet(Workers), AllTypes, AllTypes', Paid, BrokerStep
  PROVE  Paid'
<1>a. UNCHANGED <<phase, faults, hand, dead, failed, again>> /\ gone \subseteq gone'
  BY DEF BrokerStep, SoftDelete, PublishEvent, Push, Expire, processVars, historyVars
<1>b. faults \in Nat /\ faults' >= faults /\ ReadyType /\ BufferType /\ "upload" \in Queues
  BY <1>a, DeliveryFaultAssumption DEF AllTypes, FaultType, Queues
<1>c. \A m \in FairMsg' : m \in Msg
  BY DEF FairMsg
<1>d. \A w \in Workers, m \in FairMsg' : Failed(w, m)' => Failed(w, m)
  BY <1>a DEF Failed
<1>0. /\ UNCHANGED phase /\ faults' >= faults /\ gone \subseteq gone' /\ again \subseteq again'
      /\ \A v \in Workers : failed[v] \subseteq failed'[v]
      /\ \A a \in dead' : a \in dead
  BY <1>a, <1>b
<1>1. UNCHANGED buffer =>
        \A w \in Workers, m \in FairMsg' : Fetched(w, "upload", m)' => Fetched(w, "upload", m)
  BY <1>a DEF Fetched
<1>e. ASSUME NEW q \in Queues, NEW n \in Msg, PutsReady(q, n)
      PROVE  \A m \in FairMsg' : ready'["upload"][m] > 0 => ready["upload"][m] > 0 \/ m = n
  <2>1. \A p \in Queues, m \in Msg : ready'[p][m] > 0 => ready[p][m] > 0 \/ m = n
    BY <1>b, <1>e, ReadyPut
  <2> QED BY <1>b, <1>c, <2>1
<1>f. ASSUME NEW a \in Avatars, SoftDelete(a)
      PROVE  Paid'
  <2>1. UNCHANGED <<ready, waiting, buffer>>
    BY <1>f DEF SoftDelete
  <2>2. \A m \in FairMsg' : Queued(m)' => Queued(m)
    BY <2>1 DEF Queued
  <2> QED BY <1>0, <1>1, <1>d, <2>1, <2>2, SteadyPaid
<1>2. ASSUME NEW q \in Queues, NEW a \in Avatars, PublishEvent(q, a)
      PROVE  Paid'
  <2> DEFINE n == [avatar |-> a, retry |-> 0]
  <2>1. n \in Msg /\ n.retry = 0
    BY DeliveryRetryAssumption DEF Msg
  <2>2. PutsReady(q, n) /\ UNCHANGED <<waiting, buffer>>
    BY <1>2 DEF PublishEvent, PutsReady
  <2> HIDE DEF n
  <2>3. \A m \in FairMsg' : Queued(m)' => Queued(m) \/ m.retry = 0
    BY <1>e, <2>1, <2>2 DEF Queued
  <2> QED BY <1>0, <1>1, <1>d, <2>2, <2>3, SteadyPaid
<1>3. ASSUME NEW v \in Workers, NEW q \in Queues, NEW n \in Msg, Push(v, q, n)
      PROVE  Paid'
  <2>1. /\ Consumes(v, q) /\ ready[q][n] > 0
        /\ ready' = [ready EXCEPT ![q] = Take(@, n)]
        /\ SetsBuffer(v, q, Append(buffer[v][q], n))
        /\ UNCHANGED waiting
    BY <1>3 DEF Push, SetsBuffer
  <2>2. \A m \in FairMsg' : Queued(m)' => Queued(m)
    <3>1. \A m \in Msg : ready'["upload"][m] > 0 => ready["upload"][m] > 0
      BY <1>b, <2>1, ReadyTake
    <3> QED BY <1>c, <2>1, <3>1 DEF Queued
  <2>3. /\ Append(buffer[v][q], n) \in Seq(Msg)
        /\ \A i \in 1..Len(Append(buffer[v][q], n)) :
             \/ Append(buffer[v][q], n)[i] = n
             \/ i \in 1..Len(buffer[v][q]) /\ Append(buffer[v][q], n)[i] = buffer[v][q][i]
    BY <1>b DEF BufferType
  <2>4. /\ buffer'[v][q] = Append(buffer[v][q], n)
        /\ \A u \in Workers, p \in Queues : <<u, p>> # <<v, q>> => buffer'[u][p] = buffer[u][p]
    BY <1>b, <2>1, <2>3, BufferSet
  <2>5. ASSUME NEW w \in Workers, NEW m \in FairMsg', Fetched(w, "upload", m)'
        PROVE  Fetched(w, "upload", m) \/ (ready["upload"][m] > 0 /\ Consumes(w, "upload"))
    <3>1. CASE <<w, "upload">> = <<v, q>>
      <4>1. w = v /\ q = "upload"
        BY <3>1
      <4>2. hand'[w]["upload"] = hand[w]["upload"]
        BY <1>a
      <4>3. CASE hand'[w]["upload"].msg = m
        BY <4>2, <4>3 DEF Fetched
      <4>4. CASE \E i \in 1..Len(buffer'[w]["upload"]) : buffer'[w]["upload"][i] = m
        <5>1. PICK i \in 1..Len(Append(buffer[v][q], n)) : Append(buffer[v][q], n)[i] = m
          BY <2>4, <4>1, <4>4
        <5>2. CASE m = n
          BY <2>1, <4>1, <5>2
        <5>3. CASE i \in 1..Len(buffer[v][q]) /\ Append(buffer[v][q], n)[i] = buffer[v][q][i]
          BY <4>1, <5>1, <5>3 DEF Fetched
        <5> QED BY <2>3, <5>1, <5>2, <5>3
      <4> QED BY <2>5, <4>3, <4>4 DEF Fetched
    <3>2. CASE <<w, "upload">> # <<v, q>>
      <4>1. buffer'[w]["upload"] = buffer[w]["upload"]
        BY <1>b, <2>4, <3>2
      <4> QED BY <1>a, <2>5, <4>1 DEF Fetched
    <3> QED BY <3>1, <3>2
  <2> QED BY <1>0, <1>d, <2>2, <2>5, SteadyPaid
<1>4. ASSUME NEW l \in 1..MaxRetry, NEW n \in Msg, Expire(l, n)
      PROVE  Paid'
  <2>1. /\ waiting[l][n] > 0 /\ UNCHANGED buffer
        /\ waiting' = [waiting EXCEPT ![l] = Take(@, n)]
        /\ PutsReady("upload", n)
    BY <1>4 DEF Expire, PutsReady
  <2>2. \A m \in FairMsg' : ready'["upload"][m] > 0 => ready["upload"][m] > 0 \/ m = n
    BY <1>b, <1>e, <2>1
  <2>3. \A m \in FairMsg', k \in 1..MaxRetry : waiting'[k][m] > 0 => waiting[k][m] > 0
    BY <1>c, <2>1 DEF Take, AllTypes, WaitingType
  <2>4. \A m \in FairMsg' : Queued(m)' => Queued(m)
    BY <2>1, <2>2, <2>3 DEF Queued
  <2> QED BY <1>0, <1>1, <1>d, <2>1, <2>4, SteadyPaid
<1> QED BY <1>f, <1>2, <1>3, <1>4 DEF BrokerStep

\* A step of w's loop that leaves its buffers alone, and ends with its delivery
\* at pc, or with none.
LEMMA LoopKeepsPaid ==
  ASSUME IsFiniteSet(Workers), AllTypes, AllTypes', Paid, NEW w \in Workers, NEW q \in Queues,
         UNCHANGED <<gone, phase, buffer>>, faults' >= faults, again \subseteq again',
         \A v \in Workers : failed[v] \subseteq failed'[v],
         \/ \E pc \in HandPc \ {"idle"} :
              /\ HandGoes(w, q, pc) /\ hand[w][q].pc # "idle"
              /\ pc = "failed" /\ q = "upload" =>
                   \A m \in FairMsg' : hand[w][q].msg = m =>
                     Pays(m.retry + 1, Charges(m.avatar, m.retry + 1))'
         \/ SetsHand(w, q, Idle),
         \A m \in FairMsg' : Queued(m)' =>
           \/ Queued(m)
           \/ \E v \in Workers : Fetched(v, "upload", m)
           \/ Pays(m.retry, Charges(m.avatar, m.retry)),
         \A a \in dead' : a \in dead \/ a \in Poison \cup gone' \cup again' \/ faults' > MaxRetry
  PROVE  Paid'
<1>0. HandType /\ "upload" \in Queues /\ NoMsg \notin FairMsg'
  BY DeliveryNoMsgAssumption DEF AllTypes, Queues, FairMsg
<1> DEFINE Paying(m) == Pays(m.retry + 1, Charges(m.avatar, m.retry + 1))
<1>1. /\ \A v \in Workers : <<v, "upload">> # <<w, q>> => hand'[v]["upload"] = hand[v]["upload"]
      /\ <<w, "upload">> = <<w, q>> =>
           \/ hand'[w]["upload"] = Idle
           \/ /\ hand'[w]["upload"].msg = hand[w]["upload"].msg
              /\ hand'[w]["upload"].pc = "failed" =>
                   \A m \in FairMsg' : hand[w]["upload"].msg = m => Paying(m)'
  <2>1. CASE SetsHand(w, q, Idle)
    BY <1>0, <2>1, HandSet, IdleRecord
  <2>2. ASSUME NEW pc \in HandPc \ {"idle"}, HandGoes(w, q, pc), hand[w][q].pc # "idle",
               pc = "failed" /\ q = "upload" =>
                 \A m \in FairMsg' : hand[w][q].msg = m => Paying(m)'
        PROVE  /\ \A v \in Workers :
                    <<v, "upload">> # <<w, q>> => hand'[v]["upload"] = hand[v]["upload"]
               /\ <<w, "upload">> = <<w, q>> =>
                    /\ hand'[w]["upload"].msg = hand[w]["upload"].msg
                    /\ hand'[w]["upload"].pc = "failed" =>
                         \A m \in FairMsg' : hand[w]["upload"].msg = m => Paying(m)'
    <3> HIDE DEF Paying
    <3> QED BY <1>0, <2>2, HandMoves
  <2> QED BY <2>1, <2>2
<1>2. ASSUME NEW v \in Workers, NEW m \in FairMsg', Fetched(v, "upload", m)'
      PROVE  Fetched(v, "upload", m)
  <2> HIDE DEF Paying
  <2> QED BY <1>0, <1>1, <1>2, IdleRecord DEF Fetched
<1>3. ASSUME NEW v \in Workers, NEW m \in FairMsg', Failed(v, m)'
      PROVE  Failed(v, m) \/ Paying(m)'
  <2> HIDE DEF Paying
  <2> QED BY <1>0, <1>1, <1>3, IdleRecord DEF Failed
<1> QED BY <1>2, <1>3, SteadyPaid

LEMMA TakePaid ==
  ASSUME IsFiniteSet(Workers), AllTypes, AllTypes', Paid, NEW w \in Workers, NEW q \in Queues,
         TakeNext(w, q)
  PROVE  Paid'
<1> DEFINE h == [pc |-> "handling", msg |-> Head(buffer[w][q])]
<1>1. /\ buffer[w][q] \in Seq(Msg) /\ buffer[w][q] # <<>> /\ "upload" \in Queues
      /\ SetsBuffer(w, q, Tail(buffer[w][q])) /\ SetsHand(w, q, h)
      /\ UNCHANGED <<gone, ready, waiting, dead, phase, failed, again, faults>>
      /\ faults \in Nat
  BY DeliveryFaultAssumption
     DEF TakeNext, AllTypes, BufferType, FaultType, Queues, SetsBuffer, SetsHand, brokerVars,
         processVars, historyVars
<1>2. /\ Tail(buffer[w][q]) \in Seq(Msg) /\ Head(buffer[w][q]) \in Msg
      /\ 1 \in 1..Len(buffer[w][q]) /\ Head(buffer[w][q]) = buffer[w][q][1]
      /\ \A i \in 1..Len(Tail(buffer[w][q])) :
           i + 1 \in 1..Len(buffer[w][q]) /\ Tail(buffer[w][q])[i] = buffer[w][q][i + 1]
  BY <1>1
<1>3. h \in HandRecord /\ h.pc = "handling" /\ h.msg = Head(buffer[w][q]) /\ h.msg # NoMsg
  BY <1>2, DeliveryNoMsgAssumption DEF HandRecord, HandPc
<1> HIDE DEF h
<1>4. hand'[w][q] = h
      /\ \A v \in Workers, p \in Queues : <<v, p>> # <<w, q>> => hand'[v][p] = hand[v][p]
  BY <1>1, <1>3, HandSet DEF AllTypes
<1>5. buffer'[w][q] = Tail(buffer[w][q])
      /\ \A v \in Workers, p \in Queues : <<v, p>> # <<w, q>> => buffer'[v][p] = buffer[v][p]
  <2> DEFINE tail == Tail(buffer[w][q])
  <2>1. BufferType /\ tail \in Seq(Msg) /\ SetsBuffer(w, q, tail)
    BY <1>1, <1>2 DEF AllTypes
  <2> HIDE DEF tail
  <2>2. buffer'[w][q] = tail
        /\ \A v \in Workers, p \in Queues : <<v, p>> # <<w, q>> => buffer'[v][p] = buffer[v][p]
    BY <2>1, BufferSet
  <2> QED BY <2>2 DEF tail
<1>6. ASSUME NEW v \in Workers, NEW m \in FairMsg', Fetched(v, "upload", m)'
      PROVE  Fetched(v, "upload", m)
  <2>1. CASE <<v, "upload">> # <<w, q>>
    BY <1>1, <1>4, <1>5, <1>6, <2>1 DEF Fetched
  <2>2. CASE v = w /\ q = "upload"
    <3>1. CASE hand'[w][q].msg = m
      BY <1>2, <1>3, <1>4, <2>2, <3>1 DEF Fetched
    <3>2. ASSUME NEW i \in 1..Len(Tail(buffer[w][q])), Tail(buffer[w][q])[i] = m
          PROVE  Fetched(v, "upload", m)
      BY <1>2, <2>2, <3>2 DEF Fetched
    <3> QED BY <1>5, <1>6, <2>2, <3>1, <3>2 DEF Fetched
  <2> QED BY <2>1, <2>2
<1>7. \A v \in Workers, m \in FairMsg' : Failed(v, m)' => Failed(v, m)
  BY <1>1, <1>3, <1>4 DEF Failed
<1>8. \A m \in FairMsg' : Queued(m)' => Queued(m)
  BY <1>1 DEF Queued
<1>9. /\ faults' >= faults /\ gone \subseteq gone' /\ again \subseteq again'
      /\ \A v \in Workers : failed[v] \subseteq failed'[v]
      /\ \A a \in dead' : a \in dead
  BY <1>1
<1> QED BY <1>1, <1>6, <1>7, <1>8, <1>9, SteadyPaid

\* A handler's failure is a fault, or one of those that the event's account has
\* paid for, or the event is not a fair one any more.
LEMMA FailurePaid ==
  ASSUME IsFiniteSet(Workers), AllTypes, AllTypes', Paid, NEW w \in Workers, HandlerFails(w)
  PROVE  Paid'
<1>1. /\ hand[w]["upload"].pc = "handling" /\ HandGoes(w, "upload", "failed")
      /\ UNCHANGED <<gone, ready, waiting, dead, phase, buffer>>
      /\ "upload" \in Queues /\ "failed" \in HandPc \ {"idle"} /\ faults \in Nat
  BY DeliveryFaultAssumption DEF HandlerFails, brokerVars, Queues, HandPc, AllTypes, FaultType
<1>2. PICK n \in Msg : /\ n = hand[w]["upload"].msg /\ n.avatar \in Avatars
                      /\ n.retry \in Nat /\ n.retry + 1 \in Nat
  BY <1>1, InHandTyped, DeliveryRetryAssumption DEF AllTypes
<1>3. \/ faults' = faults + 1 /\ UNCHANGED historyVars
      \/ ~Alive(w) /\ faults' = faults /\ Remembers(w, n)
      \/ n.avatar \in Poison \cup gone /\ faults' = faults /\ UNCHANGED historyVars
  BY <1>2 DEF HandlerFails, DeliveryFault
<1> DEFINE C == Charges(n.avatar, n.retry + 1)
           R == AtRisk(w, n.avatar, n.retry)
<1>4. /\ faults' >= faults /\ again \subseteq again'
      /\ \A v \in Workers : failed[v] \subseteq failed'[v]
  BY <1>1, <1>3 DEF Remembers, historyVars, AllTypes, ProcessType
<1>5. n \in FairMsg' => n \in FairMsg
  BY <1>1, <1>4 DEF FairMsg
<1>6. C' \subseteq C /\ C \subseteq R /\ R \subseteq Workers
  <2>1. C' \subseteq C
    BY <1>1, <1>2, <1>4, SteadyAccounts
  <2>2. C \subseteq Charges(n.avatar, n.retry)
    BY <1>2, LaterCharges
  <2>3. Charges(n.avatar, n.retry) \subseteq R /\ R \subseteq Workers
    BY <1>2, Accounts
  <2> QED BY <2>1, <2>2, <2>3
<1>7. IsFiniteSet(R) /\ IsFiniteSet(C') /\ Cardinality(R) \in Nat /\ Cardinality(C') \in Nat
      /\ Cardinality(C') <= Cardinality(R)
  <2> HIDE DEF C, R
  <2>1. IsFiniteSet(R)
    BY <1>6, FS_Subset
  <2> QED BY <1>6, <2>1, FS_Subset, FS_CardinalityType
<1>8. ASSUME n \in FairMsg'
      PROVE  faults' >= n.retry + 1 + Cardinality(C')
  <2>1. faults >= n.retry + Cardinality(R)
    <3>1. Fetched(w, "upload", n)
      BY <1>2 DEF Fetched
    <3> QED BY <1>5, <1>8, <3>1 DEF Paid, FetchedPaid, Pays
  <2>2. CASE faults' = faults + 1
    <3> HIDE DEF C, R
    <3> QED BY <1>1, <1>2, <1>7, <2>1, <2>2
  <2>3. CASE ~Alive(w) /\ faults' = faults /\ Remembers(w, n)
    <3>1. ~FailedBefore(w, n.avatar, n.retry)
      BY <1>2, <1>8, <2>3 DEF Remembers, FairMsg
    <3>2. w \in R
      BY <1>2, <2>3, <3>1, Accounts
    <3>3. FailedBefore(w, n.avatar, n.retry + 1)'
      <4>1. n \in failed'[w]
        BY <2>3 DEF Remembers, AllTypes, ProcessType
      <4>2. n.retry < n.retry + 1
        BY <1>2
      <4>3. \E k \in failed'[w] : k.avatar = n.avatar /\ k.retry < n.retry + 1
        BY <4>1, <4>2
      <4> QED BY <4>3 DEF FailedBefore
    <3>4. w \notin C'
      BY <3>3 DEF Charges
    <3> HIDE DEF C, R
    <3>5. Cardinality(C' \cup {w}) = Cardinality(C') + 1
      BY <1>7, <3>4, FS_AddElement
    <3>6. Cardinality(C' \cup {w}) <= Cardinality(R)
      <4>1. C' \cup {w} \subseteq R
        BY <1>6, <3>2
      <4> QED BY <1>7, <4>1, FS_Subset
    <3> QED BY <1>1, <1>2, <1>7, <2>1, <2>3, <3>5, <3>6
  <2>4. n.avatar \notin Poison \cup gone
    BY <1>5, <1>8 DEF FairMsg
  <2> QED BY <1>3, <2>2, <2>3, <2>4
<1>9. \A m \in FairMsg' : hand[w]["upload"].msg = m =>
        Pays(m.retry + 1, Charges(m.avatar, m.retry + 1))'
  BY <1>2, <1>8 DEF Pays
<1>10. \A m \in FairMsg' : Queued(m)' => Queued(m)
  BY <1>1 DEF Queued
<1> QED BY <1>1, <1>4, <1>9, <1>10, LoopKeepsPaid

LEMMA LoopPaid ==
  ASSUME IsFiniteSet(Workers), AllTypes, AllTypes', Paid, NEW w \in Workers, LoopStep(w)
  PROVE  Paid'
<1>0. /\ "upload" \in Queues /\ "delete" \in Queues
      /\ {"handling", "failed", "mark", "ack"} \subseteq HandPc \ {"idle"}
  BY DEF Queues, HandPc
<1>a. faults \in Nat /\ MaxRetry \in Nat /\ HandType
  BY DeliveryFaultAssumption, DeliveryRetryAssumption DEF AllTypes, FaultType
<1>b. \A kind : DeliveryFault(kind) => faults' = faults + 1 /\ faults' >= faults
  BY <1>a DEF DeliveryFault
\* The message in the loop for uploads.
<1> DEFINE n == hand[w]["upload"].msg
<1>c. hand[w]["upload"].pc # "idle" =>
        n \in Msg /\ n.avatar \in Avatars /\ n.retry \in Nat /\ n.retry <= MaxRetry
  BY <1>0, <1>a, InHandTyped
<1>d. Fetched(w, "upload", n)
  BY DEF Fetched
<1>e. UNCHANGED historyVars =>
        again \subseteq again' /\ \A v \in Workers : failed[v] \subseteq failed'[v]
  BY DEF historyVars
<1>f. UNCHANGED <<ready, waiting>> => \A m \in FairMsg' : Queued(m)' => Queued(m)
  BY DEF Queued
<1>g. UNCHANGED faults => faults' >= faults
  BY <1>a
<1>1. ASSUME NEW q \in Queues, TakeNext(w, q) PROVE Paid'
  BY <1>1, TakePaid
<1>2. ASSUME NEW q \in Queues, Ack(w, q) PROVE Paid'
  <2>1. SetsHand(w, q, Idle)
    BY <1>2 DEF Ack, SetsHand
  <2>2. UNCHANGED <<gone, ready, waiting, dead, phase, historyVars, buffer, faults>>
    BY <1>2 DEF Ack, brokerVars, processVars
  <2> QED BY <1>e, <1>f, <1>g, <2>1, <2>2, LoopKeepsPaid
<1>3. CASE HandlerSucceeds(w) \/ DeleteHandled(w) \/ MarkFailed(w)
  <2>1. PICK q \in Queues : HandGoes(w, q, "ack") /\ hand[w][q].pc # "idle"
    BY <1>0, <1>3 DEF HandlerSucceeds, DeleteHandled, MarkFailed
  <2>2. UNCHANGED <<gone, ready, waiting, dead, phase, historyVars, buffer, faults>>
    BY <1>3 DEF HandlerSucceeds, DeleteHandled, MarkFailed, brokerVars, processVars
  <2> QED BY <1>0, <1>e, <1>f, <1>g, <2>1, <2>2, LoopKeepsPaid
<1>4. CASE HandlerFails(w)
  BY <1>4, FailurePaid
<1>5. CASE PublishRetry(w)
  <2> DEFINE next == [n EXCEPT !.retry = @ + 1]
  <2>1. /\ hand[w]["upload"].pc = "failed" /\ n.retry < MaxRetry
        /\ waiting' = [waiting EXCEPT ![next.retry] = Put(@, next)]
        /\ HandGoes(w, "upload", "ack")
        /\ UNCHANGED <<gone, ready, dead, phase, historyVars, buffer, faults>>
    BY <1>5 DEF PublishRetry, processVars
  <2>2. /\ next \in Msg /\ next.avatar = n.avatar /\ next.retry = n.retry + 1
        /\ next.retry \in 1..MaxRetry
    BY <1>a, <1>c, <2>1 DEF Msg
  <2>3. next \in FairMsg' => Pays(next.retry, Charges(next.avatar, next.retry))
    <3>1. next \in FairMsg' => n \in FairMsg
      <4> HIDE DEF next
      <4> QED BY <1>c, <2>1, <2>2 DEF FairMsg, historyVars
    <3>2. n \in FairMsg => Pays(n.retry + 1, Charges(n.avatar, n.retry + 1))
      <4>1. Failed(w, n)
        BY <2>1 DEF Failed
      <4> QED BY <4>1 DEF Paid, FailedPaid
    <3> HIDE DEF next
    <3> QED BY <2>2, <3>1, <3>2
  <2> HIDE DEF next
  <2>4. ASSUME NEW m \in FairMsg', Queued(m)' PROVE Queued(m) \/ m = next
    BY <2>1, <2>2, <2>4 DEF AllTypes, WaitingType, Put, FairMsg, Queued
  <2> QED BY <1>0, <1>e, <1>g, <2>1, <2>3, <2>4, LoopKeepsPaid
<1>6. CASE PublishToDLQ(w)
  <2>1. /\ hand[w]["upload"].pc = "failed" /\ n.retry >= MaxRetry /\ dead' = dead \cup {n.avatar}
        /\ HandGoes(w, "upload", "mark")
        /\ UNCHANGED <<gone, ready, waiting, phase, historyVars, buffer, faults>>
    BY <1>6 DEF PublishToDLQ, processVars
  <2>2. n.avatar \notin Poison \cup gone' \cup again' => faults' > MaxRetry
    <3>1. SUFFICES ASSUME n \in FairMsg PROVE faults > MaxRetry
      BY <1>c, <2>1 DEF FairMsg, historyVars
    <3>2. faults >= n.retry + 1 + Cardinality(Charges(n.avatar, n.retry + 1))
      <4>1. Failed(w, n)
        BY <2>1 DEF Failed
      <4> QED BY <3>1, <4>1 DEF Paid, FailedPaid, Pays
    <3>3. Cardinality(Charges(n.avatar, n.retry + 1)) \in Nat
      <4>1. n.retry + 1 \in Nat
        BY <1>c, <2>1
      <4>2. Charges(n.avatar, n.retry + 1) \subseteq Workers
        BY <4>1, Accounts
      <4> QED BY <4>2, FS_Subset, FS_CardinalityType
    <3> QED BY <1>a, <1>c, <2>1, <3>2, <3>3
  <2> QED BY <1>0, <1>e, <1>f, <1>g, <2>1, <2>2, LoopKeepsPaid
<1>7. CASE Requeue(w)
  <2>1. /\ SetsHand(w, "upload", Idle)
        /\ UNCHANGED <<gone, waiting, dead, phase, historyVars, buffer>>
        /\ PutsReady("upload", n) /\ faults' >= faults /\ hand[w]["upload"].pc = "failed"
    BY <1>7, <1>b DEF Requeue, processVars, SetsHand, PutsReady
  <2>2. \A p \in Queues, m \in Msg : ready'[p][m] > 0 => ready[p][m] > 0 \/ m = n
    BY <1>0, <1>c, <2>1, ReadyPut DEF AllTypes
  <2>3. \A m \in FairMsg' : Queued(m)' => Queued(m) \/ (\E v \in Workers : Fetched(v, "upload", m))
    BY <1>0, <1>d, <2>1, <2>2 DEF FairMsg, Queued
  <2> QED BY <1>0, <1>e, <2>1, <2>3, LoopKeepsPaid
<1>8. CASE GiveUp(w)
  <2>1. SetsHand(w, "upload", Idle)
    BY <1>8 DEF GiveUp, SetsHand
  <2>2. UNCHANGED <<gone, ready, waiting, dead, phase, historyVars, buffer, faults>>
    BY <1>8 DEF GiveUp, brokerVars, processVars
  <2> QED BY <1>0, <1>e, <1>f, <1>g, <2>1, <2>2, LoopKeepsPaid
<1> QED BY <1>1, <1>2, <1>3, <1>4, <1>5, <1>6, <1>7, <1>8 DEF LoopStep

\* While no account grows, a process that goes on was at risk or is not now.
LEMMA PhasePaid ==
  ASSUME IsFiniteSet(Workers), AllTypes, AllTypes', Paid, NEW w \in Workers,
         NEW to \in Phases \ {"signalled"}, Goes(w, to),
         ~Alive(w) \/ to \in {"consuming", "running"},
         UNCHANGED <<brokerVars, historyVars, buffer, hand, faults>>
  PROVE  Paid'
<1>0. /\ UNCHANGED <<gone, ready, waiting, dead, failed, again>> /\ faults' >= faults
      /\ \A m \in FairMsg' : m.avatar \in Avatars /\ m.retry \in Nat
  BY DeliveryFaultAssumption, DeliveryRetryAssumption
     DEF AllTypes, FaultType, FairMsg, Msg, brokerVars, historyVars
<1>1. phase'[w] = to /\ \A v \in Workers \ {w} : phase'[v] = phase[v]
  BY Phased DEF AllTypes
<1>2. \A v \in Workers, a \in Avatars, r \in Nat : FailedBefore(v, a, r)' <=> FailedBefore(v, a, r)
  BY <1>0 DEF FailedBefore
<1>3. Signalled' \subseteq Signalled /\ \A v \in Workers : Alive(v)' \/ ~Alive(v)
  BY <1>1 DEF Signalled, Alive
<1>4. \A a \in Avatars, r \in Nat : Charges(a, r)' \subseteq Charges(a, r)
  BY <1>2, <1>3 DEF Charges, Signalled
<1>5. \A v \in Workers, a \in Avatars, r \in Nat : AtRisk(v, a, r)' \subseteq AtRisk(v, a, r)
  BY <1>2, <1>3, <1>4 DEF AtRisk
<1>6. /\ \A m \in FairMsg' : Queued(m)' => Queued(m)
      /\ \A v \in Workers, m \in FairMsg' : Fetched(v, "upload", m)' => Fetched(v, "upload", m)
      /\ \A v \in Workers, m \in FairMsg' : Failed(v, m)' => Failed(v, m)
  BY <1>0 DEF Queued, Fetched, Failed
<1> QED BY <1>0, <1>3, <1>4, <1>5, <1>6, KeepsPaid

\* A signal adds one process to an account, and is one fault more.
LEMMA SignalPaid ==
  ASSUME IsFiniteSet(Workers), AllTypes, Paid, NEW w \in Workers, Signal(w)
  PROVE  Paid'
<1>0. /\ faults \in Nat /\ MaxRetry \in Nat /\ faults' = faults + 1
      /\ Goes(w, "signalled") /\ "signalled" \in Phases
      /\ UNCHANGED <<gone, ready, waiting, dead, failed, again, buffer, hand>>
  BY DeliveryFaultAssumption, DeliveryRetryAssumption
     DEF Signal, DeliveryFault, AllTypes, FaultType, brokerVars, historyVars, Phases
<1>1. phase'[w] = "signalled" /\ \A v \in Workers \ {w} : phase'[v] = phase[v]
  BY <1>0, Phased DEF AllTypes
<1>2. ASSUME NEW S \in SUBSET Workers, NEW T \in SUBSET (S \cup {w}), NEW n \in Nat, Pays(n, S)
      PROVE  faults' >= n + Cardinality(T)
  <2>1. IsFiniteSet(S) /\ IsFiniteSet(S \cup {w}) /\ Cardinality(S) \in Nat
        /\ Cardinality(S \cup {w}) <= Cardinality(S) + 1 /\ Cardinality(S \cup {w}) \in Nat
    <3>1. IsFiniteSet(S)
      BY FS_Subset
    <3>2. IsFiniteSet(S \cup {w})
          /\ (Cardinality(S \cup {w}) = Cardinality(S)
              \/ Cardinality(S \cup {w}) = Cardinality(S) + 1)
      BY <3>1, FS_AddElement
    <3>3. Cardinality(S) \in Nat
      BY <3>1, FS_CardinalityType
    <3> QED BY <3>1, <3>2, <3>3
  <2>2. faults + 1 >= n + Cardinality(S \cup {w})
    BY <1>0, <1>2, <2>1 DEF Pays
  <2>3. faults + 1 >= n + Cardinality(T)
    BY <1>0, <2>1, <2>2, PaysLess
  <2> QED BY <1>0, <2>3
<1>3. \A v \in Workers, a \in Avatars, r \in Nat : FailedBefore(v, a, r)' <=> FailedBefore(v, a, r)
  BY <1>0 DEF FailedBefore
<1>4. Signalled' \subseteq Signalled \cup {w} /\ \A v \in Workers \ {w} : Alive(v)' = Alive(v)
  BY <1>1 DEF Signalled, Alive
<1>5. \A a \in Avatars, r \in Nat : Charges(a, r)' \subseteq Charges(a, r) \cup {w}
  BY <1>3, <1>4 DEF Charges, Signalled
<1>6. \A v \in Workers, a \in Avatars, r \in Nat :
        AtRisk(v, a, r)' \subseteq AtRisk(v, a, r) \cup {w}
  BY <1>3, <1>4, <1>5 DEF AtRisk
<1>7. FairMsg' = FairMsg
      /\ \A m \in FairMsg : m.avatar \in Avatars /\ m.retry \in Nat /\ m.retry + 1 \in Nat
  BY <1>0 DEF FairMsg, Msg
<1>8. Pays(0, Signalled)'
  BY <1>2, <1>4, Accounts DEF Paid, Pays, Signalled
<1>9. QueuedPaid'
  <2> SUFFICES ASSUME NEW m \in FairMsg, Queued(m)'
               PROVE  faults' >= m.retry + Cardinality(Charges(m.avatar, m.retry)')
    BY <1>7 DEF QueuedPaid, Pays
  <2> DEFINE C == Charges(m.avatar, m.retry)
  <2>1. Pays(m.retry, C)
    BY <1>0 DEF Queued, Paid, QueuedPaid
  <2>2. C \subseteq Workers /\ C' \subseteq C \cup {w}
    BY <1>5, <1>7, Accounts
  <2> HIDE DEF C
  <2>3. faults' >= m.retry + Cardinality(C')
    BY <1>2, <1>7, <2>1, <2>2
  <2> QED BY <2>3 DEF C
<1>10. FetchedPaid'
  <2> SUFFICES ASSUME NEW v \in Workers, NEW m \in FairMsg, Fetched(v, "upload", m)'
               PROVE  faults' >= m.retry + Cardinality(AtRisk(v, m.avatar, m.retry)')
    BY <1>7 DEF FetchedPaid, Pays
  <2> DEFINE R == AtRisk(v, m.avatar, m.retry)
  <2>1. Pays(m.retry, R)
    BY <1>0 DEF Fetched, Paid, FetchedPaid
  <2>2. R \subseteq Workers /\ R' \subseteq R \cup {w}
    BY <1>6, <1>7, Accounts
  <2> HIDE DEF R
  <2>3. faults' >= m.retry + Cardinality(R')
    BY <1>2, <1>7, <2>1, <2>2
  <2> QED BY <2>3 DEF R
<1>11. FailedPaid'
  <2> SUFFICES ASSUME NEW v \in Workers, NEW m \in FairMsg, Failed(v, m)'
               PROVE  faults' >= m.retry + 1 + Cardinality(Charges(m.avatar, m.retry + 1)')
    BY <1>7 DEF FailedPaid, Pays
  <2> DEFINE C == Charges(m.avatar, m.retry + 1)
  <2>1. Pays(m.retry + 1, C)
    BY <1>0 DEF Failed, Paid, FailedPaid
  <2>2. C \subseteq Workers /\ C' \subseteq C \cup {w}
    BY <1>5, <1>7, Accounts
  <2> HIDE DEF C
  <2>3. faults' >= m.retry + 1 + Cardinality(C')
    BY <1>2, <1>7, <2>1, <2>2
  <2> QED BY <2>3 DEF C
<1>12. DeadLetteredForCause'
  BY <1>0 DEF Paid, DeadLetteredForCause
<1> QED BY <1>8, <1>9, <1>10, <1>11, <1>12 DEF Paid

LEMMA EndPaid ==
  ASSUME IsFiniteSet(Workers), AllTypes, AllTypes', Paid, NEW w \in Workers, Ends(w),
         faults' >= faults
  PROVE  Paid'
<1>0. /\ UNCHANGED <<gone, waiting, dead, again>>
      /\ \A m \in FairMsg' : /\ m \in Msg /\ m.avatar \in Avatars /\ m.retry \in Nat
                             /\ m # NoMsg
  BY DeliveryRetryAssumption, DeliveryNoMsgAssumption DEF FairMsg, Msg, Ends
<1>1. phase'[w] = "down" /\ \A v \in Workers \ {w} : phase'[v] = phase[v]
  BY Phased DEF Ends, AllTypes, Phases
<1>2. /\ buffer'[w]["upload"] = <<>> /\ \A v \in Workers \ {w} : buffer'[v] = buffer[v]
      /\ \A m \in FairMsg' :
           ready'["upload"][m] > 0 => ready["upload"][m] > 0 \/ Fetched(w, "upload", m)
  BY <1>0, TakesBack DEF Ends, AllTypes, Queues
<1>3. hand'[w]["upload"] = Idle /\ \A v \in Workers \ {w} : hand'[v] = hand[v]
  BY HandsIdle DEF Ends, Idles, AllTypes, Queues
<1>4. \A v \in Workers \ {w}, a \in Avatars, r \in Nat :
        FailedBefore(v, a, r)' <=> FailedBefore(v, a, r)
  BY DEF Ends, FailedBefore, AllTypes, ProcessType
<1>5. Signalled' \subseteq Signalled \ {w} /\ \A v \in Workers \ {w} : Alive(v)' = Alive(v)
  BY <1>1 DEF Signalled, Alive
<1>6. \A a \in Avatars, r \in Nat : Charges(a, r)' \subseteq Charges(a, r)
  BY <1>4, <1>5 DEF Charges, Signalled
<1>7. \A v \in Workers \ {w}, a \in Avatars, r \in Nat :
        AtRisk(v, a, r)' \subseteq AtRisk(v, a, r)
  BY <1>4, <1>5, <1>6 DEF AtRisk
<1>8. \A m \in FairMsg' : Queued(m)' => Queued(m) \/ Fetched(w, "upload", m)
  BY <1>0, <1>2 DEF Queued
<1>9. ASSUME NEW v \in Workers, NEW m \in FairMsg', Fetched(v, "upload", m)'
      PROVE  /\ Fetched(v, "upload", m)
             /\ AtRisk(v, m.avatar, m.retry)' \subseteq AtRisk(v, m.avatar, m.retry)
  <2>1. v # w
    BY <1>0, <1>2, <1>3, <1>9, IdleRecord DEF Fetched
  <2>2. Fetched(v, "upload", m)
    BY <1>2, <1>3, <1>9, <2>1 DEF Fetched
  <2> QED BY <1>0, <1>7, <2>1, <2>2
<1>10. \A v \in Workers, m \in FairMsg' : Failed(v, m)' => Failed(v, m)
  BY <1>3, IdleRecord DEF Failed
<1>11. gone \subseteq gone' /\ again \subseteq again' /\ \A a \in dead' : a \in dead
  BY <1>0
<1> QED BY <1>5, <1>6, <1>8, <1>9, <1>10, <1>11, KeepsPaid

LEMMA ProcessPaid ==
  ASSUME IsFiniteSet(Workers), AllTypes, AllTypes', Paid, NEW w \in Workers,
         RunStep(w) \/ Signal(w) \/ StartFails(w) \/ Crash(w) \/ Disconnect(w)
  PROVE  Paid'
<1>0. /\ {"consuming", "running", "cancelled", "waitUpload", "waitDelete", "closing"}
           \subseteq Phases \ {"signalled"}
      /\ faults \in Nat /\ \A kind : DeliveryFault(kind) => faults' = faults + 1
  BY DeliveryFaultAssumption DEF Phases, AllTypes, FaultType, DeliveryFault
<1>1. CASE StartUploadConsumer(w) \/ StartDeleteConsumer(w)
  BY <1>0, <1>1, PhasePaid DEF StartUploadConsumer, StartDeleteConsumer
<1>2. CASE CancelUpload(w) \/ CancelDelete(w)
  BY <1>0, <1>2, PhasePaid DEF CancelUpload, CancelDelete, Alive
<1>3. CASE WaitForUploads(w) \/ WaitForDeletes(w)
  BY <1>0, <1>3, PhasePaid DEF WaitForUploads, WaitForDeletes, WaitForLoop, Alive
<1>4. CASE Return(w)
  BY <1>0, <1>4, EndPaid DEF Return
<1>5. CASE Signal(w)
  BY <1>5, SignalPaid
<1>6. CASE StartFails(w) \/ Crash(w)
  BY <1>0, <1>6, EndPaid DEF StartFails, Crash
<1>7. CASE Disconnect(w)
  <2>1. /\ TakeBack(w) /\ UNCHANGED <<gone, waiting, dead, phase, failed, again, hand>>
        /\ faults' >= faults
    BY <1>0, <1>7 DEF Disconnect, historyVars
  <2>2. /\ \A v \in Workers :
             buffer'[v]["upload"] = buffer[v]["upload"] \/ buffer'[v]["upload"] = <<>>
        /\ \A m \in FairMsg' :
             ready'["upload"][m] > 0 => ready["upload"][m] > 0 \/ Fetched(w, "upload", m)
    BY <2>1, TakesBack DEF AllTypes, Queues, FairMsg
  <2>3. /\ \A v \in Workers, m \in FairMsg' : Fetched(v, "upload", m)' => Fetched(v, "upload", m)
        /\ \A v \in Workers, m \in FairMsg' : Failed(v, m)' => Failed(v, m)
    BY <2>1, <2>2 DEF Fetched, Failed
  <2>4. \A m \in FairMsg' : Queued(m)' => Queued(m) \/ Fetched(w, "upload", m)
    BY <2>1, <2>2 DEF Queued
  <2>5. /\ gone \subseteq gone' /\ again \subseteq again' /\ \A a \in dead' : a \in dead
        /\ \A v \in Workers : failed[v] \subseteq failed'[v]
    BY <2>1
  <2> QED BY <2>1, <2>3, <2>4, <2>5, SteadyPaid
<1> QED BY <1>1, <1>2, <1>3, <1>4, <1>5, <1>6, <1>7 DEF RunStep

LEMMA StepPaid ==
  ASSUME IsFiniteSet(Workers)
  PROVE  AllTypes /\ AllTypes' /\ Paid /\ [DeliveryNext]_deliveryVars => Paid'
<1> SUFFICES ASSUME AllTypes, AllTypes', Paid, [DeliveryNext]_deliveryVars PROVE Paid'
  OBVIOUS
<1>1. CASE UNCHANGED deliveryVars
  <2>1. /\ UNCHANGED <<gone, ready, waiting, dead, phase, failed, again, buffer, hand, faults>>
        /\ faults \in Nat
    BY <1>1, DeliveryFaultAssumption
       DEF deliveryVars, brokerVars, processVars, historyVars, AllTypes, FaultType
  <2>2. /\ \A v \in Workers, m \in FairMsg' : Fetched(v, "upload", m)' => Fetched(v, "upload", m)
        /\ \A v \in Workers, m \in FairMsg' : Failed(v, m)' => Failed(v, m)
        /\ \A m \in FairMsg' : Queued(m)' => Queued(m)
    BY <2>1 DEF Fetched, Failed, Queued
  <2> QED BY <2>1, <2>2, SteadyPaid
<1> QED BY <1>1, BrokerPaid, LoopPaid, ProcessPaid DEF DeliveryNext

LEMMA StartPaid == DeliveryInit => Paid
<1> SUFFICES ASSUME DeliveryInit PROVE Paid
  OBVIOUS
<1>1. Signalled = {} /\ Cardinality(Signalled) = 0 /\ faults = 0
  BY FS_EmptySet DEF DeliveryInit, Signalled
<1>2. \A m \in FairMsg : m \in Msg /\ m # NoMsg
  BY DeliveryNoMsgAssumption DEF FairMsg
<1>3. QueuedPaid
  BY <1>2 DEF DeliveryInit, QueuedPaid, Queued, NoMessages, Queues
<1>4. \A w \in Workers : buffer[w]["upload"] = <<>> /\ hand[w]["upload"] = Idle
  BY DEF DeliveryInit, Queues
<1>5. FetchedPaid /\ FailedPaid
  BY <1>2, <1>4, IdleRecord DEF FetchedPaid, FailedPaid, Fetched, Failed
<1>6. DeadLetteredForCause
  BY DEF DeliveryInit, DeadLetteredForCause
<1> QED BY <1>1, <1>3, <1>5, <1>6 DEF Paid, Pays

\* An event that handlers can handle, of an avatar that is not deleted, is
\* dead-lettered only after more failures and shutdowns than there are retry
\* levels: no prefetch, nack, restart or lost connection makes one of them count
\* twice, unless a process told to stop has got a later attempt of the event.
THEOREM DeadLettersHaveCauses ==
  ASSUME IsFiniteSet(Workers)
  PROVE  Delivery => []DeadLetteredForCause
<1>1. Delivery => []AllTypes
  BY StartTyped, StepTyped, PTL DEF Delivery
<1>2. AllTypes /\ AllTypes' /\ Paid /\ [DeliveryNext]_deliveryVars => Paid'
  BY StepPaid
<1>3. Delivery => []Paid
  BY <1>1, <1>2, StartPaid, PTL DEF Delivery
<1>4. Paid => DeadLetteredForCause
  BY DEF Paid
<1> QED BY <1>3, <1>4, PTL

---------------------------------------------------------------------------
(***************************************************************************)
(* What the consumers see: the queues, buffers, restarts and lost          *)
(* connections of this module implement AvatarTransport.  Its queue counts *)
(* the copies of an event wherever they are; first, what the steps do to   *)
(* the copies in buffers.                                                  *)
(***************************************************************************)

\* Place i of w's buffer for uploads has a copy of m.
Holds(v, i, m) == i <= Len(buffer[v]["upload"]) /\ buffer[v]["upload"][i] = m

Places(m) == {place \in Workers \X (1..Prefetch) : Holds(place[1], place[2], m)}

Delayed(m) == IF m.retry = 0 THEN 0 ELSE waiting[m.retry][m]

Count(m, n) == IF m = n THEN 1 ELSE 0

\* Some places, and how many they are.
LEMMA PlacesCounted ==
  ASSUME IsFiniteSet(Workers), NEW S \in SUBSET (Workers \X (1..Prefetch))
  PROVE  IsFiniteSet(S) /\ Cardinality(S) \in Nat
<1>1. IsFiniteSet(1..Prefetch)
  BY PrefetchAssumption, FS_Interval
<1>2. IsFiniteSet(Workers \X (1..Prefetch))
  BY <1>1, FS_Product
<1> QED BY <1>2, FS_Subset, FS_CardinalityType

\* Sets that are matched one to one have as many members.
LEMMA Matched ==
  ASSUME NEW S, IsFiniteSet(S), NEW T, NEW f \in [S -> T],
         \A x, y \in S : f[x] = f[y] => x = y,
         \A z \in T : \E x \in S : f[x] = z
  PROVE  IsFiniteSet(T) /\ Cardinality(T) = Cardinality(S)
<1>1. f \in Bijection(S, T)
  BY DEF Bijection, Injection, Surjection, IsInjective
<1>2. Bijection(S, T) # {}
  BY <1>1
<1>3. ExistsBijection(S, T)
  BY <1>2 DEF ExistsBijection
<1> QED BY <1>3, FS_Bijection

\* A copy that the broker pushes takes the place behind the last.
LEMMA PushedCounts ==
  ASSUME IsFiniteSet(Workers), BufferType, NEW w \in Workers, NEW m \in Msg,
         Len(buffer[w]["upload"]) < Prefetch,
         SetsBuffer(w, "upload", Append(buffer[w]["upload"], m)),
         NEW n \in Msg
  PROVE  Cardinality(Places(n)') = Cardinality(Places(n)) + Count(n, m)
<1> DEFINE s   == buffer[w]["upload"]
           new == <<w, Len(s) + 1>>
<1>0. s \in Seq(Msg) /\ Len(s) \in Nat /\ Append(s, m) \in Seq(Msg) /\ "upload" \in Queues
  BY DEF BufferType, Queues
<1>1. /\ buffer'[w]["upload"] = Append(s, m)
      /\ \A v \in Workers : v # w => buffer'[v]["upload"] = buffer[v]["upload"]
  <2>1. BufferType' /\ buffer'[w]["upload"] = Append(s, m)
    BY <1>0, BufferSet
  <2>2. \A v \in Workers, p \in Queues :
          <<v, p>> # <<w, "upload">> => buffer'[v][p] = buffer[v][p]
    BY <1>0, BufferSet
  <2>3. ASSUME NEW v \in Workers, v # w PROVE buffer'[v]["upload"] = buffer[v]["upload"]
    BY <1>0, <2>2, <2>3
  <2> QED BY <2>1, <2>3
<1>2. new \in Workers \X (1..Prefetch) /\ new \notin Places(n)
  BY <1>0, PrefetchAssumption DEF Places, Holds
<1>3. ASSUME NEW v \in Workers, NEW i \in 1..Prefetch
      PROVE  Holds(v, i, n)' <=> Holds(v, i, n) \/ (<<v, i>> = new /\ n = m)
  <2>1. CASE v # w
    BY <1>1, <2>1 DEF Holds
  <2>2. CASE v = w
    <3>1. /\ Len(Append(s, m)) = Len(s) + 1
          /\ i <= Len(s) => Append(s, m)[i] = s[i]
          /\ Append(s, m)[Len(s) + 1] = m
      BY <1>0
    <3>2. i \in Nat /\ (i <= Len(s) + 1 <=> i <= Len(s) \/ i = Len(s) + 1)
      BY <1>0, PrefetchAssumption
    <3>3. <<v, i>> = new <=> i = Len(s) + 1
      BY <2>2
    <3>4. Holds(v, i, n)' <=> i <= Len(s) + 1 /\ Append(s, m)[i] = n
      BY <1>1, <2>2, <3>1 DEF Holds
    <3>5. Holds(v, i, n) <=> i <= Len(s) /\ s[i] = n
      BY <2>2 DEF Holds
    <3>6. ~(Len(s) + 1 <= Len(s))
      BY <1>0
    <3> HIDE DEF s, new
    <3> QED BY <3>1, <3>2, <3>3, <3>4, <3>5, <3>6
  <2> QED BY <2>1, <2>2
<1>4. Places(n)' = IF n = m THEN Places(n) \cup {new} ELSE Places(n)
  <2>1. \A place \in Workers \X (1..Prefetch) :
          place \in Places(n)' <=> place \in Places(n) \/ (place = new /\ n = m)
    BY <1>3 DEF Places
  <2>2. Places(n)' \subseteq Workers \X (1..Prefetch) /\ Places(n) \subseteq Workers \X (1..Prefetch)
    BY DEF Places
  <2> HIDE DEF new
  <2> QED BY <1>2, <2>1, <2>2
<1>5. IsFiniteSet(Places(n)) /\ Cardinality(Places(n)) \in Nat
  BY PlacesCounted DEF Places
<1>6. new \notin Places(n)
  BY <1>2
<1> HIDE DEF new
<1>7. Cardinality(Places(n) \cup {new}) = Cardinality(Places(n)) + 1
  BY <1>5, <1>6, FS_AddElement
<1> QED BY <1>4, <1>5, <1>7 DEF Count

\* Taking the first copy moves the others up.
LEMMA TakenCounts ==
  ASSUME IsFiniteSet(Workers), BufferType, NEW w \in Workers, buffer[w]["upload"] # <<>>,
         SetsBuffer(w, "upload", Tail(buffer[w]["upload"])),
         Len(buffer[w]["upload"]) <= Prefetch,
         NEW n \in Msg
  PROVE  Cardinality(Places(n)) = Cardinality(Places(n)') + Count(n, Head(buffer[w]["upload"]))
<1> DEFINE s     == buffer[w]["upload"]
           first == <<w, 1>>
           rest  == Places(n) \ {first}
           f     == [place \in Places(n)' |->
                       IF place[1] = w THEN <<w, place[2] + 1>> ELSE place]
<1>0. s \in Seq(Msg) /\ Len(s) \in Nat \ {0} /\ Tail(s) \in Seq(Msg) /\ "upload" \in Queues
      /\ Head(s) = s[1] /\ Len(Tail(s)) = Len(s) - 1
  BY DEF BufferType, Queues
<1>1. /\ buffer'[w]["upload"] = Tail(s)
      /\ \A v \in Workers : v # w => buffer'[v]["upload"] = buffer[v]["upload"]
  <2>1. BufferType' /\ buffer'[w]["upload"] = Tail(s)
    BY <1>0, BufferSet
  <2>2. \A v \in Workers, p \in Queues :
          <<v, p>> # <<w, "upload">> => buffer'[v][p] = buffer[v][p]
    BY <1>0, BufferSet
  <2>3. ASSUME NEW v \in Workers, v # w PROVE buffer'[v]["upload"] = buffer[v]["upload"]
    BY <1>0, <2>2, <2>3
  <2> QED BY <2>1, <2>3
<1>2. first \in Workers \X (1..Prefetch) /\ (first \in Places(n) <=> n = Head(s))
  BY <1>0, PrefetchAssumption DEF Places, Holds
<1>3. ASSUME NEW i \in 1..Prefetch
      PROVE  /\ Holds(w, i, n)' <=> Holds(w, i + 1, n)
             /\ Holds(w, i, n)' => i + 1 \in 1..Prefetch
  <2>1. i \in Nat /\ i >= 1 /\ (i <= Len(s) - 1 <=> i + 1 <= Len(s))
    BY <1>0, PrefetchAssumption
  <2>2. i <= Len(s) - 1 => Tail(s)[i] = s[i + 1]
    BY <1>0, <2>1
  <2>3. Holds(w, i, n)' <=> i <= Len(s) - 1 /\ Tail(s)[i] = n
    BY <1>0, <1>1 DEF Holds
  <2>4. i + 1 <= Len(s) => i + 1 \in 1..Prefetch
    BY <1>0, <2>1, PrefetchAssumption
  <2> QED BY <2>1, <2>2, <2>3, <2>4 DEF Holds
<1>4. ASSUME NEW v \in Workers, v # w, NEW i \in 1..Prefetch PROVE Holds(v, i, n)' <=> Holds(v, i, n)
  BY <1>1, <1>4 DEF Holds
<1>5. f \in [Places(n)' -> rest]
  <2> SUFFICES ASSUME NEW v \in Workers, NEW i \in 1..Prefetch, Holds(v, i, n)'
               PROVE  (IF v = w THEN <<w, i + 1>> ELSE <<v, i>>) \in rest
    BY DEF Places
  <2>1. CASE v = w
    BY <1>3, <2>1, PrefetchAssumption DEF Places
  <2>2. CASE v # w
    BY <1>4, <2>2 DEF Places
  <2> QED BY <2>1, <2>2
<1>6. \A x, y \in Places(n)' : f[x] = f[y] => x = y
  <2> SUFFICES ASSUME NEW v \in Workers, NEW i \in 1..Prefetch,
                      NEW u \in Workers, NEW j \in 1..Prefetch,
                      (IF v = w THEN <<w, i + 1>> ELSE <<v, i>>) = (IF u = w THEN <<w, j + 1>> ELSE <<u, j>>)
               PROVE  <<v, i>> = <<u, j>>
    BY DEF Places
  <2> QED BY PrefetchAssumption
<1>7. ASSUME NEW z \in rest PROVE \E x \in Places(n)' : f[x] = z
  <2>1. PICK v \in Workers : \E i \in 1..Prefetch : z = <<v, i>> /\ Holds(v, i, n) /\ <<v, i>> # first
    BY DEF Places
  <2>2. PICK i \in 1..Prefetch : z = <<v, i>> /\ Holds(v, i, n) /\ <<v, i>> # first
    BY <2>1
  <2>3. CASE v = w
    <3>1. i - 1 \in 1..Prefetch /\ (i - 1) + 1 = i
      BY <2>2, <2>3, PrefetchAssumption
    <3>2. Holds(w, i - 1, n)'
      BY <1>3, <2>2, <2>3, <3>1
    <3>3. <<w, i - 1>> \in Places(n)'
      BY <3>1, <3>2 DEF Places
    <3>4. f[<<w, i - 1>>] = <<w, i>>
      BY <3>1, <3>3
    <3> QED BY <2>2, <2>3, <3>3, <3>4
  <2>4. CASE v # w
    <3>1. <<v, i>> \in Places(n)'
      BY <1>4, <2>2, <2>4 DEF Places
    <3>2. f[<<v, i>>] = <<v, i>>
      BY <2>4, <3>1
    <3> QED BY <2>2, <3>1, <3>2
  <2> QED BY <2>3, <2>4
<1>8. /\ IsFiniteSet(Places(n)') /\ Cardinality(Places(n)') \in Nat
      /\ IsFiniteSet(Places(n)) /\ Cardinality(Places(n)) \in Nat
  BY PlacesCounted DEF Places
<1> HIDE DEF f, first
<1>9. Cardinality(rest) = Cardinality(Places(n)')
  BY <1>5, <1>6, <1>7, <1>8, Matched
<1>10. Cardinality(Places(n) \ {first}) =
         IF first \in Places(n) THEN Cardinality(Places(n)) - 1 ELSE Cardinality(Places(n))
  BY <1>8, FS_RemoveElement
<1>11. first \in Places(n) <=> n = Head(s)
  BY <1>2
<1>12. Cardinality(Places(n)) = Cardinality(Places(n)') + IF n = Head(s) THEN 1 ELSE 0
  BY <1>8, <1>9, <1>10, <1>11
<1> QED BY <1>12 DEF Count

\* A buffer that is emptied has had as many copies as it had places for them.
LEMMA EmptiedCounts ==
  ASSUME IsFiniteSet(Workers), BufferType, NEW w \in Workers,
         \A q \in Queues : buffer'[w][q] = <<>>,
         \A v \in Workers \ {w} : buffer'[v] = buffer[v],
         Len(buffer[w]["upload"]) <= Prefetch,
         NEW n \in Msg
  PROVE  Cardinality(Places(n)) =
           Cardinality(Places(n)')
             + Cardinality({i \in 1..Len(buffer[w]["upload"]) : buffer[w]["upload"][i] = n})
<1> DEFINE s      == buffer[w]["upload"]
           copies == {i \in 1..Len(s) : s[i] = n}
           mine   == {w} \X copies
           f      == [i \in copies |-> <<w, i>>]
<1>0. s \in Seq(Msg) /\ Len(s) \in Nat /\ "upload" \in Queues
  BY DEF BufferType, Queues
<1>1. copies \in SUBSET (1..Len(s)) /\ IsFiniteSet(copies)
  <2>1. IsFiniteSet(1..Len(s)) /\ copies \in SUBSET (1..Len(s))
    BY <1>0, FS_Interval
  <2> HIDE DEF copies
  <2> QED BY <2>1, FS_Subset
<1>2. f \in [copies -> mine]
  OBVIOUS
<1>3. \A x, y \in copies : f[x] = f[y] => x = y
  OBVIOUS
<1>4. \A z \in mine : \E x \in copies : f[x] = z
  OBVIOUS
<1>5. mine \subseteq Places(n)
  BY <1>0, PrefetchAssumption DEF Places, Holds
<1>6. Places(n)' = Places(n) \ mine
  <2>1. ASSUME NEW v \in Workers, NEW i \in 1..Prefetch
        PROVE  Holds(v, i, n)' <=> Holds(v, i, n) /\ <<v, i>> \notin mine
    <3>1. CASE v = w
      <4>1. ~Holds(v, i, n)'
        BY <1>0, <3>1, PrefetchAssumption DEF Holds
      <4>2. Holds(v, i, n) => i \in copies
        BY <1>0, <3>1, PrefetchAssumption DEF Holds
      <4> QED BY <3>1, <4>1, <4>2
    <3>2. CASE v # w
      BY <3>2 DEF Holds
    <3> QED BY <3>1, <3>2
  <2> HIDE DEF mine
  <2> QED BY <2>1 DEF Places
<1>7. IsFiniteSet(Places(n)) /\ Cardinality(Places(n)) \in Nat
  BY PlacesCounted DEF Places
<1> HIDE DEF f, mine, copies
<1>8. IsFiniteSet(mine) /\ Cardinality(mine) = Cardinality(copies)
  BY <1>1, <1>2, <1>3, <1>4, Matched
<1>9. Cardinality(mine) \in Nat /\ Places(n) \cap mine = mine
  BY <1>5, <1>8, FS_CardinalityType
<1>10. Cardinality(Places(n)') = Cardinality(Places(n)) - Cardinality(mine)
  BY <1>6, <1>7, <1>9, FS_Difference
<1>11. Cardinality(Places(n)') + Cardinality(copies) = Cardinality(Places(n))
  BY <1>7, <1>8, <1>9, <1>10
<1> QED BY <1>11 DEF copies

---------------------------------------------------------------------------
(* The copies of an event, wherever they are *)

\* A buffer holds no more than the prefetch, and nothing without a connection;
\* the queue of a level holds only what has been retried as often.
Fits ==
  /\ \A w \in Workers : Len(buffer[w]["upload"]) <= Prefetch
  /\ \A w \in Workers : buffer[w]["upload"] # <<>> => w \in linked
  /\ \A l \in 1..MaxRetry, m \in Msg : waiting[l][m] > 0 => m.retry = l

\* What AvatarTransport's variables stand for.
Bag   == [m \in Msg |-> Underway(m)]
Held  == [w \in Workers |-> hand[w]["upload"].msg]
Spent == {w \in Workers : hand[w]["upload"].pc \in {"mark", "ack"}}

Carries == Consumers!TransportNext \/ UNCHANGED <<Bag, Held, Spent, dead, linked>>

LEMMA Tallied ==
  ASSUME NEW n \in Msg
  PROVE  /\ Underway(n) = ready["upload"][n] + Delayed(n) + Cardinality(Places(n))
         /\ Underway(n)' = ready'["upload"][n] + Delayed(n)' + Cardinality(Places(n)')
BY DEF Underway, Delayed, Places, Holds

LEMMA Counted ==
  ASSUME IsFiniteSet(Workers), AllTypes, AllTypes', NEW n \in Msg
  PROVE  /\ ready["upload"][n] \in Nat /\ Delayed(n) \in Nat /\ Cardinality(Places(n)) \in Nat
         /\ ready'["upload"][n] \in Nat /\ Delayed(n)' \in Nat /\ Cardinality(Places(n)') \in Nat
<1>1. "upload" \in Queues /\ n.retry \in 0..MaxRetry
  BY DEF Queues, Msg
<1>2. n.retry # 0 => n.retry \in 1..MaxRetry
  BY <1>1, DeliveryRetryAssumption
<1>3. ready["upload"][n] \in Nat /\ ready'["upload"][n] \in Nat
  BY <1>1 DEF AllTypes, ReadyType
<1>4. Delayed(n) \in Nat /\ Delayed(n)' \in Nat
  BY <1>2 DEF AllTypes, WaitingType, Delayed
<1>5. Places(n) \in SUBSET (Workers \X (1..Prefetch)) /\ Places(n)' \in SUBSET (Workers \X (1..Prefetch))
  BY DEF Places
<1>6. Cardinality(Places(n)) \in Nat /\ Cardinality(Places(n)') \in Nat
  BY <1>5, PlacesCounted
<1> QED BY <1>3, <1>4, <1>6

\* What a change of the counts is to the bag.
LEMMA BagChanges ==
  ASSUME IsFiniteSet(Workers), AllTypes, AllTypes'
  PROVE  /\ (\A n \in Msg : Underway(n)' = Underway(n)) => Bag' = Bag
         /\ \A m \in Msg :
              (\A n \in Msg : Underway(n)' = Underway(n) + Count(n, m)) => Bag' = Put(Bag, m)
         /\ \A m \in Msg :
              (\A n \in Msg : Underway(n) = Underway(n)' + Count(n, m)) =>
                Bag' = Take(Bag, m) /\ Bag[m] > 0
<1>1. ASSUME NEW n \in Msg PROVE Underway(n) \in Nat /\ Underway(n)' \in Nat
  <2>1. /\ ready["upload"][n] \in Nat /\ Delayed(n) \in Nat /\ Cardinality(Places(n)) \in Nat
        /\ ready'["upload"][n] \in Nat /\ Delayed(n)' \in Nat /\ Cardinality(Places(n)') \in Nat
    BY Counted
  <2> QED BY <2>1, Tallied
<1>2. Bag' = [n \in Msg |-> Underway(n)'] /\ Bag = [n \in Msg |-> Underway(n)]
  BY DEF Bag
<1>3. (\A n \in Msg : Underway(n)' = Underway(n)) => Bag' = Bag
  BY <1>2
<1>4. ASSUME NEW m \in Msg, \A n \in Msg : Underway(n)' = Underway(n) + Count(n, m)
      PROVE  Bag' = Put(Bag, m)
  <2>1. Put(Bag, m) = [n \in Msg |-> IF n = m THEN Underway(n) + 1 ELSE Underway(n)]
    BY <1>2 DEF Put
  <2>2. \A n \in Msg : Underway(n)' = IF n = m THEN Underway(n) + 1 ELSE Underway(n)
    BY <1>1, <1>4 DEF Count
  <2> QED BY <1>2, <2>1, <2>2
<1>5. ASSUME NEW m \in Msg, \A n \in Msg : Underway(n) = Underway(n)' + Count(n, m)
      PROVE  Bag' = Take(Bag, m) /\ Bag[m] > 0
  <2>1. Take(Bag, m) = [n \in Msg |-> IF n = m THEN Underway(n) - 1 ELSE Underway(n)]
    BY <1>2 DEF Take
  <2>2. \A n \in Msg : Underway(n)' = IF n = m THEN Underway(n) - 1 ELSE Underway(n)
    BY <1>1, <1>5 DEF Count
  <2>3. Underway(m) > 0
    BY <1>1, <1>5 DEF Count
  <2> QED BY <1>2, <2>1, <2>2, <2>3
<1> QED BY <1>3, <1>4, <1>5

\* What is left alone is counted as before.
LEMMA Unmoved ==
  ASSUME NEW n \in Msg
  PROVE  /\ UNCHANGED waiting => Delayed(n)' = Delayed(n)
         /\ (\A v \in Workers : buffer'[v]["upload"] = buffer[v]["upload"]) =>
              Places(n)' = Places(n)
         /\ UNCHANGED buffer => Places(n)' = Places(n)
<1>1. UNCHANGED waiting => Delayed(n)' = Delayed(n)
  BY DEF Delayed
<1>2. ASSUME \A v \in Workers : buffer'[v]["upload"] = buffer[v]["upload"]
      PROVE  Places(n)' = Places(n)
  <2>1. \A v \in Workers, i \in 1..Prefetch : Holds(v, i, n)' <=> Holds(v, i, n)
    BY <1>2 DEF Holds
  <2> QED BY <2>1 DEF Places
<1> QED BY <1>1, <1>2

LEMMA ReadyCounts ==
  ASSUME ReadyType, NEW m \in Msg, NEW n \in Msg
  PROVE  /\ PutsReady("upload", m) => ready'["upload"][n] = ready["upload"][n] + Count(n, m)
         /\ ready' = [ready EXCEPT !["upload"] = Take(@, m)] /\ ready["upload"][m] > 0 =>
              ready["upload"][n] = ready'["upload"][n] + Count(n, m)
<1>1. "upload" \in Queues /\ ready["upload"] \in [Msg -> Nat]
  BY DEF ReadyType, Queues
<1>2. Put(ready["upload"], m)[n] = ready["upload"][n] + Count(n, m)
  BY <1>1 DEF Put, Count
<1>3. ready["upload"][m] > 0 => ready["upload"][n] = Take(ready["upload"], m)[n] + Count(n, m)
  BY <1>1 DEF Take, Count
<1>4. PutsReady("upload", m) => ready'["upload"] = Put(ready["upload"], m)
  BY <1>1 DEF ReadyType, PutsReady
<1>5. ready' = [ready EXCEPT !["upload"] = Take(@, m)] => ready'["upload"] = Take(ready["upload"], m)
  BY <1>1 DEF ReadyType
<1> QED BY <1>2, <1>3, <1>4, <1>5

\* A step that leaves all copies where they are.
LEMMA StaysUnderway ==
  ASSUME IsFiniteSet(Workers), AllTypes, AllTypes', UNCHANGED waiting,
         ready'["upload"] = ready["upload"],
         \A v \in Workers : buffer'[v]["upload"] = buffer[v]["upload"]
  PROVE  Bag' = Bag
<1>1. ASSUME NEW n \in Msg PROVE Underway(n)' = Underway(n)
  <2>1. Delayed(n)' = Delayed(n) /\ Places(n)' = Places(n)
    BY Unmoved
  <2> QED BY <2>1, Tallied
<1> QED BY <1>1, BagChanges

---------------------------------------------------------------------------
(* What the consumers' hands show of a step *)

LEMMA HandShows ==
  ASSUME HandType, NEW w \in Workers
  PROVE  /\ Held[w] = hand[w]["upload"].msg
         /\ hand[w]["upload"].pc # "idle" <=> Held[w] # NoMsg
         /\ w \in Spent <=> hand[w]["upload"].pc \in {"mark", "ack"}
BY DEF HandType, Queues, Held, Spent

LEMMA HandsKept ==
  ASSUME \A v \in Workers : hand'[v]["upload"] = hand[v]["upload"]
  PROVE  Held' = Held /\ Spent' = Spent
<1>1. Held' = Held
  BY DEF Held
<1>2. Spent' = Spent
  BY DEF Spent
<1> QED BY <1>1, <1>2

LEMMA HandChanges ==
  ASSUME NEW w \in Workers, NEW h, hand'[w]["upload"] = h,
         \A v \in Workers \ {w} : hand'[v]["upload"] = hand[v]["upload"]
  PROVE  /\ Held' = [Held EXCEPT ![w] = h.msg]
         /\ h.pc \in {"mark", "ack"} => Spent' = Spent \cup {w}
         /\ h.pc \notin {"mark", "ack"} => Spent' = Spent \ {w}
<1>1. Held' = [Held EXCEPT ![w] = h.msg]
  <2>1. Held' = [v \in Workers |-> IF v = w THEN h.msg ELSE hand[v]["upload"].msg]
    BY DEF Held
  <2> QED BY <2>1 DEF Held
<1>2. \A v : v \in Spent' <=> v \in Workers /\ hand'[v]["upload"].pc \in {"mark", "ack"}
  BY DEF Spent
<1>3. \A v : v \in Spent <=> v \in Workers /\ hand[v]["upload"].pc \in {"mark", "ack"}
  BY DEF Spent
<1>4. ASSUME h.pc \in {"mark", "ack"} PROVE Spent' = Spent \cup {w}
  BY <1>2, <1>3, <1>4
<1>5. ASSUME h.pc \notin {"mark", "ack"} PROVE Spent' = Spent \ {w}
  BY <1>2, <1>3, <1>5
<1> QED BY <1>1, <1>4, <1>5

\* The delivery in the loop goes on.
LEMMA HandGoesOn ==
  ASSUME HandType, NEW w \in Workers, NEW pc \in HandPc \ {"idle"},
         hand[w]["upload"].pc # "idle", HandGoes(w, "upload", pc)
  PROVE  /\ Held' = Held
         /\ pc \in {"mark", "ack"} => Spent' = Spent \cup {w}
         /\ pc \notin {"mark", "ack"} => Spent' = Spent \ {w}
<1> DEFINE h == hand'[w]["upload"]
<1>0. "upload" \in Queues
  BY DEF Queues
<1>1. h.pc = pc /\ h.msg = hand[w]["upload"].msg
  BY <1>0, HandMoves
<1>2. \A v \in Workers, p \in Queues : <<v, p>> # <<w, "upload">> => hand'[v][p] = hand[v][p]
  BY <1>0, HandMoves
<1>3. \A v \in Workers \ {w} : hand'[v]["upload"] = hand[v]["upload"]
  BY <1>0, <1>2
<1>4. h = hand'[w]["upload"]
  OBVIOUS
<1> HIDE DEF h
<1>5. /\ Held' = [Held EXCEPT ![w] = h.msg]
      /\ h.pc \in {"mark", "ack"} => Spent' = Spent \cup {w}
      /\ h.pc \notin {"mark", "ack"} => Spent' = Spent \ {w}
  BY <1>3, <1>4, HandChanges
<1>6. [Held EXCEPT ![w] = hand[w]["upload"].msg] = Held
  BY DEF Held
<1> QED BY <1>1, <1>5, <1>6

\* The loop is set to h.
LEMMA HandGets ==
  ASSUME HandType, NEW w \in Workers, NEW h \in HandRecord,
         h.pc = "idle" <=> h.msg = NoMsg, SetsHand(w, "upload", h)
  PROVE  /\ Held' = [Held EXCEPT ![w] = h.msg]
         /\ h.pc \notin {"mark", "ack"} => Spent' = Spent \ {w}
<1>0. "upload" \in Queues
  BY DEF Queues
<1>1. hand'[w]["upload"] = h
  BY <1>0, HandSet
<1>2. \A v \in Workers, p \in Queues : <<v, p>> # <<w, "upload">> => hand'[v][p] = hand[v][p]
  BY <1>0, HandSet
<1>3. \A v \in Workers \ {w} : hand'[v]["upload"] = hand[v]["upload"]
  BY <1>0, <1>2
<1> QED BY <1>1, <1>3, HandChanges

LEMMA HandIdles ==
  ASSUME HandType, NEW w \in Workers, hand' = [hand EXCEPT ![w]["upload"] = Idle]
  PROVE  Held' = [Held EXCEPT ![w] = NoMsg] /\ Spent' = Spent \ {w}
<1>1. SetsHand(w, "upload", Idle)
  BY DEF SetsHand
<1>2. Idle \in HandRecord /\ Idle.pc = "idle" /\ Idle.msg = NoMsg /\ Idle.pc \notin {"mark", "ack"}
  BY IdleRecord
<1>3. Held' = [Held EXCEPT ![w] = Idle.msg] /\ Spent' = Spent \ {w}
  BY <1>1, <1>2, HandGets
<1> QED BY <1>2, <1>3

\* What the loop for deletes does is not seen.
LEMMA DeletesUnseen ==
  ASSUME HandType, NEW w \in Workers,
         \/ \E h : hand' = [hand EXCEPT ![w]["delete"] = h]
         \/ \E pc : HandGoes(w, "delete", pc)
  PROVE  Held' = Held /\ Spent' = Spent
<1>1. \A v \in Workers : hand'[v]["upload"] = hand[v]["upload"]
  BY DEF HandType, HandGoes, Queues
<1> QED BY <1>1, HandsKept

---------------------------------------------------------------------------
(* The broker's steps *)

LEMMA PublishingCarries ==
  ASSUME IsFiniteSet(Workers), AllTypes, AllTypes', NEW q \in Queues, NEW a \in Avatars,
         PublishEvent(q, a)
  PROVE  Carries
<1> DEFINE m == [avatar |-> a, retry |-> 0]
<1>1. m \in Msg /\ m.retry = 0
  BY DeliveryRetryAssumption DEF Msg
<1>2. UNCHANGED <<waiting, dead, linked, buffer, hand>>
  BY DEF PublishEvent, processVars
<1>3. Held' = Held /\ Spent' = Spent
  BY <1>2, HandsKept
<1>4. PutsReady(q, m)
  BY DEF PublishEvent, PutsReady
<1> HIDE DEF m
<1>5. CASE q = "delete"
  <2>1. ready'["upload"] = ready["upload"]
    BY <1>4, <1>5 DEF PutsReady, AllTypes, ReadyType, Queues
  <2>2. Bag' = Bag
    BY <1>2, <2>1, StaysUnderway
  <2> QED BY <1>2, <1>3, <2>2 DEF Carries
<1>6. CASE q = "upload"
  <2>1. ASSUME NEW n \in Msg PROVE Underway(n)' = Underway(n) + Count(n, m)
    <3>1. ready'["upload"][n] = ready["upload"][n] + Count(n, m)
      BY <1>1, <1>4, <1>6, ReadyCounts DEF AllTypes
    <3>2. Delayed(n)' = Delayed(n) /\ Places(n)' = Places(n)
      BY <1>2, Unmoved
    <3>3. /\ ready["upload"][n] \in Nat /\ Delayed(n) \in Nat /\ Cardinality(Places(n)) \in Nat
          /\ Count(n, m) \in Nat
      BY Counted DEF Count
    <3> QED BY <3>1, <3>2, <3>3, Tallied
  <2>2. Bag' = Put(Bag, m)
    BY <1>1, <2>1, BagChanges
  <2>3. Consumers!Accept(m)
    BY <1>1, <1>2, <1>3, <2>2 DEF Consumers!Accept, Consumers!Put, Put, Bag, Held, Spent
  <2>4. m \in Consumers!Msg
    BY <1>1 DEF Msg, Consumers!Msg
  <2> QED BY <2>3, <2>4 DEF Carries, Consumers!TransportNext
<1> QED BY <1>5, <1>6 DEF Queues

LEMMA PushingCarries ==
  ASSUME IsFiniteSet(Workers), AllTypes, AllTypes', NEW w \in Workers, NEW q \in Queues,
         NEW m \in Msg, Push(w, q, m)
  PROVE  Carries
<1>1. UNCHANGED <<waiting, dead, linked, hand>>
  BY DEF Push, processVars
<1>2. Held' = Held /\ Spent' = Spent
  BY <1>1, HandsKept
<1>3. /\ ready' = [ready EXCEPT ![q] = Take(@, m)] /\ ready[q][m] > 0
      /\ SetsBuffer(w, q, Append(buffer[w][q], m))
      /\ Outstanding(w, q) < Prefetch
  BY DEF Push, SetsBuffer
<1>4. Append(buffer[w][q], m) \in Seq(Msg)
  BY DEF AllTypes, BufferType
<1>5. CASE q = "delete"
  <2>1. ready'["upload"] = ready["upload"]
    BY <1>3, <1>5 DEF AllTypes, ReadyType, Queues
  <2>2. \A v \in Workers, p \in Queues : <<v, p>> # <<w, q>> => buffer'[v][p] = buffer[v][p]
    BY <1>3, <1>4, BufferSet DEF AllTypes
  <2>3. \A v \in Workers : buffer'[v]["upload"] = buffer[v]["upload"]
    BY <1>5, <2>2 DEF Queues
  <2>4. Bag' = Bag
    BY <1>1, <2>1, <2>3, StaysUnderway
  <2> QED BY <1>1, <1>2, <2>4 DEF Carries
<1>6. CASE q = "upload"
  <2>1. Len(buffer[w]["upload"]) < Prefetch
    <3>1. Len(buffer[w]["upload"]) \in Nat
      BY <1>6 DEF AllTypes, BufferType
    <3>2. Outstanding(w, "upload") < Prefetch
      BY <1>3, <1>6
    <3>3. \/ Outstanding(w, "upload") = Len(buffer[w]["upload"])
          \/ Outstanding(w, "upload") = Len(buffer[w]["upload"]) + 1
      <4>1. CASE hand[w]["upload"].pc = "idle"
        BY <3>1, <4>1 DEF Outstanding
      <4>2. CASE hand[w]["upload"].pc # "idle"
        BY <3>1, <4>2 DEF Outstanding
      <4> QED BY <4>1, <4>2
    <3> QED BY <3>1, <3>2, <3>3, PrefetchAssumption
  <2>2. ASSUME NEW n \in Msg PROVE Underway(n)' = Underway(n)
    <3>1. ready["upload"][n] = ready'["upload"][n] + Count(n, m)
      BY <1>3, <1>6, ReadyCounts DEF AllTypes
    <3>2. Delayed(n)' = Delayed(n)
      BY <1>1, Unmoved
    <3>3. Cardinality(Places(n)') = Cardinality(Places(n)) + Count(n, m)
      BY <1>3, <1>6, <2>1, PushedCounts DEF AllTypes
    <3>4. /\ ready'["upload"][n] \in Nat /\ Delayed(n) \in Nat /\ Cardinality(Places(n)) \in Nat
          /\ Count(n, m) \in Nat
      BY Counted DEF Count
    <3> QED BY <3>1, <3>2, <3>3, <3>4, Tallied
  <2>3. Bag' = Bag
    BY <2>2, BagChanges
  <2> QED BY <1>1, <1>2, <2>3 DEF Carries
<1> QED BY <1>5, <1>6 DEF Queues

LEMMA ExpiryCarries ==
  ASSUME IsFiniteSet(Workers), AllTypes, AllTypes', Fits, NEW l \in 1..MaxRetry, NEW m \in Msg,
         Expire(l, m)
  PROVE  Carries
<1>1. UNCHANGED <<dead, linked, buffer, hand>>
  BY DEF Expire, processVars
<1>2. Held' = Held /\ Spent' = Spent
  BY <1>1, HandsKept
<1>3. PutsReady("upload", m) /\ m.retry = l
  BY DEF Expire, PutsReady, Fits
<1>4. waiting[l][m] > 0 /\ waiting' = [waiting EXCEPT ![l] = Take(@, m)]
  BY DEF Expire
<1>5. ASSUME NEW n \in Msg PROVE Underway(n)' = Underway(n)
  <2>1. ready'["upload"][n] = ready["upload"][n] + Count(n, m)
    BY <1>3, ReadyCounts DEF AllTypes
  <2>2. Delayed(n) = Delayed(n)' + Count(n, m)
    <3>1. waiting[l] \in [Msg -> Nat] /\ l # 0
      BY DeliveryRetryAssumption DEF AllTypes, WaitingType
    <3>2. waiting'[l] = Take(waiting[l], m)
      BY <1>4 DEF AllTypes, WaitingType
    <3>3. waiting[l][n] = waiting'[l][n] + Count(n, m)
      BY <1>4, <3>1, <3>2 DEF Take, Count
    <3>4. CASE n.retry = l
      BY <3>1, <3>3, <3>4 DEF Delayed
    <3>5. CASE n.retry # l
      <4>1. n # m
        BY <1>3, <3>5
      <4>2. n.retry # 0 => n.retry \in 1..MaxRetry
        BY DeliveryRetryAssumption DEF Msg
      <4>3. n.retry # 0 => waiting'[n.retry] = waiting[n.retry]
        BY <1>4, <3>5, <4>2 DEF AllTypes, WaitingType
      <4>4. Delayed(n)' = Delayed(n) /\ Delayed(n) \in Nat
        BY <4>3, Counted DEF Delayed
      <4> QED BY <4>1, <4>4 DEF Count
    <3> QED BY <3>4, <3>5
  <2>3. Places(n)' = Places(n)
    BY <1>1, Unmoved
  <2>4. /\ ready["upload"][n] \in Nat /\ Delayed(n)' \in Nat /\ Cardinality(Places(n)) \in Nat
        /\ Count(n, m) \in Nat
    BY Counted DEF Count
  <2> QED BY <2>1, <2>2, <2>3, <2>4, Tallied
<1>6. Bag' = Bag
  BY <1>5, BagChanges
<1> QED BY <1>1, <1>2, <1>6 DEF Carries

\* A step that touches neither queues nor hands is invisible.
LEMMA NothingCarried ==
  ASSUME IsFiniteSet(Workers), AllTypes, AllTypes',
         UNCHANGED <<ready, waiting, dead, linked, buffer, hand>>
  PROVE  Carries
<1>1. Bag' = Bag
  BY StaysUnderway
<1>2. Held' = Held /\ Spent' = Spent
  BY HandsKept
<1> QED BY <1>1, <1>2 DEF Carries

LEMMA BrokerCarries ==
  ASSUME IsFiniteSet(Workers), AllTypes, AllTypes', Fits, BrokerStep
  PROVE  Carries
<1>1. ASSUME NEW a \in Avatars, SoftDelete(a) PROVE Carries
  BY <1>1, NothingCarried DEF SoftDelete, processVars
<1> QED BY <1>1, PublishingCarries, PushingCarries, ExpiryCarries DEF BrokerStep

---------------------------------------------------------------------------
(* The steps of the loops *)

LEMMA TakingCarries ==
  ASSUME IsFiniteSet(Workers), AllTypes, AllTypes', Fits, NEW w \in Workers, NEW q \in Queues,
         TakeNext(w, q)
  PROVE  Carries
<1> DEFINE m == Head(buffer[w][q])
           h == [pc |-> "handling", msg |-> m]
<1>0. HandType /\ BufferType /\ "upload" \in Queues
  BY DEF AllTypes, Queues
<1>1. m \in Msg /\ Tail(buffer[w][q]) \in Seq(Msg)
  BY <1>0 DEF TakeNext, BufferType
<1>2. h \in HandRecord /\ h.pc # "idle" /\ h.msg # NoMsg /\ h.msg = m /\ h.pc \notin {"mark", "ack"}
  BY <1>1, DeliveryNoMsgAssumption DEF HandRecord, HandPc
<1>3. SetsHand(w, q, h) /\ SetsBuffer(w, q, Tail(buffer[w][q]))
  BY DEF TakeNext, SetsHand, SetsBuffer
<1>4. UNCHANGED <<ready, waiting, dead, linked>>
  BY DEF TakeNext, brokerVars, processVars
<1>5. buffer[w][q] # <<>> /\ hand[w][q].pc = "idle"
  BY DEF TakeNext
<1>6. CASE q = "delete"
  <2>1. Held' = Held /\ Spent' = Spent
    BY <1>0, <1>3, <1>6, DeletesUnseen DEF SetsHand
  <2>2. \A v \in Workers, p \in Queues : <<v, p>> # <<w, q>> => buffer'[v][p] = buffer[v][p]
    BY <1>0, <1>1, <1>3, BufferSet
  <2>3. \A v \in Workers : buffer'[v]["upload"] = buffer[v]["upload"]
    BY <1>0, <1>6, <2>2
  <2>4. Bag' = Bag
    BY <1>4, <2>3, StaysUnderway
  <2> QED BY <1>4, <2>1, <2>4 DEF Carries
<1>7. CASE q = "upload"
  <2>1. w \in linked /\ Held[w] = NoMsg /\ w \notin Spent
    BY <1>0, <1>5, <1>7, HandShows DEF Fits
  <2>2. SetsHand(w, "upload", h) /\ SetsBuffer(w, "upload", Tail(buffer[w]["upload"]))
        /\ m = Head(buffer[w]["upload"])
    BY <1>3, <1>7
  <2> HIDE DEF m, h
  <2>3. Held' = [Held EXCEPT ![w] = m] /\ Spent' = Spent \ {w}
    BY <1>0, <1>2, <2>2, HandGets
  <2>4. ASSUME NEW n \in Msg PROVE Underway(n) = Underway(n)' + Count(n, m)
    <3>1. Cardinality(Places(n)) = Cardinality(Places(n)') + Count(n, m)
      BY <1>0, <1>5, <1>7, <2>2, TakenCounts DEF Fits
    <3>2. Delayed(n)' = Delayed(n) /\ ready'["upload"][n] = ready["upload"][n]
      BY <1>4, Unmoved
    <3>3. /\ ready["upload"][n] \in Nat /\ Delayed(n) \in Nat /\ Cardinality(Places(n)') \in Nat
          /\ Count(n, m) \in Nat
      BY Counted DEF Count
    <3> QED BY <3>1, <3>2, <3>3, Tallied
  <2>5. Bag' = Take(Bag, m) /\ Bag[m] > 0
    BY <1>1, <2>4, BagChanges
  <2>6. Spent' = Spent
    BY <2>1, <2>3
  <2>7. Consumers!Deliver(w, m)
    BY <1>4, <2>1, <2>3, <2>5, <2>6
       DEF Consumers!Deliver, Consumers!Lets, Consumers!Take, Take, Bag, Held, Spent
  <2>8. m \in Consumers!Msg
    BY <1>1 DEF Msg, Consumers!Msg
  <2> QED BY <2>7, <2>8 DEF Carries, Consumers!TransportNext
<1> QED BY <1>6, <1>7 DEF Queues

LEMMA RetryCarries ==
  ASSUME IsFiniteSet(Workers), AllTypes, AllTypes', NEW w \in Workers, PublishRetry(w)
  PROVE  Carries
<1> DEFINE m    == hand[w]["upload"].msg
           next == [m EXCEPT !.retry = @ + 1]
           l    == next.retry
<1>0. HandType /\ "upload" \in Queues /\ "ack" \in HandPc \ {"idle"} /\ "ack" \in {"mark", "ack"}
  BY DEF AllTypes, Queues, HandPc
<1>1. /\ hand[w]["upload"].pc = "failed" /\ w \in linked /\ m.retry < MaxRetry
      /\ waiting' = [waiting EXCEPT ![l] = Put(@, next)]
      /\ HandGoes(w, "upload", "ack") /\ UNCHANGED <<ready, dead, linked, buffer>>
  BY DEF PublishRetry, processVars
<1>2. m \in Msg
  BY <1>0, <1>1, InHandTyped
<1>3. next \in Msg /\ l \in 1..MaxRetry /\ l # 0
  BY <1>1, <1>2, DeliveryRetryAssumption DEF Msg
<1>4. Held' = Held /\ Spent' = Spent \cup {w}
  BY <1>0, <1>1, HandGoesOn
<1>5. Held[w] = m /\ Held[w] # NoMsg /\ w \notin Spent
  BY <1>0, <1>1, HandShows
<1>6. next = [Held[w] EXCEPT !.retry = @ + 1] /\ Held[w].retry < MaxRetry
  BY <1>1, <1>5
<1>7. next.retry = l
  OBVIOUS
<1> HIDE DEF m, next, l
<1>8. ASSUME NEW n \in Msg PROVE Underway(n)' = Underway(n) + Count(n, next)
  <2>1. Delayed(n)' = Delayed(n) + Count(n, next)
    <3>1. waiting[l] \in [Msg -> Nat] /\ waiting'[l] = Put(waiting[l], next)
      BY <1>1, <1>3 DEF AllTypes, WaitingType
    <3>2. waiting'[l][n] = waiting[l][n] + Count(n, next)
      BY <1>3, <3>1 DEF Put, Count
    <3>3. CASE n.retry = l
      BY <1>3, <3>2, <3>3 DEF Delayed
    <3>4. CASE n.retry # l
      <4>1. n # next
        BY <1>7, <3>4
      <4>2. n.retry # 0 => n.retry \in 1..MaxRetry
        BY DeliveryRetryAssumption DEF Msg
      <4>3. n.retry # 0 => waiting'[n.retry] = waiting[n.retry]
        BY <1>1, <3>4, <4>2 DEF AllTypes, WaitingType
      <4>4. Delayed(n)' = Delayed(n) /\ Delayed(n) \in Nat
        BY <4>3, Counted DEF Delayed
      <4> QED BY <4>1, <4>4 DEF Count
    <3> QED BY <3>3, <3>4
  <2>2. Places(n)' = Places(n) /\ ready'["upload"][n] = ready["upload"][n]
    BY <1>1, Unmoved
  <2>3. /\ ready["upload"][n] \in Nat /\ Delayed(n) \in Nat /\ Cardinality(Places(n)) \in Nat
        /\ Count(n, next) \in Nat
    BY Counted DEF Count
  <2> QED BY <2>1, <2>2, <2>3, Tallied
<1>9. Bag' = Put(Bag, next)
  BY <1>3, <1>8, BagChanges
<1>10. Bag' = Put(Bag, [Held[w] EXCEPT !.retry = @ + 1])
  BY <1>6, <1>9
<1>11. Consumers!Retry(w)
  BY <1>1, <1>4, <1>5, <1>6, <1>10
     DEF Consumers!Retry, Consumers!InHand, Consumers!Put, Put, Bag, Held, Spent
<1> QED BY <1>11 DEF Carries, Consumers!TransportNext

LEMMA RequeueCarries ==
  ASSUME IsFiniteSet(Workers), AllTypes, AllTypes', NEW w \in Workers, Requeue(w)
  PROVE  Carries
<1> DEFINE m == hand[w]["upload"].msg
<1>0. HandType /\ "upload" \in Queues
  BY DEF AllTypes, Queues
<1>1. /\ hand[w]["upload"].pc = "failed" /\ w \in linked
      /\ PutsReady("upload", m)
      /\ hand' = [hand EXCEPT ![w]["upload"] = Idle]
      /\ UNCHANGED <<waiting, dead, linked, buffer>>
  BY DEF Requeue, PutsReady, processVars
<1>2. m \in Msg
  BY <1>0, <1>1, InHandTyped
<1>3. Held[w] = m /\ Held[w] # NoMsg /\ w \notin Spent
  BY <1>0, <1>1, HandShows
<1>4. Held' = [Held EXCEPT ![w] = NoMsg] /\ Spent' = Spent
  <2>1. Held' = [Held EXCEPT ![w] = NoMsg] /\ Spent' = Spent \ {w}
    BY <1>0, <1>1, HandIdles
  <2> QED BY <1>3, <2>1
<1> HIDE DEF m
<1>5. ASSUME NEW n \in Msg PROVE Underway(n)' = Underway(n) + Count(n, m)
  <2>1. ready'["upload"][n] = ready["upload"][n] + Count(n, m)
    BY <1>1, <1>2, ReadyCounts DEF AllTypes
  <2>2. Delayed(n)' = Delayed(n) /\ Places(n)' = Places(n)
    BY <1>1, Unmoved
  <2>3. /\ ready["upload"][n] \in Nat /\ Delayed(n) \in Nat /\ Cardinality(Places(n)) \in Nat
        /\ Count(n, m) \in Nat
    BY Counted DEF Count
  <2> QED BY <2>1, <2>2, <2>3, Tallied
<1>6. Bag' = Put(Bag, Held[w])
  BY <1>2, <1>3, <1>5, BagChanges
<1>7. Consumers!GiveBack(w)
  BY <1>1, <1>3, <1>4, <1>6
     DEF Consumers!GiveBack, Consumers!InHand, Consumers!Lets, Consumers!Put, Put, Bag, Held, Spent
<1> QED BY <1>7 DEF Carries, Consumers!TransportNext

LEMMA LoopCarries ==
  ASSUME IsFiniteSet(Workers), AllTypes, AllTypes', Fits, NEW w \in Workers, LoopStep(w)
  PROVE  Carries
<1>0. HandType /\ "ack" \in HandPc \ {"idle"} /\ "mark" \in HandPc \ {"idle"}
      /\ "failed" \in HandPc \ {"idle"} /\ "failed" \notin {"mark", "ack"}
  BY DEF AllTypes, HandPc
<1>h. /\ Held[w] = hand[w]["upload"].msg
      /\ hand[w]["upload"].pc \in {"handling", "failed"} => Held[w] # NoMsg /\ w \notin Spent
      /\ hand[w]["upload"].pc \in {"mark", "ack"} => w \in Spent
  BY <1>0, HandShows
<1>s. ASSUME UNCHANGED <<ready, waiting, buffer>> PROVE Bag' = Bag
  BY <1>s, StaysUnderway
<1>n. Consumers!TransportNext => Carries
  BY DEF Carries
<1>1. ASSUME NEW q \in Queues, TakeNext(w, q) PROVE Carries
  BY <1>1, TakingCarries
<1>2. ASSUME NEW q \in Queues, Ack(w, q) PROVE Carries
  <2>1. hand[w][q].pc = "ack" /\ hand' = [hand EXCEPT ![w][q] = Idle]
        /\ UNCHANGED <<ready, waiting, dead, linked, buffer>>
    BY <1>2 DEF Ack, brokerVars, processVars
  <2>2. CASE q = "delete"
    <3>1. Held' = Held /\ Spent' = Spent
      BY <1>0, <2>1, <2>2, DeletesUnseen
    <3> QED BY <1>s, <2>1, <3>1 DEF Carries
  <2>3. CASE q = "upload"
    <3>1. Held' = [Held EXCEPT ![w] = NoMsg] /\ Spent' = Spent \ {w}
      BY <1>0, <2>1, <2>3, HandIdles
    <3>2. Consumers!Acknowledge(w)
      BY <1>s, <1>h, <2>1, <2>3, <3>1 DEF Consumers!Acknowledge, Consumers!Lets, Bag, Held, Spent
    <3> QED BY <1>n, <3>2 DEF Consumers!TransportNext
  <2> QED BY <2>2, <2>3 DEF Queues
<1>3. CASE HandlerSucceeds(w)
  <2>1. hand[w]["upload"].pc = "handling" /\ HandGoes(w, "upload", "ack")
        /\ UNCHANGED <<ready, waiting, dead, linked, buffer>>
    BY <1>3 DEF HandlerSucceeds, brokerVars, processVars
  <2>2. Held' = Held /\ Spent' = Spent \cup {w}
    BY <1>0, <2>1, HandGoesOn
  <2>3. Consumers!Handled(w)
    BY <1>s, <1>h, <2>1, <2>2 DEF Consumers!Handled, Consumers!InHand, Bag, Held, Spent
  <2> QED BY <1>n, <2>3 DEF Consumers!TransportNext
<1>4. CASE HandlerFails(w)
  <2>1. hand[w]["upload"].pc = "handling" /\ HandGoes(w, "upload", "failed")
        /\ UNCHANGED <<ready, waiting, dead, linked, buffer>>
    BY <1>4 DEF HandlerFails, brokerVars, processVars
  <2>2. Held' = Held /\ Spent' = Spent \ {w}
    BY <1>0, <2>1, HandGoesOn
  <2> QED BY <1>s, <1>h, <2>1, <2>2 DEF Carries
<1>5. CASE DeleteHandled(w)
  <2>1. HandGoes(w, "delete", "ack") /\ UNCHANGED <<ready, waiting, dead, linked, buffer>>
    BY <1>5 DEF DeleteHandled, brokerVars, processVars
  <2>2. Held' = Held /\ Spent' = Spent
    BY <1>0, <2>1, DeletesUnseen
  <2> QED BY <1>s, <2>1, <2>2 DEF Carries
<1>6. CASE PublishRetry(w)
  BY <1>6, RetryCarries
<1>7. CASE PublishToDLQ(w)
  <2>1. /\ hand[w]["upload"].pc = "failed" /\ HandGoes(w, "upload", "mark")
        /\ w \in linked /\ Held[w].retry >= MaxRetry /\ dead' = dead \cup {Held[w].avatar}
        /\ UNCHANGED <<ready, waiting, linked, buffer>>
    BY <1>7, <1>h DEF PublishToDLQ, processVars
  <2>2. Held' = Held /\ Spent' = Spent \cup {w}
    BY <1>0, <2>1, HandGoesOn
  <2>3. Consumers!DeadLetter(w)
    BY <1>s, <1>h, <2>1, <2>2 DEF Consumers!DeadLetter, Consumers!InHand, Bag, Held, Spent
  <2> QED BY <1>n, <2>3 DEF Consumers!TransportNext
<1>8. CASE MarkFailed(w)
  <2>1. hand[w]["upload"].pc = "mark" /\ HandGoes(w, "upload", "ack")
        /\ UNCHANGED <<ready, waiting, dead, linked, buffer>>
    BY <1>8 DEF MarkFailed, brokerVars, processVars
  <2>2. Held' = Held /\ Spent' = Spent \cup {w}
    BY <1>0, <2>1, HandGoesOn
  <2> QED BY <1>s, <1>h, <2>1, <2>2 DEF Carries
<1>9. CASE Requeue(w)
  BY <1>9, RequeueCarries
<1>10. CASE GiveUp(w)
  <2>1. hand[w]["upload"].pc = "failed" /\ w \notin linked
        /\ hand' = [hand EXCEPT ![w]["upload"] = Idle]
        /\ UNCHANGED <<ready, waiting, dead, linked, buffer>>
    BY <1>10 DEF GiveUp, brokerVars, processVars
  <2>2. Held' = [Held EXCEPT ![w] = NoMsg] /\ Spent' = Spent \ {w}
    BY <1>0, <2>1, HandIdles
  <2>3. Consumers!Drop(w)
    BY <1>s, <1>h, <2>1, <2>2
       DEF Consumers!Drop, Consumers!InHand, Consumers!Lets, Bag, Held, Spent
  <2> QED BY <1>n, <2>3 DEF Consumers!TransportNext
<1> QED BY <1>1, <1>2, <1>3, <1>4, <1>5, <1>6, <1>7, <1>8, <1>9, <1>10 DEF LoopStep

---------------------------------------------------------------------------
(* The steps of a process *)

\* The broker takes back the buffer, which leaves the bag alone, and what is
\* in the loop's hands.
LEMMA TakingBackShows ==
  ASSUME IsFiniteSet(Workers), AllTypes, AllTypes', Fits, NEW w \in Workers, TakeBack(w),
         UNCHANGED waiting
  PROVE  Bag' = IF w \in linked /\ Held[w] # NoMsg THEN Put(Bag, Held[w]) ELSE Bag
<1> DEFINE s == buffer[w]["upload"]
           m == hand[w]["upload"].msg
<1>0. ReadyType /\ BufferType /\ HandType /\ "upload" \in Queues
  BY DEF AllTypes, Queues
<1>1. /\ \A q \in Queues : buffer'[w][q] = <<>>
      /\ \A v \in Workers \ {w} : buffer'[v] = buffer[v]
  BY <1>0, TakesBack
<1>2. Held[w] = m /\ m \in Msg \cup {NoMsg} /\ Len(s) <= Prefetch /\ s \in Seq(Msg)
  BY <1>0 DEF Held, HandType, HandRecord, BufferType, Fits
<1>3. ASSUME NEW n \in Msg
      PROVE  /\ w \in linked /\ n = m => Underway(n)' = Underway(n) + 1
             /\ ~(w \in linked /\ n = m) => Underway(n)' = Underway(n)
  <2> DEFINE copies == {i \in 1..Len(s) : s[i] = n}
  <2>1. ready'["upload"][n] = ready["upload"][n] + Unacked(w, "upload", n)
    <3>1. ready' = [q \in Queues |-> [p \in Msg |-> ready[q][p] + Unacked(w, q, p)]]
      BY DEF TakeBack
    <3>2. ready'["upload"] = [p \in Msg |-> ready["upload"][p] + Unacked(w, "upload", p)]
      BY <1>0, <3>1
    <3> QED BY <3>2
  <2>2. Cardinality(copies) \in Nat
    <3>1. IsFiniteSet(1..Len(s)) /\ copies \in SUBSET (1..Len(s))
      BY <1>2, FS_Interval
    <3> HIDE DEF copies
    <3>2. IsFiniteSet(copies)
      BY <3>1, FS_Subset
    <3> QED BY <3>2, FS_CardinalityType
  <2>3. /\ w \in linked /\ n = m => Unacked(w, "upload", n) = Cardinality(copies) + 1
        /\ ~(w \in linked /\ n = m) => Unacked(w, "upload", n) = Cardinality(copies)
    <3>1. CASE w \in linked /\ n = m
      BY <3>1 DEF Unacked
    <3>2. CASE ~(w \in linked /\ n = m)
      <4>1. Unacked(w, "upload", n) = Cardinality(copies) + 0
        BY <3>2 DEF Unacked
      <4> HIDE DEF copies
      <4> QED BY <2>2, <3>2, <4>1
    <3> QED BY <3>1, <3>2
  <2>4. Cardinality(Places(n)) = Cardinality(Places(n)') + Cardinality(copies)
    BY <1>0, <1>1, <1>2, EmptiedCounts
  <2>5. Delayed(n)' = Delayed(n)
    BY Unmoved
  <2>6. /\ ready["upload"][n] \in Nat /\ Delayed(n) \in Nat /\ Cardinality(Places(n)') \in Nat
        /\ ready'["upload"][n] \in Nat /\ Cardinality(Places(n)) \in Nat
    BY Counted
  <2>7. /\ Underway(n) = ready["upload"][n] + Delayed(n) + Cardinality(Places(n))
        /\ Underway(n)' = ready'["upload"][n] + Delayed(n)' + Cardinality(Places(n)')
    BY Tallied
  <2> HIDE DEF copies, m
  <2> QED BY <2>1, <2>2, <2>3, <2>4, <2>5, <2>6, <2>7
<1>4. CASE w \in linked /\ m # NoMsg
  <2>1. m \in Msg
    BY <1>2, <1>4
  <2> HIDE DEF m
  <2>2. ASSUME NEW n \in Msg PROVE Underway(n)' = Underway(n) + Count(n, m)
    <3>1. Underway(n) \in Nat
      <4>1. ready["upload"][n] \in Nat /\ Delayed(n) \in Nat /\ Cardinality(Places(n)) \in Nat
        BY Counted
      <4> QED BY <4>1, Tallied
    <3> QED BY <1>3, <1>4, <3>1 DEF Count
  <2>3. Bag' = Put(Bag, m)
    BY <2>1, <2>2, BagChanges
  <2> QED BY <1>2, <1>4, <2>3
<1>5. CASE ~(w \in linked /\ m # NoMsg)
  <2>1. \A n \in Msg : ~(w \in linked /\ n = m)
    BY <1>5, DeliveryNoMsgAssumption
  <2>2. Bag' = Bag
    BY <1>3, <2>1, BagChanges
  <2> QED BY <1>2, <1>5, <2>2
<1> QED BY <1>4, <1>5

LEMMA EndCarries ==
  ASSUME IsFiniteSet(Workers), AllTypes, AllTypes', Fits, NEW w \in Workers, Ends(w)
  PROVE  Carries
<1>0. HandType /\ "upload" \in Queues
  BY DEF AllTypes, Queues
<1>1. TakeBack(w) /\ Idles(w) /\ UNCHANGED <<waiting, dead>> /\ linked' = linked \cup {w}
  BY DEF Ends, Idles
<1>2. Bag' = IF w \in linked /\ Held[w] # NoMsg THEN Put(Bag, Held[w]) ELSE Bag
  BY <1>1, TakingBackShows
<1>3. Held' = [Held EXCEPT ![w] = NoMsg] /\ Spent' = Spent \ {w}
  <2>1. hand'[w]["upload"] = Idle /\ \A v \in Workers \ {w} : hand'[v]["upload"] = hand[v]["upload"]
    BY <1>0, <1>1, HandsIdle
  <2>2. Idle.msg = NoMsg /\ Idle.pc \notin {"mark", "ack"}
    BY IdleRecord
  <2>3. Held' = [Held EXCEPT ![w] = Idle.msg] /\ Spent' = Spent \ {w}
    BY <2>1, <2>2, HandChanges
  <2> QED BY <2>2, <2>3
<1>4. Consumers!End(w)
  BY <1>1, <1>2, <1>3
     DEF Consumers!End, Consumers!TakenBack, Consumers!Lets, Consumers!Put, Put, Bag, Held, Spent
<1> QED BY <1>4 DEF Carries, Consumers!TransportNext

LEMMA ProcessCarries ==
  ASSUME IsFiniteSet(Workers), AllTypes, AllTypes', Fits, NEW w \in Workers,
         RunStep(w) \/ Signal(w) \/ StartFails(w) \/ Crash(w) \/ Disconnect(w)
  PROVE  Carries
<1>1. CASE Return(w) \/ StartFails(w) \/ Crash(w)
  BY <1>1, EndCarries DEF Return, StartFails, Crash
<1>2. CASE Disconnect(w)
  <2>1. TakeBack(w) /\ w \in linked /\ linked' = linked \ {w} /\ UNCHANGED <<waiting, dead, hand>>
    BY <1>2 DEF Disconnect
  <2>2. Bag' = IF w \in linked /\ Held[w] # NoMsg THEN Put(Bag, Held[w]) ELSE Bag
    BY <2>1, TakingBackShows
  <2>3. Held' = Held /\ Spent' = Spent
    BY <2>1, HandsKept
  <2>4. Consumers!Lose(w)
    BY <2>1, <2>2, <2>3
       DEF Consumers!Lose, Consumers!TakenBack, Consumers!Put, Put, Bag, Held, Spent
  <2> QED BY <2>4 DEF Carries, Consumers!TransportNext
<1>3. ASSUME UNCHANGED <<brokerVars, linked, buffer, hand>> PROVE Carries
  <2>1. UNCHANGED <<ready, waiting, dead, linked, buffer, hand>>
    BY <1>3 DEF brokerVars
  <2>2. Bag' = Bag
    BY <2>1, StaysUnderway
  <2>3. Held' = Held /\ Spent' = Spent
    BY <2>1, HandsKept
  <2> QED BY <2>1, <2>2, <2>3 DEF Carries
<1>4. CASE StartUploadConsumer(w) \/ StartDeleteConsumer(w) \/ CancelUpload(w) \/ CancelDelete(w)
  BY <1>3, <1>4 DEF StartUploadConsumer, StartDeleteConsumer, CancelUpload, CancelDelete
<1>5. CASE WaitForUploads(w) \/ WaitForDeletes(w) \/ Signal(w)
  BY <1>3, <1>5 DEF WaitForUploads, WaitForDeletes, WaitForLoop, Signal
<1> QED BY <1>1, <1>2, <1>4, <1>5 DEF RunStep

---------------------------------------------------------------------------
(* Buffers and retry queues hold what the counts need *)

LEMMA FitsStays ==
  ASSUME Fits, UNCHANGED <<waiting, buffer>>, UNCHANGED linked
  PROVE  Fits'
BY DEF Fits

LEMMA BufferFits ==
  ASSUME AllTypes, Fits, UNCHANGED <<waiting, linked>>, NEW w \in Workers, NEW q \in Queues,
         NEW s \in Seq(Msg), SetsBuffer(w, q, s),
         q = "upload" => Len(s) <= Prefetch /\ w \in linked
  PROVE  Fits'
<1>0. "upload" \in Queues
  BY DEF Queues
<1>1. buffer'[w][q] = s
  BY BufferSet DEF AllTypes
<1>2. \A v \in Workers, p \in Queues : <<v, p>> # <<w, q>> => buffer'[v][p] = buffer[v][p]
  BY BufferSet DEF AllTypes
<1>3. ASSUME NEW v \in Workers
      PROVE  Len(buffer'[v]["upload"]) <= Prefetch /\ (buffer'[v]["upload"] # <<>> => v \in linked)
  <2>1. CASE v = w /\ q = "upload"
    BY <1>1, <2>1
  <2>2. CASE ~(v = w /\ q = "upload")
    <3>1. buffer'[v]["upload"] = buffer[v]["upload"]
      BY <1>0, <1>2, <2>2
    <3> QED BY <3>1 DEF Fits
  <2> QED BY <2>1, <2>2
<1> QED BY <1>3 DEF Fits

\* What a connection has leaves with it.
LEMMA EmptiedFits ==
  ASSUME AllTypes, Fits, NEW w \in Workers, TakeBack(w), UNCHANGED waiting,
         linked' = linked \cup {w} \/ linked' = linked \ {w}
  PROVE  Fits'
<1>0. "upload" \in Queues /\ Len(<<>>) = 0 /\ Prefetch \in Nat
  BY PrefetchAssumption DEF Queues
<1>1. buffer'[w]["upload"] = <<>> /\ \A v \in Workers \ {w} : buffer'[v] = buffer[v]
  BY <1>0, TakesBack DEF AllTypes
<1>2. ASSUME NEW v \in Workers
      PROVE  Len(buffer'[v]["upload"]) <= Prefetch /\ (buffer'[v]["upload"] # <<>> => v \in linked')
  <2>1. CASE v = w
    BY <1>0, <1>1, <2>1
  <2>2. CASE v # w
    BY <1>1, <2>2 DEF Fits
  <2> QED BY <2>1, <2>2
<1> QED BY <1>2 DEF Fits

LEMMA WaitingFits ==
  ASSUME Fits, UNCHANGED <<buffer, linked>>, NEW k \in 1..MaxRetry, NEW m \in Msg, m.retry = k,
         WaitingType,
         \/ waiting' = [waiting EXCEPT ![k] = Put(@, m)]
         \/ waiting[k][m] > 0 /\ waiting' = [waiting EXCEPT ![k] = Take(@, m)]
  PROVE  Fits'
<1>1. waiting[k] \in [Msg -> Nat]
  BY DEF WaitingType
<1>2. waiting'[k] = Put(waiting[k], m) \/ waiting'[k] = Take(waiting[k], m)
  BY DEF WaitingType
<1>3. ASSUME NEW n \in Msg, waiting'[k][n] > 0 PROVE n.retry = k
  <2>1. n # m => waiting'[k][n] = waiting[k][n]
    BY <1>1, <1>2 DEF Put, Take
  <2> QED BY <1>3, <2>1 DEF Fits
<1>4. \A l \in 1..MaxRetry : l # k => waiting'[l] = waiting[l]
  BY DEF WaitingType
<1>5. ASSUME NEW l \in 1..MaxRetry, NEW n \in Msg, waiting'[l][n] > 0 PROVE n.retry = l
  <2>1. CASE l = k
    BY <1>3, <1>5, <2>1
  <2>2. CASE l # k
    BY <1>4, <1>5, <2>2 DEF Fits
  <2> QED BY <2>1, <2>2
<1> QED BY <1>5 DEF Fits

LEMMA StepFits == AllTypes /\ Fits /\ [DeliveryNext]_deliveryVars => Fits'
<1> SUFFICES ASSUME AllTypes, Fits, [DeliveryNext]_deliveryVars PROVE Fits'
  OBVIOUS
<1>1. ASSUME NEW q \in Queues, NEW a \in Avatars, PublishEvent(q, a) PROVE Fits'
  BY <1>1, FitsStays DEF PublishEvent, processVars
<1>2. ASSUME NEW w \in Workers, NEW q \in Queues, NEW m \in Msg, Push(w, q, m) PROVE Fits'
  <2> DEFINE s == Append(buffer[w][q], m)
  <2>1. /\ SetsBuffer(w, q, s) /\ Outstanding(w, q) < Prefetch /\ w \in linked
        /\ UNCHANGED <<waiting, linked>>
    BY <1>2 DEF Push, SetsBuffer, processVars
  <2>2. s \in Seq(Msg) /\ Len(s) = Len(buffer[w][q]) + 1 /\ Len(buffer[w][q]) \in Nat
    BY DEF AllTypes, BufferType
  <2>3. Outstanding(w, q) = Len(buffer[w][q]) \/ Outstanding(w, q) = Len(buffer[w][q]) + 1
    <3>1. CASE hand[w][q].pc = "idle"
      BY <2>2, <3>1 DEF Outstanding
    <3>2. CASE hand[w][q].pc # "idle"
      BY <2>2, <3>2 DEF Outstanding
    <3> QED BY <3>1, <3>2
  <2>4. Len(s) <= Prefetch
    BY <2>1, <2>2, <2>3, PrefetchAssumption
  <2> HIDE DEF s
  <2> QED BY <2>1, <2>2, <2>4, BufferFits
<1>3. ASSUME NEW l \in 1..MaxRetry, NEW m \in Msg, Expire(l, m) PROVE Fits'
  <2>1. m.retry = l /\ WaitingType /\ UNCHANGED <<buffer, linked>>
        /\ waiting[l][m] > 0 /\ waiting' = [waiting EXCEPT ![l] = Take(@, m)]
    BY <1>3 DEF Expire, Fits, AllTypes, processVars
  <2> QED BY <2>1, WaitingFits
<1>4. ASSUME NEW w \in Workers, NEW q \in Queues, TakeNext(w, q) PROVE Fits'
  <2> DEFINE s == Tail(buffer[w][q])
  <2>1. buffer[w][q] # <<>> /\ SetsBuffer(w, q, s) /\ UNCHANGED <<waiting, linked>>
    BY <1>4 DEF TakeNext, SetsBuffer, brokerVars, processVars
  <2>2. /\ buffer[w][q] \in Seq(Msg) /\ s \in Seq(Msg) /\ Len(buffer[w][q]) \in Nat
        /\ Len(s) = Len(buffer[w][q]) - 1
    BY <2>1 DEF AllTypes, BufferType
  <2>3. q = "upload" => Len(s) <= Prefetch /\ w \in linked
    <3>1. q = "upload" => Len(buffer[w][q]) <= Prefetch /\ w \in linked
      BY <2>1 DEF Fits
    <3> QED BY <2>2, <3>1, PrefetchAssumption
  <2> HIDE DEF s
  <2> QED BY <2>1, <2>2, <2>3, BufferFits
<1>5. ASSUME NEW w \in Workers, PublishRetry(w) PROVE Fits'
  <2> DEFINE m    == hand[w]["upload"].msg
             next == [m EXCEPT !.retry = @ + 1]
  <2>0. HandType /\ WaitingType /\ "upload" \in Queues
    BY DEF AllTypes, Queues
  <2>1. m \in Msg /\ m.retry < MaxRetry
    BY <1>5, <2>0, InHandTyped DEF PublishRetry
  <2>2. next \in Msg /\ next.retry \in 1..MaxRetry
    BY <2>1, DeliveryRetryAssumption DEF Msg
  <2>3. waiting' = [waiting EXCEPT ![next.retry] = Put(@, next)] /\ UNCHANGED <<buffer, linked>>
    BY <1>5 DEF PublishRetry, processVars
  <2> HIDE DEF m, next
  <2> QED BY <2>0, <2>2, <2>3, WaitingFits
<1>6. ASSUME NEW w \in Workers,
             \/ \E q \in Queues : Ack(w, q)
             \/ HandlerSucceeds(w) \/ HandlerFails(w) \/ DeleteHandled(w)
             \/ PublishToDLQ(w) \/ MarkFailed(w) \/ Requeue(w) \/ GiveUp(w)
      PROVE  Fits'
  <2>1. UNCHANGED <<waiting, buffer, linked>>
    BY <1>6 DEF Ack, HandlerSucceeds, HandlerFails, DeleteHandled, PublishToDLQ, MarkFailed,
                Requeue, GiveUp, brokerVars, processVars
  <2> QED BY <2>1, FitsStays
<1>7. ASSUME NEW w \in Workers, Return(w) \/ StartFails(w) \/ Crash(w) \/ Disconnect(w)
      PROVE  Fits'
  <2>1. TakeBack(w) /\ UNCHANGED waiting /\ (linked' = linked \cup {w} \/ linked' = linked \ {w})
    BY <1>7 DEF Return, StartFails, Crash, Ends, Disconnect
  <2> QED BY <2>1, EmptiedFits
<1>8. ASSUME NEW w \in Workers,
             \/ StartUploadConsumer(w) \/ StartDeleteConsumer(w) \/ CancelUpload(w) \/ CancelDelete(w)
             \/ WaitForUploads(w) \/ WaitForDeletes(w) \/ Signal(w)
      PROVE  Fits'
  <2>1. UNCHANGED <<waiting, buffer, linked>>
    BY <1>8 DEF StartUploadConsumer, StartDeleteConsumer, CancelUpload, CancelDelete,
                WaitForUploads, WaitForDeletes, WaitForLoop, Signal, brokerVars
  <2> QED BY <2>1, FitsStays
<1>9. CASE UNCHANGED deliveryVars
  <2>1. UNCHANGED <<waiting, buffer, linked>>
    BY <1>9 DEF deliveryVars, brokerVars, processVars
  <2> QED BY <2>1, FitsStays
<1>10. CASE BrokerStep
  <2>1. ASSUME NEW a \in Avatars, SoftDelete(a) PROVE Fits'
    BY <2>1, FitsStays DEF SoftDelete, processVars
  <2> QED BY <1>10, <1>1, <1>2, <1>3, <2>1 DEF BrokerStep
<1>11. ASSUME NEW w \in Workers, LoopStep(w) PROVE Fits'
  BY <1>11, <1>4, <1>5, <1>6 DEF LoopStep
<1>12. ASSUME NEW w \in Workers, RunStep(w) PROVE Fits'
  BY <1>12, <1>7, <1>8 DEF RunStep
<1> QED BY <1>7, <1>8, <1>9, <1>10, <1>11, <1>12 DEF DeliveryNext

\* For any finite number of workers, any prefetch, retry levels and faults:
\* retry queues, prefetching, shutdown, restarts and lost connections treat
\* upload events as AvatarTransport says, so that none is dropped on its way
\* (EventsAreNeverDropped).
THEOREM DeliveryImplementsTransport ==
  ASSUME IsFiniteSet(Workers)
  PROVE  Delivery => DeliversAsPromised
<1>1. DeliveryInit => Fits
  <2> SUFFICES ASSUME DeliveryInit PROVE Fits
    OBVIOUS
  <2>1. \A w \in Workers : buffer[w]["upload"] = <<>>
    BY DEF DeliveryInit, Queues
  <2>2. Len(<<>>) = 0 /\ Prefetch \in Nat
    BY PrefetchAssumption
  <2>3. \A l \in 1..MaxRetry, m \in Msg : waiting[l][m] = 0
    BY DEF DeliveryInit, NoMessages
  <2> QED BY <2>1, <2>2, <2>3, PrefetchAssumption DEF Fits
<1>2. DeliveryInit => Consumers!TransportInit
  <2> SUFFICES ASSUME DeliveryInit PROVE Consumers!TransportInit
    OBVIOUS
  <2>0. "upload" \in Queues /\ Len(<<>>) = 0
    BY DEF Queues
  <2>1. ASSUME NEW m \in Msg PROVE Underway(m) = 0
    <3>1. ready["upload"][m] = 0
      BY <2>0 DEF DeliveryInit, NoMessages
    <3>2. m.retry # 0 => m.retry \in 1..MaxRetry
      BY DeliveryRetryAssumption DEF Msg
    <3>3. Delayed(m) = 0
      BY <3>2 DEF DeliveryInit, NoMessages, Delayed
    <3>4. Places(m) = {}
      <4>1. \A v \in Workers : buffer[v]["upload"] = <<>>
        BY <2>0 DEF DeliveryInit
      <4>2. \A v \in Workers, i \in 1..Prefetch : ~Holds(v, i, m)
        BY <2>0, <4>1, PrefetchAssumption DEF Holds
      <4> QED BY <4>2 DEF Places
    <3>5. Cardinality(Places(m)) = 0
      BY <3>4, FS_EmptySet
    <3> QED BY <3>1, <3>3, <3>5, Tallied
  <2>2. Bag = [m \in Consumers!Msg |-> 0]
    BY <2>1 DEF Bag, Msg, Consumers!Msg
  <2>3. Held = [w \in Workers |-> NoMsg] /\ Spent = {}
    BY <2>0 DEF DeliveryInit, Idle, Held, Spent
  <2>4. dead = {} /\ linked = Workers
    BY DEF DeliveryInit
  <2> QED BY <2>2, <2>3, <2>4 DEF Consumers!TransportInit, Bag, Held, Spent
<1>3. AllTypes /\ AllTypes' /\ Fits /\ [DeliveryNext]_deliveryVars
        => [Consumers!TransportNext]_(Consumers!transportVars)
  <2> SUFFICES ASSUME AllTypes, AllTypes', Fits, [DeliveryNext]_deliveryVars PROVE Carries
    BY DEF Carries, Consumers!transportVars, Bag, Held, Spent
  <2>1. CASE UNCHANGED deliveryVars
    <3>1. UNCHANGED <<ready, waiting, dead, linked, buffer, hand>>
      BY <2>1 DEF deliveryVars, brokerVars, processVars
    <3> QED BY <3>1, NothingCarried
  <2>2. CASE BrokerStep
    BY <2>2, BrokerCarries
  <2>3. ASSUME NEW w \in Workers, LoopStep(w) PROVE Carries
    BY <2>3, LoopCarries
  <2>4. ASSUME NEW w \in Workers,
               RunStep(w) \/ Signal(w) \/ StartFails(w) \/ Crash(w) \/ Disconnect(w)
        PROVE  Carries
    BY <2>4, ProcessCarries
  <2> QED BY <2>1, <2>2, <2>3, <2>4 DEF DeliveryNext
<1> QED BY <1>1, <1>2, <1>3, StartTyped, StepTyped, StepFits, PTL
        DEF Delivery, DeliversAsPromised, Consumers!Transport

---------------------------------------------------------------------------
(***************************************************************************)
(* What AvatarTransport guarantees holds of the queues and processes too. *)
(***************************************************************************)

Kept == INSTANCE AvatarTransport_proofs WITH queue <- Bag, held <- Held, spent <- Spent

\* Both instances are of the same definitions.
LEMMA SameTransport ==
  /\ Consumers!TransportInit => Kept!TransportInit
  /\ [Consumers!TransportNext]_(Consumers!transportVars) => [Kept!TransportNext]_(Kept!transportVars)
  /\ [Kept!DropsNothing]_(Kept!transportVars) => [Consumers!DropsNothing]_(Consumers!transportVars)
BY DEF Bag, Held, Spent, Consumers!TransportInit, Kept!TransportInit, Consumers!Msg, Kept!Msg,
       Consumers!TransportNext, Kept!TransportNext, Consumers!transportVars, Kept!transportVars,
       Consumers!Accept, Kept!Accept, Consumers!Deliver, Kept!Deliver, Consumers!Handled, Kept!Handled,
       Consumers!Retry, Kept!Retry, Consumers!DeadLetter, Kept!DeadLetter,
       Consumers!Acknowledge, Kept!Acknowledge, Consumers!GiveBack, Kept!GiveBack,
       Consumers!Drop, Kept!Drop, Consumers!Lose, Kept!Lose, Consumers!End, Kept!End,
       Consumers!TakenBack, Kept!TakenBack, Consumers!InHand, Kept!InHand,
       Consumers!Lets, Kept!Lets, Consumers!Put, Kept!Put, Consumers!Take, Kept!Take,
       Consumers!DropsNothing, Kept!DropsNothing, Consumers!Pending, Kept!Pending

\* An upload event that is in some queue or buffer, or in the hands of a loop
\* that has not decided about it, stays so until a handler succeeds or it is in
\* avatar.upload.dlq: for any finite number of worker processes, through
\* prefetching, retry queues, orderly and forced stops, crashes and lost
\* connections (worker/app.go).
THEOREM UploadEventsAreKept ==
  ASSUME IsFiniteSet(Workers)
  PROVE  Delivery => Consumers!NeverDropped
<1>1. Kept!Sane
  BY DeliveryRetryAssumption, DeliveryNoMsgAssumption DEF Kept!Sane, Kept!Msg, Msg
<1>2. Kept!Transport => Kept!NeverDropped
  BY <1>1, Kept!EventsAreNeverDropped
<1>3. Consumers!Transport => Kept!Transport
  BY SameTransport, PTL DEF Consumers!Transport, Kept!Transport
<1>4. Kept!NeverDropped => Consumers!NeverDropped
  BY SameTransport, PTL DEF Consumers!NeverDropped, Kept!NeverDropped
<1> QED BY <1>2, <1>3, <1>4, DeliveryImplementsTransport, PTL DEF DeliversAsPromised

=============================================================================
