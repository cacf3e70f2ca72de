--------------------------- MODULE AvatarDelivery ---------------------------
(***************************************************************************)
(* How events get to the handlers: the queues that DeclareAvatarTopology   *)
(* sets up and the life of a worker process (internal/worker/app.go) as    *)
(* they see it.  Each process has two consumers on one channel, with a     *)
(* prefetch each.  A delivery waits in the buffer of the client library    *)
(* until the consumer's loop takes it.                                     *)
(*                                                                         *)
(* A process goes through                                                  *)
(*   down -> consuming -> running -> signalled -> cancelled                *)
(*        -> waitUpload -> waitDelete -> closing -> down                   *)
(* and a delivery, in the loop,                                            *)
(*   idle -> handling -> ack -> idle                                       *)
(*   idle -> handling -> failed -> (mark ->) ack -> idle                   *)
(*                                                                         *)
(* What a handler does is left to AvatarWorker; here it succeeds or fails, *)
(* and of the rows it is known only which ones are soft-deleted.           *)
(* Faults, at most MaxFaults of them:                                      *)
(*   "error"      a call that a handler makes, or a publish, fails         *)
(*   "sigterm"    a process is told to stop                                *)
(*   "disconnect" a process loses its connection                           *)
(*   "crash"      a process stops at once                                  *)
(***************************************************************************)
EXTENDS MessageBags, Sequences, FiniteSets

CONSTANTS
  Avatars,     \* the avatars that are uploaded
  Deleted,     \* those that may be deleted
  Poison,      \* those whose upload event no handler can handle
  Workers,     \* the worker processes
  MaxRetry,    \* len(rabbitmq.UploadRetryLevels) (two in the code)
  Prefetch,    \* the channel's QoS, for each consumer (two in the code)
  NoMsg,       \* stands for "no message"
  FaultKinds,  \* the kinds of fault this instance allows
  MaxFaults    \* how many of them may happen

ASSUME PoisonAssumption        == Poison \subseteq Avatars /\ Deleted \subseteq Avatars
ASSUME DeliveryRetryAssumption == MaxRetry \in Nat
ASSUME PrefetchAssumption      == Prefetch \in Nat \ {0}
ASSUME DeliveryFaultAssumption == MaxFaults \in Nat

VARIABLES
  published,  \* published[q]: the avatars that queue q has had an event of
  gone,       \* the avatars whose rows are soft-deleted
  ready,      \* ready[q]: avatar.upload and avatar.delete
  waiting,    \* waiting[l]: the upload retry queue of level l
  dead,       \* the avatars with a message in avatar.upload.dlq
  phase,      \* phase[w]: how far w's Run has got
  linked,     \* the processes that have not lost their connection
  buffer,     \* buffer[w][q]: deliveries that the loop has not taken yet
  hand,       \* hand[w][q]: the delivery in the loop, and its position
  overdue,    \* the processes that gave up a wait for a loop
  faults,     \* how many faults have happened
  failed,     \* history: the upload events that w's handler has failed for its
              \* cancelled context, failed[w], up to the end of the process
  again       \* history: the avatars with two attempts that a process failed so

historyVars  == <<failed, again>>
brokerVars   == <<published, gone, ready, waiting, dead>>
processVars  == <<phase, linked, overdue, historyVars>>
deliveryVars == <<brokerVars, processVars, buffer, hand, faults>>

Queues == {"upload", "delete"}
Msg    == [avatar : Avatars, retry : 0..MaxRetry]
HandPc == {"idle", "handling", "failed", "mark", "ack"}
Phases == {"down", "consuming", "running", "signalled", "cancelled",
           "waitUpload", "waitDelete", "closing"}

Idle == [pc |-> "idle", msg |-> NoMsg]

ASSUME DeliveryNoMsgAssumption == NoMsg \notin Msg

DeliveryTypeOK ==
  /\ published \in [Queues -> SUBSET Avatars]
  /\ ready \in [Queues -> [Msg -> Nat]]
  /\ waiting \in [1..MaxRetry -> [Msg -> Nat]]
  /\ dead \subseteq Avatars
  /\ phase \in [Workers -> Phases]
  /\ linked \subseteq Workers
  /\ buffer \in [Workers -> [Queues -> Seq(Msg)]]
  /\ hand \in [Workers -> [Queues -> [pc : HandPc, msg : Msg \cup {NoMsg}]]]
  /\ \A w \in Workers, q \in Queues : hand[w][q].pc = "idle" <=> hand[w][q].msg = NoMsg
  /\ overdue \subseteq Workers
  /\ faults \in 0..MaxFaults
  /\ gone \subseteq Avatars
  /\ failed \in [Workers -> SUBSET Msg]
  /\ again \subseteq Avatars

NoMessages == [m \in Msg |-> 0]

DeliveryInit ==
  /\ published = [q \in Queues |-> {}]
  /\ ready = [q \in Queues |-> NoMessages]
  /\ waiting = [l \in 1..MaxRetry |-> NoMessages]
  /\ dead = {}
  /\ phase = [w \in Workers |-> "running"]
  /\ linked = Workers
  /\ buffer = [w \in Workers |-> [q \in Queues |-> <<>>]]
  /\ hand = [w \in Workers |-> [q \in Queues |-> Idle]]
  /\ overdue = {}
  /\ faults = 0
  /\ gone = {}
  /\ failed = [w \in Workers |-> {}]
  /\ again = {}

DeliveryFault(kind) ==
  /\ kind \in FaultKinds
  /\ faults < MaxFaults
  /\ faults' = faults + 1

---------------------------------------------------------------------------
(* The server and the broker *)

\* repo.SoftDelete; the row is there before its upload event is published.
SoftDelete(a) ==
  /\ a \in Deleted \ gone
  /\ gone' = gone \cup {a}
  /\ UNCHANGED <<published, ready, waiting, dead, processVars, buffer, hand, faults>>

\* publisher.publish, of a delete event when the row is soft-deleted
PublishEvent(q, a) ==
  /\ a \notin published[q]
  /\ q = "delete" => a \in gone
  /\ published' = [published EXCEPT ![q] = @ \cup {a}]
  /\ ready' = [ready EXCEPT ![q] = Put(@, [avatar |-> a, retry |-> 0])]
  /\ UNCHANGED <<gone, waiting, dead, processVars, buffer, hand, faults>>

\* Mutation: Cancel has no effect.
ConsumesToTheEnd(w, q) == phase[w] \notin {"down", "closing"}

\* Consume has been called for q, and Cancel has not.
Consumes(w, q) ==
  \/ phase[w] = "consuming" /\ q = "upload"
  \/ phase[w] \in {"running", "signalled"}
  \/ phase[w] = "cancelled" /\ q = "delete"

Outstanding(w, q) == Len(buffer[w][q]) + IF hand[w][q].pc = "idle" THEN 0 ELSE 1

Push(w, q, m) ==
  /\ w \in linked
  /\ Consumes(w, q)
  /\ Outstanding(w, q) < Prefetch
  /\ ready[q][m] > 0
  /\ ready' = [ready EXCEPT ![q] = Take(@, m)]
  /\ buffer' = [buffer EXCEPT ![w][q] = Append(@, m)]
  /\ UNCHANGED <<published, gone, waiting, dead, processVars, hand, faults>>

\* The time to live of a retry queue is over, whatever the processes do.
Expire(l, m) ==
  /\ waiting[l][m] > 0
  /\ waiting' = [waiting EXCEPT ![l] = Take(@, m)]
  /\ ready' = [ready EXCEPT !["upload"] = Put(@, m)]
  /\ UNCHANGED <<published, gone, dead, processVars, buffer, hand, faults>>

---------------------------------------------------------------------------
(* The loop over a consumer's deliveries *)

\* The process's context is not cancelled.
Alive(w) == phase[w] \in {"consuming", "running"}

HandGoes(w, q, pc) == hand' = [hand EXCEPT ![w][q].pc = pc]

\* The loop's goroutine starts when both consumers do.
TakeNext(w, q) ==
  /\ phase[w] \notin {"down", "consuming"}
  /\ hand[w][q].pc = "idle"
  /\ buffer[w][q] # <<>>
  /\ buffer' = [buffer EXCEPT ![w][q] = Tail(@)]
  /\ hand' = [hand EXCEPT ![w][q] = [pc |-> "handling", msg |-> Head(buffer[w][q])]]
  /\ UNCHANGED <<brokerVars, processVars, faults>>

\* HandleUploadEvent returns nil; of a deleted avatar it has then read or written
\* the row before.
HandlerSucceeds(w) ==
  /\ hand[w]["upload"].pc = "handling"
  /\ Alive(w)
  /\ hand[w]["upload"].msg.avatar \notin Poison
  /\ HandGoes(w, "upload", "ack")
  /\ UNCHANGED <<brokerVars, processVars, buffer, faults>>

\* Process w has failed, for its cancelled context, an attempt of a's event that
\* came before attempt r.
FailedBefore(w, a, r) == \E n \in failed[w] : n.avatar = a /\ n.retry < r

Remembers(w, m) ==
  /\ failed' = [failed EXCEPT ![w] = @ \cup {m}]
  /\ again' = IF FailedBefore(w, m.avatar, m.retry) THEN again \cup {m.avatar} ELSE again

\* HandleUploadEvent fails: for a fault, for its context, for its input, or as
\* the row is deleted (GetProcessingStatus returns ErrNotFound).
HandlerFails(w) ==
  /\ hand[w]["upload"].pc = "handling"
  /\ \/ DeliveryFault("error") /\ UNCHANGED historyVars
     \/ ~Alive(w) /\ UNCHANGED faults /\ Remembers(w, hand[w]["upload"].msg)
     \/ /\ Alive(w) /\ hand[w]["upload"].msg.avatar \in Poison \cup gone
        /\ UNCHANGED <<faults, historyVars>>
  /\ HandGoes(w, "upload", "failed")
  /\ UNCHANGED <<brokerVars, phase, linked, overdue, buffer>>

\* HandleDeleteEvent always returns nil.
DeleteHandled(w) ==
  /\ hand[w]["delete"].pc = "handling"
  /\ HandGoes(w, "delete", "ack")
  /\ UNCHANGED <<brokerVars, processVars, buffer, faults>>

\* publishRetryTo: levels[retry], the header one up
PublishRetry(w) ==
  LET m    == hand[w]["upload"].msg
      next == [m EXCEPT !.retry = @ + 1]
  IN
  /\ hand[w]["upload"].pc = "failed"
  /\ w \in linked
  /\ m.retry < MaxRetry
  /\ waiting' = [waiting EXCEPT ![next.retry] = Put(@, next)]
  /\ HandGoes(w, "upload", "ack")
  /\ UNCHANGED <<published, gone, ready, dead, processVars, buffer, faults>>

\* Mutation: the last level is not used.
PublishToDLQEarly(w) ==
  LET m == hand[w]["upload"].msg IN
  /\ hand[w]["upload"].pc = "failed"
  /\ w \in linked
  /\ m.retry + 1 >= MaxRetry
  /\ dead' = dead \cup {m.avatar}
  /\ HandGoes(w, "upload", "mark")
  /\ UNCHANGED <<published, gone, ready, waiting, processVars, buffer, faults>>

\* publishToDLQ, before MarkProcessingFailed
PublishToDLQ(w) ==
  LET m == hand[w]["upload"].msg IN
  /\ hand[w]["upload"].pc = "failed"
  /\ w \in linked
  /\ m.retry >= MaxRetry
  /\ dead' = dead \cup {m.avatar}
  /\ HandGoes(w, "upload", "mark")
  /\ UNCHANGED <<published, gone, ready, waiting, processVars, buffer, faults>>

\* Mutation: the loop goes on without the acknowledgement.
MarkFailedWithoutAck(w) ==
  /\ hand[w]["upload"].pc = "mark"
  /\ HandGoes(w, "upload", "idle")
  /\ UNCHANGED <<brokerVars, processVars, buffer, faults>>

\* afterPublish: MarkProcessingFailed, whose error is only logged
MarkFailed(w) ==
  /\ hand[w]["upload"].pc = "mark"
  /\ HandGoes(w, "upload", "ack")
  /\ UNCHANGED <<brokerVars, processVars, buffer, faults>>

\* Mutation: the nack does not ask for the delivery to be requeued.
RequeueDropped(w) ==
  /\ hand[w]["upload"].pc = "failed"
  /\ w \in linked
  /\ DeliveryFault("error")
  /\ hand' = [hand EXCEPT ![w]["upload"] = Idle]
  /\ UNCHANGED <<brokerVars, processVars, buffer>>

\* The publish fails, and the delivery is nacked back.
Requeue(w) ==
  /\ hand[w]["upload"].pc = "failed"
  /\ w \in linked
  /\ DeliveryFault("error")
  /\ ready' = [ready EXCEPT !["upload"] = Put(@, hand[w]["upload"].msg)]
  /\ hand' = [hand EXCEPT ![w]["upload"] = Idle]
  /\ UNCHANGED <<published, gone, waiting, dead, processVars, buffer>>

\* Without a connection the publish and the nack fail.
GiveUp(w) ==
  /\ hand[w]["upload"].pc = "failed"
  /\ w \notin linked
  /\ hand' = [hand EXCEPT ![w]["upload"] = Idle]
  /\ UNCHANGED <<brokerVars, processVars, buffer, faults>>

\* delivery.Ack
Ack(w, q) ==
  /\ hand[w][q].pc = "ack"
  /\ hand' = [hand EXCEPT ![w][q] = Idle]
  /\ UNCHANGED <<brokerVars, processVars, buffer, faults>>

---------------------------------------------------------------------------
(* The process *)

Goes(w, to) == phase' = [phase EXCEPT ![w] = to]

\* ch.Consume for uploads; from here on the broker pushes.
StartUploadConsumer(w) ==
  /\ phase[w] = "down"
  /\ Goes(w, "consuming")
  /\ UNCHANGED <<brokerVars, linked, overdue, historyVars, buffer, hand, faults>>

\* ch.Consume for deletes, and the two loops
StartDeleteConsumer(w) ==
  /\ phase[w] = "consuming"
  /\ Goes(w, "running")
  /\ UNCHANGED <<brokerVars, linked, overdue, historyVars, buffer, hand, faults>>

\* A signal, or a health server that cannot listen, cancels the context.
Signal(w) ==
  /\ phase[w] = "running"
  /\ DeliveryFault("sigterm")
  /\ Goes(w, "signalled")
  /\ UNCHANGED <<brokerVars, linked, overdue, historyVars, buffer, hand>>

\* ch.Cancel of the upload consumer
CancelUpload(w) ==
  /\ phase[w] = "signalled"
  /\ Goes(w, "cancelled")
  /\ UNCHANGED <<brokerVars, linked, overdue, historyVars, buffer, hand, faults>>

\* ch.Cancel of the delete consumer
CancelDelete(w) ==
  /\ phase[w] = "cancelled"
  /\ Goes(w, "waitUpload")
  /\ UNCHANGED <<brokerVars, linked, overdue, historyVars, buffer, hand, faults>>

\* The loop over a cancelled consumer ends when its buffer is empty.
LoopEnds(w, q) == buffer[w][q] = <<>> /\ hand[w][q].pc = "idle"

\* Mutation: there is no time limit.
WaitForLoopWithoutLimit(w, q, from, to) ==
  /\ phase[w] = from
  /\ Goes(w, to)
  /\ LoopEnds(w, q)
  /\ UNCHANGED <<overdue, brokerVars, linked, historyVars, buffer, hand, faults>>

\* select: the loop has ended, or shutdownTimeout is over
WaitForLoop(w, q, from, to) ==
  /\ phase[w] = from
  /\ Goes(w, to)
  /\ overdue' = IF LoopEnds(w, q) THEN overdue ELSE overdue \cup {w}
  /\ UNCHANGED <<brokerVars, linked, historyVars, buffer, hand, faults>>

WaitForUploads(w) == WaitForLoop(w, "upload", "waitUpload", "waitDelete")
WaitForDeletes(w) == WaitForLoop(w, "delete", "waitDelete", "closing")

\* How many copies of m process w has from q and has not acknowledged.
Unacked(w, q, m) ==
  Cardinality({i \in 1..Len(buffer[w][q]) : buffer[w][q][i] = m})
    + IF w \in linked /\ hand[w][q].msg = m THEN 1 ELSE 0

\* The broker takes back what a connection has not acknowledged.
TakeBack(w) ==
  /\ ready' = [q \in Queues |-> [m \in Msg |-> ready[q][m] + Unacked(w, q, m)]]
  /\ buffer' = [buffer EXCEPT ![w] = [q \in Queues |-> <<>>]]

\* The connection is closed by the process, which then ends.
Ends(w) ==
  /\ TakeBack(w)
  /\ hand' = [hand EXCEPT ![w] = [q \in Queues |-> Idle]]
  /\ Goes(w, "down")
  /\ linked' = linked \cup {w}
  /\ overdue' = overdue \ {w}
  /\ failed' = [failed EXCEPT ![w] = {}]
  /\ UNCHANGED <<published, gone, waiting, dead, again>>

\* Run returns, and its deferred calls close the channel, the connection and,
\* last, the pool: the queries of handlers that are left run under the cancelled
\* context and give their connections back.
Return(w) ==
  /\ phase[w] = "closing"
  /\ Ends(w)
  /\ UNCHANGED faults

StartFails(w) ==
  /\ phase[w] = "consuming"
  /\ DeliveryFault("error")
  /\ Ends(w)

Crash(w) ==
  /\ phase[w] # "down"
  /\ DeliveryFault("crash")
  /\ Ends(w)

\* The client library drops what is in its buffers and ends the loops.
Disconnect(w) ==
  /\ phase[w] # "down"
  /\ w \in linked
  /\ DeliveryFault("disconnect")
  /\ TakeBack(w)
  /\ linked' = linked \ {w}
  /\ UNCHANGED <<published, gone, waiting, dead, phase, overdue, historyVars, hand>>

---------------------------------------------------------------------------
BrokerStep ==
  \/ \E a \in Avatars : SoftDelete(a)
  \/ \E q \in Queues, a \in Avatars : PublishEvent(q, a)
  \/ \E w \in Workers, q \in Queues, m \in Msg : Push(w, q, m)
  \/ \E l \in 1..MaxRetry, m \in Msg : Expire(l, m)

LoopStep(w) ==
  \/ \E q \in Queues : TakeNext(w, q) \/ Ack(w, q)
  \/ HandlerSucceeds(w) \/ HandlerFails(w) \/ DeleteHandled(w)
  \/ PublishRetry(w) \/ PublishToDLQ(w) \/ MarkFailed(w) \/ Requeue(w) \/ GiveUp(w)

RunStep(w) ==
  \/ StartUploadConsumer(w) \/ StartDeleteConsumer(w)
  \/ CancelUpload(w) \/ CancelDelete(w) \/ WaitForUploads(w) \/ WaitForDeletes(w) \/ Return(w)

DeliveryNext ==
  \/ BrokerStep
  \/ \E w \in Workers :
       \/ LoopStep(w) \/ RunStep(w)
       \/ Signal(w) \/ StartFails(w) \/ Crash(w) \/ Disconnect(w)

(***************************************************************************)
(* Run's own goroutine goes on, and its timers fire.  Nothing is assumed   *)
(* of handlers: one may hang in a call, or resize for ever.                *)
(***************************************************************************)
Delivery ==
  /\ DeliveryInit /\ [][DeliveryNext]_deliveryVars
  /\ \A w \in Workers : WF_deliveryVars(RunStep(w))

---------------------------------------------------------------------------
\* When Run returns without having logged a drain timeout, the process has
\* acknowledged all that the broker gave it: nothing is delivered twice
\* because of an orderly stop.
CleanDrain ==
  \A w \in Workers, q \in Queues :
    phase[w] = "closing" /\ w \notin overdue => LoopEnds(w, q)

\* It takes MaxRetry + 1 failures or shutdowns to dead-letter an event that
\* handlers can handle: whatever is prefetched, returned or delivered twice,
\* no attempt is counted twice.  The exceptions are the event of an avatar that
\* is deleted, which fails each attempt, and one that a process that is told to
\* stop gets back before its Cancel, so that one shutdown fails two attempts.
DeadLetteredForCause == \A a \in dead \ (Poison \cup gone \cup again) : faults > MaxRetry

\* A process that is told to stop does so, whatever its handlers do.
ShutdownEnds == \A w \in Workers : phase[w] = "signalled" ~> phase[w] = "down"

\* The upload events in all queues and buffers.
Underway(m) ==
  ready["upload"][m]
    + (IF m.retry = 0 THEN 0 ELSE waiting[m.retry][m])
    + Cardinality({place \in Workers \X (1..Prefetch) :
                     LET messages == buffer[place[1]]["upload"] IN
                     place[2] <= Len(messages) /\ messages[place[2]] = m})

Consumers == INSTANCE AvatarTransport
               WITH queue  <- [m \in Msg |-> Underway(m)],
                    held   <- [w \in Workers |-> hand[w]["upload"].msg],
                    spent  <- {w \in Workers : hand[w]["upload"].pc \in {"mark", "ack"}},
                    dead   <- dead,
                    linked <- linked

\* Retry queues, prefetch, shutdown and restarts are invisible to the upload
\* consumers: they see a bag of events that never drops one.
DeliversAsPromised == Consumers!Transport

=============================================================================
