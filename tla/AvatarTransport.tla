-------------------------- MODULE AvatarTransport --------------------------
(***************************************************************************)
(* What the upload consumers rely on, stated without the broker: a bag of  *)
(* events with their number of retries, at most one event in the hands of  *)
(* each worker, and the dead letters.  Retry queues, prefetching, the      *)
(* client's buffer and the worker's shutdown are the business of           *)
(* AvatarDelivery; what a worker does with an event is that of             *)
(* AvatarWorker.  Both implement this module.                              *)
(***************************************************************************)
EXTENDS MessageBags

CONSTANTS
  Avatars,   \* an upload event is about one of these
  Workers,   \* the worker processes
  MaxRetry,  \* how many retries an event gets
  NoMsg      \* stands for "no message"

Msg == [avatar : Avatars, retry : 0..MaxRetry]

VARIABLES
  queue,   \* queue[m]: copies of m on their way to a worker
  held,    \* held[w]: the delivery in w's hands
  spent,   \* the workers that only have to acknowledge what they hold
  dead,    \* the avatars with a dead letter
  linked   \* the workers whose connection is up

transportVars == <<queue, held, spent, dead, linked>>

TransportTypeOK ==
  /\ queue \in [Msg -> Nat]
  /\ held \in [Workers -> Msg \cup {NoMsg}]
  /\ spent \subseteq {w \in Workers : held[w] # NoMsg}
  /\ dead \subseteq Avatars
  /\ linked \subseteq Workers

TransportInit ==
  /\ queue = [m \in Msg |-> 0]
  /\ held = [w \in Workers |-> NoMsg]
  /\ spent = {}
  /\ dead = {}
  /\ linked = Workers

Lets(w, msg) == held' = [held EXCEPT ![w] = msg]

\* Worker w holds a delivery that nothing has been decided about.
InHand(w) == held[w] # NoMsg /\ w \notin spent

Accept(m) ==
  /\ m.retry = 0
  /\ queue' = Put(queue, m)
  /\ UNCHANGED <<held, spent, dead, linked>>

Deliver(w, m) ==
  /\ w \in linked
  /\ held[w] = NoMsg
  /\ queue[m] > 0
  /\ queue' = Take(queue, m)
  /\ Lets(w, m)
  /\ UNCHANGED <<spent, dead, linked>>

\* The handler has done what the event asks for.
Handled(w) ==
  /\ InHand(w)
  /\ spent' = spent \cup {w}
  /\ UNCHANGED <<queue, held, dead, linked>>

Retry(w) ==
  /\ InHand(w)
  /\ w \in linked
  /\ held[w].retry < MaxRetry
  /\ queue' = Put(queue, [held[w] EXCEPT !.retry = @ + 1])
  /\ spent' = spent \cup {w}
  /\ UNCHANGED <<held, dead, linked>>

DeadLetter(w) ==
  /\ InHand(w)
  /\ w \in linked
  /\ held[w].retry >= MaxRetry
  /\ dead' = dead \cup {held[w].avatar}
  /\ spent' = spent \cup {w}
  /\ UNCHANGED <<queue, held, linked>>

Acknowledge(w) ==
  /\ w \in spent
  /\ Lets(w, NoMsg)
  /\ spent' = spent \ {w}
  /\ UNCHANGED <<queue, dead, linked>>

GiveBack(w) ==
  /\ InHand(w)
  /\ w \in linked
  /\ queue' = Put(queue, held[w])
  /\ Lets(w, NoMsg)
  /\ UNCHANGED <<spent, dead, linked>>

\* Without a connection there is nothing to give back.
Drop(w) ==
  /\ InHand(w)
  /\ w \notin linked
  /\ Lets(w, NoMsg)
  /\ UNCHANGED <<queue, spent, dead, linked>>

TakenBack(w) ==
  queue' = IF w \in linked /\ held[w] # NoMsg THEN Put(queue, held[w]) ELSE queue

Lose(w) ==
  /\ w \in linked
  /\ TakenBack(w)
  /\ linked' = linked \ {w}
  /\ UNCHANGED <<held, spent, dead>>

\* The process ends; a new one has a connection of its own.
End(w) ==
  /\ TakenBack(w)
  /\ Lets(w, NoMsg)
  /\ spent' = spent \ {w}
  /\ linked' = linked \cup {w}
  /\ UNCHANGED dead

TransportNext ==
  \/ \E m \in Msg : Accept(m) \/ \E w \in Workers : Deliver(w, m)
  \/ \E w \in Workers :
       \/ Handled(w) \/ Retry(w) \/ DeadLetter(w) \/ Acknowledge(w)
       \/ GiveBack(w) \/ Drop(w) \/ Lose(w) \/ End(w)

Transport == TransportInit /\ [][TransportNext]_transportVars

---------------------------------------------------------------------------
\* A copy of an event about a is on its way, or with a worker whose connection
\* still holds it and that has not decided about it.
Pending(a) ==
  \/ \E m \in Msg : m.avatar = a /\ queue[m] > 0
  \/ \E w \in linked : InHand(w) /\ held[w].avatar = a

DropsNothing ==
  \A a \in Avatars :
    Pending(a) /\ ~Pending(a)' =>
      a \in dead' \/ \E w \in Workers : Handled(w) /\ held[w].avatar = a

\* The promise: an event that is pending stays so until a worker has handled
\* it or it is a dead letter, through any retry, lost connection or restart.
NeverDropped == [][DropsNothing]_transportVars

=============================================================================
