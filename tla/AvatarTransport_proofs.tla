----------------------- MODULE AvatarTransport_proofs -----------------------
(***************************************************************************)
(* What AvatarTransport promises to whoever publishes an upload event.     *)
(***************************************************************************)
EXTENDS AvatarTransport, TLAPS

\* What an instance has to provide.
Sane == MaxRetry \in Nat /\ NoMsg \notin Msg

LEMMA PutTyped ==
  ASSUME queue \in [Msg -> Nat], NEW m \in Msg
  PROVE  /\ Put(queue, m) \in [Msg -> Nat]
         /\ \A n \in Msg : Put(queue, m)[n] >= queue[n]
         /\ Put(queue, m)[m] > 0
BY DEF Put

LEMMA TakeTyped ==
  ASSUME queue \in [Msg -> Nat], NEW m \in Msg, queue[m] > 0
  PROVE  /\ Take(queue, m) \in [Msg -> Nat]
         /\ \A n \in Msg \ {m} : Take(queue, m)[n] = queue[n]
BY DEF Take

\* What a worker holds is a message or nothing, and a retry is a message.
LEMMA HeldTyped ==
  ASSUME Sane, TransportTypeOK, NEW w \in Workers, held[w] # NoMsg
  PROVE  /\ held[w] \in Msg
         /\ held[w].avatar \in Avatars
         /\ held[w].retry < MaxRetry => [held[w] EXCEPT !.retry = @ + 1] \in Msg
         /\ [held[w] EXCEPT !.retry = @ + 1].avatar = held[w].avatar
BY DEF Sane, TransportTypeOK, Msg

LEMMA TransportNextTyped ==
  ASSUME Sane, TransportTypeOK, [TransportNext]_transportVars
  PROVE  TransportTypeOK'
<1> USE DEF TransportTypeOK, Lets, InHand
<1>1. ASSUME NEW m \in Msg, Accept(m) PROVE TransportTypeOK'
  BY <1>1, PutTyped DEF Accept
<1>2. ASSUME NEW m \in Msg, NEW w \in Workers, Deliver(w, m) PROVE TransportTypeOK'
  BY <1>2, TakeTyped DEF Deliver, Sane
<1>3. ASSUME NEW w \in Workers, Handled(w) PROVE TransportTypeOK'
  BY <1>3 DEF Handled
<1>4. ASSUME NEW w \in Workers, Retry(w) PROVE TransportTypeOK'
  BY <1>4, HeldTyped, PutTyped DEF Retry
<1>5. ASSUME NEW w \in Workers, DeadLetter(w) PROVE TransportTypeOK'
  BY <1>5, HeldTyped DEF DeadLetter
<1>6. ASSUME NEW w \in Workers, Acknowledge(w) PROVE TransportTypeOK'
  BY <1>6 DEF Acknowledge
<1>7. ASSUME NEW w \in Workers, GiveBack(w) \/ Drop(w) PROVE TransportTypeOK'
  BY <1>7, HeldTyped, PutTyped DEF GiveBack, Drop
<1>8. ASSUME NEW w \in Workers, TakenBack(w) PROVE queue' \in [Msg -> Nat]
  BY <1>8, HeldTyped, PutTyped DEF TakenBack
<1>9. ASSUME NEW w \in Workers, Lose(w) PROVE TransportTypeOK'
  BY <1>9, <1>8 DEF Lose
<1>10. ASSUME NEW w \in Workers, End(w) PROVE TransportTypeOK'
  BY <1>10, <1>8 DEF End
<1>11. CASE UNCHANGED transportVars
  BY <1>11 DEF transportVars
<1> QED BY <1>1, <1>2, <1>3, <1>4, <1>5, <1>6, <1>7, <1>9, <1>10, <1>11 DEF TransportNext

\* Events and workers keep their types; whoever has only to acknowledge does
\* hold something.
THEOREM TransportTypeCorrect ==
  ASSUME Sane
  PROVE  Transport => []TransportTypeOK
<1>1. TransportInit => TransportTypeOK
  BY DEF TransportInit, TransportTypeOK
<1> QED BY <1>1, TransportNextTyped, PTL DEF Transport

---------------------------------------------------------------------------
(* One step cannot make a pending event disappear. *)

Queued(a) == \E m \in Msg : m.avatar = a /\ queue[m] > 0
Carried(a, w) == w \in linked /\ InHand(w) /\ held[w].avatar = a

\* What a step does that drops nothing about a.
Keeps(a) == Pending(a) => Pending(a)'

LEMMA PutPends ==
  ASSUME TransportTypeOK, NEW m \in Msg, queue' = Put(queue, m)
  PROVE  /\ \A a \in Avatars : Queued(a) => Queued(a)'
         /\ Queued(m.avatar)'
BY PutTyped DEF TransportTypeOK, Queued

LEMMA TakenBackPends ==
  ASSUME Sane, TransportTypeOK, NEW w \in Workers, TakenBack(w), NEW a \in Avatars
  PROVE  /\ Queued(a) => Queued(a)'
         /\ Carried(a, w) => Queued(a)'
<1>1. CASE w \in linked /\ held[w] # NoMsg
  BY <1>1, HeldTyped, PutPends DEF TakenBack, Carried
<1>2. CASE ~(w \in linked /\ held[w] # NoMsg)
  BY <1>2 DEF TakenBack, Queued, Carried, InHand
<1> QED BY <1>1, <1>2

LEMMA StepNeverDrops ==
  ASSUME Sane, TransportTypeOK, TransportNext, NEW a \in Avatars, Pending(a), ~Pending(a)'
  PROVE  \/ a \in dead'
         \/ \E w \in Workers : Handled(w) /\ held[w].avatar = a
<1>t. /\ queue \in [Msg -> Nat] /\ held \in [Workers -> Msg \cup {NoMsg}]
      /\ spent \subseteq {w \in Workers : held[w] # NoMsg}
      /\ linked \subseteq Workers
  BY DEF TransportTypeOK
<1>p. Pending(a) <=> Queued(a) \/ \E v \in Workers : Carried(a, v)
  BY <1>t DEF Pending, Queued, Carried
<1>n. ~Queued(a)' /\ \A v \in Workers : ~Carried(a, v)'
  <2>1. linked' \subseteq Workers
    BY TransportNextTyped DEF TransportTypeOK
  <2> QED BY <2>1 DEF Pending, Queued, Carried
<1>1. ASSUME NEW m \in Msg, Accept(m) PROVE FALSE
  BY <1>1, <1>p, <1>n, PutPends DEF Accept, Carried, InHand
<1>2. ASSUME NEW m \in Msg, NEW w \in Workers, Deliver(w, m) PROVE FALSE
  <2>1. m.avatar = a => Carried(a, w)'
    BY <1>2, <1>t DEF Deliver, Lets, Carried, InHand, Sane
  <2>2. \A n \in Msg \ {m} : queue'[n] = queue[n]
    BY <1>2, <1>t, TakeTyped DEF Deliver
  <2>3. \A v \in Workers \ {w} : Carried(a, v) => Carried(a, v)'
    BY <1>2, <1>t DEF Deliver, Lets, Carried, InHand
  <2>4. ~Carried(a, w)
    BY <1>2 DEF Deliver, Carried, InHand
  <2> QED BY <2>1, <2>2, <2>3, <2>4, <1>p, <1>n DEF Queued
<1>3. ASSUME NEW w \in Workers, Handled(w) PROVE held[w].avatar = a
  <2>1. \A v \in Workers \ {w} : Carried(a, v) => Carried(a, v)'
    BY <1>3 DEF Handled, Carried, InHand
  <2>2. Queued(a) => Queued(a)'
    BY <1>3 DEF Handled, Queued
  <2> QED BY <2>1, <2>2, <1>p, <1>n DEF Carried
<1>4. ASSUME NEW w \in Workers, Retry(w) PROVE FALSE
  <2>1. held[w] # NoMsg
    BY <1>4 DEF Retry, InHand
  <2>2. (Queued(a) => Queued(a)') /\ (held[w].avatar = a => Queued(a)')
    BY <1>4, <2>1, HeldTyped, PutPends DEF Retry
  <2>3. \A v \in Workers \ {w} : Carried(a, v) => Carried(a, v)'
    BY <1>4 DEF Retry, Carried, InHand
  <2> QED BY <2>2, <2>3, <1>p, <1>n DEF Carried
<1>5. ASSUME NEW w \in Workers, DeadLetter(w) PROVE a \in dead'
  <2>1. \A v \in Workers \ {w} : Carried(a, v) => Carried(a, v)'
    BY <1>5 DEF DeadLetter, Carried, InHand
  <2>2. Queued(a) => Queued(a)'
    BY <1>5 DEF DeadLetter, Queued
  <2>3. held[w].avatar \in dead'
    BY <1>5 DEF DeadLetter
  <2> QED BY <2>1, <2>2, <2>3, <1>p, <1>n DEF Carried
<1>6. ASSUME NEW w \in Workers, Acknowledge(w) PROVE FALSE
  <2>1. \A v \in Workers \ {w} : Carried(a, v) => Carried(a, v)'
    BY <1>6, <1>t DEF Acknowledge, Lets, Carried, InHand
  <2>2. Queued(a) => Queued(a)'
    BY <1>6 DEF Acknowledge, Queued
  <2> QED BY <2>1, <2>2, <1>6, <1>p, <1>n DEF Acknowledge, Carried, InHand
<1>7. ASSUME NEW w \in Workers, GiveBack(w) PROVE FALSE
  <2>1. held[w] # NoMsg
    BY <1>7 DEF GiveBack, InHand
  <2>2. (Queued(a) => Queued(a)') /\ (held[w].avatar = a => Queued(a)')
    BY <1>7, <2>1, HeldTyped, PutPends DEF GiveBack
  <2>3. \A v \in Workers \ {w} : Carried(a, v) => Carried(a, v)'
    BY <1>7, <1>t DEF GiveBack, Lets, Carried, InHand
  <2> QED BY <2>2, <2>3, <1>p, <1>n DEF Carried
<1>8. ASSUME NEW w \in Workers, Drop(w) PROVE FALSE
  <2>1. \A v \in Workers \ {w} : Carried(a, v) => Carried(a, v)'
    BY <1>8, <1>t DEF Drop, Lets, Carried, InHand
  <2>2. Queued(a) => Queued(a)'
    BY <1>8 DEF Drop, Queued
  <2> QED BY <2>1, <2>2, <1>8, <1>p, <1>n DEF Drop, Carried
<1>9. ASSUME NEW w \in Workers, Lose(w) \/ End(w) PROVE FALSE
  <2>1. \A v \in Workers \ {w} : Carried(a, v) => Carried(a, v)'
    BY <1>9, <1>t DEF Lose, End, Lets, Carried, InHand
  <2>2. TakenBack(w)
    BY <1>9 DEF Lose, End
  <2> QED BY <2>1, <2>2, TakenBackPends, <1>p, <1>n
<1> QED BY <1>1, <1>2, <1>3, <1>4, <1>5, <1>6, <1>7, <1>8, <1>9 DEF TransportNext

\* An event that is pending stays so until a worker has handled it or it is a
\* dead letter, for any number of events, workers, retries, lost connections
\* and restarts.
THEOREM EventsAreNeverDropped ==
  ASSUME Sane
  PROVE  Transport => NeverDropped
<1>1. TransportTypeOK /\ [TransportNext]_transportVars => [DropsNothing]_transportVars
  BY StepNeverDrops DEF DropsNothing
<1> QED BY <1>1, TransportTypeCorrect, PTL DEF Transport, NeverDropped

=============================================================================
