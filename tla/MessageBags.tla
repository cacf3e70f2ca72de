---------------------------- MODULE MessageBags ----------------------------
(***************************************************************************)
(* A RabbitMQ queue as a bag: how many copies of each message are ready.   *)
(* The order of messages does not matter here, for redeliveries and the    *)
(* retry queues mix it up in any case.                                     *)
(***************************************************************************)
EXTENDS Naturals

Put(queue, msg) == [queue EXCEPT ![msg] = @ + 1]
Take(queue, msg) == [queue EXCEPT ![msg] = @ - 1]

=============================================================================
