---------------------------- MODULE AvatarHealth ----------------------------
(***************************************************************************)
(* GET /health of the server (handlers/health.go): one goroutine per check *)
(* under a common timeout, and an answer when all of them have returned.   *)
(* The checks of PostgreSQL and S3 honour the timeout.  That of RabbitMQ   *)
(* opens a channel on the server's connection and ignores it.              *)
(***************************************************************************)
CONSTANTS
  Probes  \* the GET requests

Dependencies == {"postgres", "s3", "rabbitmq"}

VARIABLES
  dep,    \* dep[c]: up, refusing what it is asked, or silent
  probe,  \* probe[p]: position of p and what its checks have returned
  seen    \* seen[p]: history, the dependencies that were up since p began

healthVars == <<dep, probe, seen>>

DepState == {"up", "refusing", "silent"}
ProbePc  == {"none", "checking", "expired", "ok", "degraded", "cut"}
Result   == {"", "ok", "down"}

HealthTypeOK ==
  /\ dep \in [Dependencies -> DepState]
  /\ probe \in [Probes -> [pc : ProbePc, result : [Dependencies -> Result]]]
  /\ seen \in [Probes -> SUBSET Dependencies]

HealthInit ==
  /\ dep = [c \in Dependencies |-> "up"]
  /\ probe = [p \in Probes |-> [pc |-> "none", result |-> [c \in Dependencies |-> ""]]]
  /\ seen = [p \in Probes |-> {}]

Up == {c \in Dependencies : dep[c] = "up"}

Running(p) == probe[p].pc \in {"checking", "expired"}

\* A dependency changes.  A lost connection to RabbitMQ is not opened again.
DependencyChanges(c, to) ==
  /\ dep[c] # to
  /\ c = "rabbitmq" => dep[c] # "refusing"
  /\ dep' = [dep EXCEPT ![c] = to]
  /\ seen' = [p \in Probes |-> IF Running(p) /\ to = "up" THEN seen[p] \cup {c} ELSE seen[p]]
  /\ UNCHANGED probe

\* The AMQP library closes a connection that misses its heartbeats.
Heartbeat == dep["rabbitmq"] = "silent" /\ DependencyChanges("rabbitmq", "refusing")

BeginProbe(p) ==
  /\ probe[p].pc = "none"
  /\ probe' = [probe EXCEPT ![p].pc = "checking"]
  /\ seen' = [seen EXCEPT ![p] = Up]
  /\ UNCHANGED dep

\* context.WithTimeout
ProbeExpires(p) ==
  /\ probe[p].pc = "checking"
  /\ probe' = [probe EXCEPT ![p].pc = "expired"]
  /\ UNCHANGED <<dep, seen>>

\* Mutation: the checks run under the request's context.
FailsWithoutTimeout(p, c) == dep[c] = "refusing"

\* When a check gives up: on a refusal, and at the timeout if it looks at it.
Fails(p, c) ==
  \/ dep[c] = "refusing"
  \/ probe[p].pc = "expired" /\ c # "rabbitmq"

\* A check returns.  usable: the server itself has not closed what it uses.
CheckReturns(p, c, usable) ==
  /\ Running(p)
  /\ probe[p].result[c] = ""
  /\ \E result \in {"ok", "down"} :
       /\ result = "ok"   => dep[c] = "up" /\ usable
       /\ result = "down" => Fails(p, c) \/ ~usable
       /\ probe' = [probe EXCEPT ![p].result[c] = result]
  /\ UNCHANGED <<dep, seen>>

\* Mutation: the loop looks for a component that is up.
OverallOfAny(results) == IF \E c \in Dependencies : results[c] = "ok" THEN "ok" ELSE "degraded"

Overall(results) == IF \A c \in Dependencies : results[c] = "ok" THEN "ok" ELSE "degraded"

\* wg.Wait, and the overall status
AnswerProbe(p) ==
  /\ Running(p)
  /\ \A c \in Dependencies : probe[p].result[c] # ""
  /\ probe' = [probe EXCEPT ![p].pc = Overall(probe[p].result)]
  /\ UNCHANGED <<dep, seen>>

\* The process ends first.
CutProbes == probe' = [p \in Probes |-> IF Running(p) THEN [probe[p] EXCEPT !.pc = "cut"] ELSE probe[p]]

---------------------------------------------------------------------------
\* "Service is healthy": every dependency was up at some moment since the
\* probe began.  The results of three goroutines, a timeout that races them
\* and a dependency that comes and goes never add up to a 200 without that.
HealthyWasUp == \A p \in Probes : probe[p].pc = "ok" => seen[p] = Dependencies

=============================================================================
