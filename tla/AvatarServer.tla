---------------------------- MODULE AvatarServer ----------------------------
(***************************************************************************)
(* The life of a server process (internal/app/app.go): App.Run opens what  *)
(* it needs one after the other, starts two goroutines and serves, and on  *)
(* every return closes what it has opened, the last one first.  The        *)
(* shutdown goroutine waits for the signal; ListenAndServe returns as soon *)
(* as it calls Shutdown, so that Run closes its resources while uploads    *)
(* are in flight and GET /health is being answered.                        *)
(*                                                                         *)
(*   run      ping -> dial -> channel -> topology -> spawn -> listen ->    *)
(*            serving -> closing -> closingPool -> returned -> exited      *)
(*   watcher  absent -> waiting -> server -> metrics -> done               *)
(*   request  none -> create -> store -> mark -> publish -> created        *)
(*            or badRequest, tooLarge; store -> markFailed -> error;       *)
(*            error (a 500), cut (no answer)                               *)
(*                                                                         *)
(* What the calls of an upload do to the backends is in AvatarService.     *)
(***************************************************************************)
EXTENDS UploadAdmission, AvatarHealth

CONSTANTS
  Requests,    \* the upload requests
  Uploads,     \* the forms that they send
  FaultKinds,  \* the kinds of fault this instance allows
  MaxFaults    \* how many of them may happen

ASSUME UploadsAssumption     == Uploads \subseteq Forms
ASSUME ServerFaultAssumption == MaxFaults \in Nat

VARIABLES
  run,        \* where Run is
  opened,     \* what it has opened, and closes when it returns
  cancelled,  \* the signal context is cancelled
  watcher,    \* the goroutine that shuts the servers down
  metrics,    \* the metrics server
  request,    \* request[r]: position and form of upload request r
  onPool,     \* the requests that hold a connection of the pool
  faults      \* how many faults have happened

processVars == <<run, opened, cancelled, watcher, metrics>>
requestVars == <<request, onPool>>
serverVars  == <<processVars, requestVars, healthVars, faults>>

RunPc     == {"ping", "dial", "channel", "topology", "spawn", "listen", "serving",
              "closing", "closingPool", "returned", "exited"}
WatcherPc == {"absent", "waiting", "server", "metrics", "done"}
Queries   == {"create", "mark", "markFailed"}  \* calls that take a connection
InFlight  == Queries \cup {"store", "publish"}
RequestPc == {"none", "badRequest", "tooLarge", "created", "error", "cut"} \cup InFlight

NoForm == [user |-> FALSE, file |-> FALSE, size |-> 0, overhead |-> 0]

ServerTypeOK ==
  /\ run \in RunPc
  /\ opened \subseteq {"pool", "conn", "ch"}
  /\ cancelled \in BOOLEAN
  /\ watcher \in WatcherPc
  /\ metrics \in {"absent", "serving", "failed", "closed"}
  /\ request \in [Requests -> [pc : RequestPc, form : Uploads \cup {NoForm}]]
  /\ onPool \subseteq {r \in Requests : request[r].pc \in Queries}
  /\ faults \in 0..MaxFaults
  /\ HealthTypeOK

\* pgxpool.NewWithConfig has returned.
ServerInit ==
  /\ run = "ping"
  /\ opened = {"pool"}
  /\ cancelled = FALSE
  /\ watcher = "absent"
  /\ metrics = "absent"
  /\ request = [r \in Requests |-> [pc |-> "none", form |-> NoForm]]
  /\ onPool = {}
  /\ faults = 0
  /\ HealthInit

ServerFault(kind) ==
  /\ kind \in FaultKinds
  /\ faults < MaxFaults
  /\ faults' = faults + 1

---------------------------------------------------------------------------
(* Run: start *)

\* A step of the start: it opens something, or Run returns its error.
Start(from, to, opens) ==
  /\ run = from
  /\ \/ run' = to /\ opened' = opened \cup opens /\ UNCHANGED faults
     \/ run' = "closing" /\ ServerFault("error") /\ UNCHANGED opened
  /\ UNCHANGED <<cancelled, watcher, metrics, requestVars, healthVars>>

\* pool.Ping looks at the signal context.
PingPool ==
  \/ ~cancelled /\ Start("ping", "dial", {})
  \/ /\ cancelled /\ run = "ping"
     /\ run' = "closing"
     /\ UNCHANGED <<opened, cancelled, watcher, metrics, requestVars, healthVars, faults>>

Dial            == Start("dial", "channel", {"conn"})
OpenChannel     == Start("channel", "topology", {"ch"})
DeclareTopology == Start("topology", "spawn", {})

\* The two go statements
Spawn ==
  /\ run = "spawn"
  /\ run' = "listen"
  /\ watcher' = "waiting"
  /\ metrics' = "serving"
  /\ UNCHANGED <<opened, cancelled, requestVars, healthVars, faults>>

ShuttingDown == watcher \in {"server", "metrics", "done"}

\* ListenAndServe: after Shutdown it returns at once, and it may fail to listen.
Listen ==
  /\ run = "listen"
  /\ \/ run' = (IF ShuttingDown THEN "closing" ELSE "serving") /\ UNCHANGED faults
     \/ run' = "closing" /\ ServerFault("error")
  /\ UNCHANGED <<opened, cancelled, watcher, metrics, requestVars, healthVars>>

ServeReturns ==
  /\ run = "serving"
  /\ ShuttingDown
  /\ run' = "closing"
  /\ UNCHANGED <<opened, cancelled, watcher, metrics, requestVars, healthVars, faults>>

---------------------------------------------------------------------------
(* Run: the deferred calls *)

\* The deferred call for what; the ones deferred after it have returned.
Close(what, later) ==
  /\ run = "closing"
  /\ what \in opened /\ opened \cap later = {}
  /\ opened' = opened \ {what}
  /\ UNCHANGED <<run, cancelled, watcher, metrics, requestVars, healthVars, faults>>

CloseChannel    == Close("ch", {})
CloseConnection == Close("conn", {"ch"})

\* pool.Close: no connection can be acquired from now on.
ClosePool ==
  /\ run = "closing"
  /\ opened = {"pool"}
  /\ run' = "closingPool"
  /\ UNCHANGED <<opened, cancelled, watcher, metrics, requestVars, healthVars, faults>>

\* The check of a probe holds a connection, or gets none.
PoolIdle ==
  /\ onPool = {}
  /\ \A p \in Probes : Running(p) => probe[p].result["postgres"] # ""

\* It returns when all are given back; then stop cancels the context.
PoolClosed ==
  /\ run = "closingPool"
  /\ PoolIdle
  /\ opened' = {}
  /\ run' = "returned"
  /\ cancelled' = TRUE
  /\ UNCHANGED <<watcher, metrics, requestVars, healthVars, faults>>

\* main flushes the telemetry and returns, and with it every goroutine ends.
Exit ==
  /\ run = "returned"
  /\ run' = "exited"
  /\ request' = [r \in Requests |-> IF request[r].pc \in InFlight
                                    THEN [request[r] EXCEPT !.pc = "cut"] ELSE request[r]]
  /\ onPool' = {}
  /\ CutProbes
  /\ UNCHANGED <<opened, cancelled, watcher, metrics, dep, seen, faults>>

---------------------------------------------------------------------------
(* The other goroutines *)

Alive == run # "exited"

\* SIGINT or SIGTERM
Signal ==
  /\ ~cancelled
  /\ cancelled' = TRUE
  /\ UNCHANGED <<run, opened, watcher, metrics, requestVars, healthVars, faults>>

WatcherGoes(from, to) ==
  /\ watcher = from
  /\ watcher' = to
  /\ UNCHANGED <<run, opened, cancelled, requestVars, healthVars, faults>>

\* srv.Shutdown is called; it waits for requests until 10 seconds are over.
ShutDownServer  == Alive /\ cancelled /\ WatcherGoes("waiting", "server") /\ UNCHANGED metrics
ShutDownMetrics == Alive /\ WatcherGoes("server", "metrics") /\ UNCHANGED metrics
WatcherDone ==
  /\ Alive
  /\ WatcherGoes("metrics", "done")
  /\ metrics' = IF metrics = "serving" THEN "closed" ELSE metrics

\* Mutation: the failure of the metrics server is only logged.
MetricsFailLogged ==
  /\ Alive
  /\ metrics = "serving"
  /\ ServerFault("metrics")
  /\ metrics' = "failed"
  /\ UNCHANGED <<run, opened, cancelled, watcher, requestVars, healthVars>>

\* The metrics server cannot listen, and stops the process.
MetricsFail ==
  /\ Alive
  /\ metrics = "serving"
  /\ ServerFault("metrics")
  /\ metrics' = "failed"
  /\ cancelled' = TRUE
  /\ UNCHANGED <<run, opened, watcher, requestVars, healthVars>>

---------------------------------------------------------------------------
(* Upload requests *)

Accepting == run = "serving" /\ ~ShuttingDown

RequestGoes(r, pc) == request' = [request EXCEPT ![r].pc = pc]

\* The checks of the handler and of the service
Admit(r, form) ==
  /\ Accepting
  /\ request[r].pc = "none"
  /\ request' = [request EXCEPT ![r] = [pc |-> Answer(form), form |-> form]]
  /\ UNCHANGED <<processVars, onPool, healthVars, faults>>

PoolUsable == run \notin {"closingPool", "returned"}

\* A query takes a connection; a closed pool has none.
Acquire(r) ==
  /\ request[r].pc \in Queries /\ r \notin onPool
  /\ \/ PoolUsable /\ onPool' = onPool \cup {r} /\ UNCHANGED request
     \/ ~PoolUsable /\ RequestGoes(r, "error") /\ UNCHANGED onPool
  /\ UNCHANGED <<processVars, healthVars, faults>>

AfterQuery == [create |-> "store", mark |-> "publish", markFailed |-> "error"]

\* Mutation: a query that fails keeps its connection.
ReleaseOnSuccess(r) ==
  /\ r \in onPool
  /\ \/ /\ dep["postgres"] = "up" /\ UNCHANGED faults
        /\ RequestGoes(r, AfterQuery[request[r].pc])
        /\ onPool' = onPool \ {r}
     \/ /\ dep["postgres"] = "refusing" /\ UNCHANGED faults
        /\ RequestGoes(r, "error") /\ UNCHANGED onPool
     \/ ServerFault("error") /\ RequestGoes(r, "error") /\ UNCHANGED onPool
  /\ UNCHANGED <<processVars, healthVars>>

\* The query returns, and gives the connection back.  It runs under the
\* context of its request, which has no deadline and which Shutdown does not
\* cancel: while PostgreSQL is silent only an error ends it, the client's
\* going away for instance.
Release(r) ==
  /\ r \in onPool
  /\ onPool' = onPool \ {r}
  /\ \/ dep["postgres"] = "up" /\ UNCHANGED faults /\ RequestGoes(r, AfterQuery[request[r].pc])
     \/ dep["postgres"] = "refusing" /\ UNCHANGED faults /\ RequestGoes(r, "error")
     \/ ServerFault("error") /\ RequestGoes(r, "error")
  /\ UNCHANGED <<processVars, healthVars>>

\* storage.Upload
Store(r) ==
  /\ request[r].pc = "store"
  /\ \/ UNCHANGED faults /\ RequestGoes(r, "mark")
     \/ ServerFault("error") /\ RequestGoes(r, "markFailed")
  /\ UNCHANGED <<processVars, onPool, healthVars>>

\* The publish needs the channel that Run has opened.
PublishEvent(r) ==
  /\ request[r].pc = "publish"
  /\ RequestGoes(r, IF "ch" \in opened /\ dep["rabbitmq"] # "refusing" THEN "created" ELSE "error")
  /\ UNCHANGED <<processVars, onPool, healthVars, faults>>

RequestStep(r) == Alive /\ (Acquire(r) \/ Release(r) \/ Store(r) \/ PublishEvent(r))

---------------------------------------------------------------------------
(* Health probes *)

\* What the server has not closed itself.
Usable(c) == CASE c = "postgres" -> PoolUsable
               [] c = "rabbitmq" -> "conn" \in opened
               [] c = "s3"       -> TRUE

ProbeStep(p) ==
  /\ Alive
  /\ ProbeExpires(p) \/ AnswerProbe(p) \/ \E c \in Dependencies : CheckReturns(p, c, Usable(c))

HealthStep ==
  \/ \E p \in Probes : Accepting /\ BeginProbe(p) /\ UNCHANGED faults
  \/ \E p \in Probes : ProbeStep(p) /\ UNCHANGED faults
  \/ \E c \in Dependencies, to \in DepState :
       /\ Alive
       /\ DependencyChanges(c, to)
       /\ IF to = "up" THEN UNCHANGED faults ELSE ServerFault("dependency")
  \/ Alive /\ Heartbeat /\ UNCHANGED faults

---------------------------------------------------------------------------
RunStep ==
  \/ PingPool \/ Dial \/ OpenChannel \/ DeclareTopology \/ Spawn \/ Listen \/ ServeReturns
  \/ CloseChannel \/ CloseConnection \/ ClosePool \/ PoolClosed \/ Exit

WatcherStep == ShutDownServer \/ ShutDownMetrics \/ WatcherDone

ServerNext ==
  \/ RunStep \/ WatcherStep \/ Signal \/ MetricsFail
  \/ \E r \in Requests : RequestStep(r) \/ \E form \in Uploads : Admit(r, form)
  \/ HealthStep /\ UNCHANGED <<processVars, requestVars>>

(***************************************************************************)
(* The goroutines go on, timers come to an end, the AMQP library notices a *)
(* connection that is dead, and a query returns while PostgreSQL answers   *)
(* or refuses; to a query that a silent PostgreSQL has, the code gives no  *)
(* end.  Storing an original may take for ever, as may a client.           *)
(***************************************************************************)
Server ==
  /\ ServerInit /\ [][ServerNext]_serverVars
  /\ WF_serverVars(RunStep) /\ WF_serverVars(WatcherStep)
  /\ WF_serverVars(Alive /\ Heartbeat /\ UNCHANGED <<processVars, requestVars, faults>>)
  /\ \A r \in Requests : WF_serverVars(Alive /\ dep["postgres"] # "silent" /\ Release(r))
  /\ \A p \in Probes :
       WF_serverVars(ProbeStep(p) /\ UNCHANGED <<processVars, requestVars, faults>>)

---------------------------------------------------------------------------
\* "Headroom for multipart boundaries/headers; service enforces exact file
\* size": of well-formed uploads those are answered with 413 that exceed the
\* service's limit, and no others.
SizeLimitIsTheServices ==
  \A r \in Requests :
    LET form == request[r].form IN
    /\ request[r].pc # "none" /\ form.user /\ form.file /\ form.overhead <= Headroom
    => (request[r].pc = "tooLarge" <=> MaxUpload > 0 /\ form.size > MaxUpload)

\* A process that is told to stop, or has lost its metrics server, ends: a
\* signal before the server listens, a probe that waits for a dependency and
\* requests that hold connections of the pool do not keep it.  What does is a
\* query that a silent PostgreSQL never answers: pool.Close waits for its
\* connection without a limit.
ServerStops ==
  cancelled \/ metrics = "failed" ~>
    run = "exited" \/ [](dep["postgres"] = "silent" /\ onPool # {})

\* A health probe is answered unless the process ends, though the RabbitMQ
\* check knows no timeout: it has to wait for the heartbeat.
ProbesAnswered == \A p \in Probes : Running(p) ~> ~Running(p)

=============================================================================
