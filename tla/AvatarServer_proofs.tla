------------------------ MODULE AvatarServer_proofs ------------------------
(***************************************************************************)
(* What holds of the server process for every set of requests and probes,  *)
(* every limit and every number of faults.                                 *)
(***************************************************************************)
EXTENDS AvatarServer, TLAPS

---------------------------------------------------------------------------
(* Types *)

\* The steps that leave requests and probes alone.
ProcessStep ==
  \/ PingPool \/ Dial \/ OpenChannel \/ DeclareTopology \/ Spawn \/ Listen \/ ServeReturns
  \/ CloseChannel \/ CloseConnection \/ ClosePool \/ PoolClosed
  \/ WatcherStep \/ Signal \/ MetricsFail

LEMMA FaultTyped ==
  ASSUME faults \in 0..MaxFaults, NEW kind, ServerFault(kind)
  PROVE  faults' \in 0..MaxFaults
BY ServerFaultAssumption DEF ServerFault

LEMMA ProcessStepTyped ==
  ASSUME ServerTypeOK, ProcessStep
  PROVE  ServerTypeOK' /\ UNCHANGED <<requestVars, healthVars>>
<1> USE DEF ServerTypeOK, RunPc, WatcherPc
<1>0. ASSUME NEW kind, ServerFault(kind) PROVE faults' \in 0..MaxFaults
  BY <1>0, FaultTyped
<1>s. ASSUME NEW from, NEW to \in RunPc, NEW opens \in SUBSET {"pool", "conn", "ch"},
             Start(from, to, opens)
      PROVE  ServerTypeOK' /\ UNCHANGED <<requestVars, healthVars>>
  BY <1>s, <1>0 DEF Start, requestVars, healthVars, HealthTypeOK
<1>1. CASE PingPool
  <2>1. CASE Start("ping", "dial", {})
    BY <2>1, <1>s
  <2>2. CASE ~Start("ping", "dial", {})
    BY <1>1, <2>2 DEF PingPool, requestVars, healthVars, HealthTypeOK
  <2> QED BY <2>1, <2>2
<1>2. CASE Dial \/ OpenChannel \/ DeclareTopology
  BY <1>2, <1>s DEF Dial, OpenChannel, DeclareTopology
<1>3. CASE Spawn \/ Listen \/ ServeReturns
  BY <1>3, <1>0 DEF Spawn, Listen, ServeReturns, requestVars, healthVars, HealthTypeOK
<1>4. CASE CloseChannel \/ CloseConnection \/ ClosePool \/ PoolClosed
  BY <1>4 DEF CloseChannel, CloseConnection, Close, ClosePool, PoolClosed,
              requestVars, healthVars, HealthTypeOK
<1>5. CASE WatcherStep \/ Signal \/ MetricsFail
  BY <1>5, <1>0 DEF WatcherStep, ShutDownServer, ShutDownMetrics, WatcherDone, WatcherGoes,
                    Signal, MetricsFail, requestVars, healthVars, HealthTypeOK
<1> QED BY <1>1, <1>2, <1>3, <1>4, <1>5 DEF ProcessStep

\* What a returning check does to its probe.
LEMMA CheckReturnsMoves ==
  ASSUME HealthTypeOK, NEW p \in Probes, NEW c \in Dependencies, CheckReturns(p, c, Usable(c))
  PROVE  \E result \in {"ok", "down"} :
           /\ result = "ok" => dep[c] = "up"
           /\ Running(p)
           /\ \A q \in Probes \ {p} : probe'[q] = probe[q]
           /\ probe'[p].pc = probe[p].pc
           /\ probe'[p].result = [probe[p].result EXCEPT ![c] = result]
           /\ probe' \in [Probes -> [pc : ProbePc, result : [Dependencies -> Result]]]
<1>1. probe \in [Probes -> [pc : ProbePc, result : [Dependencies -> Result]]]
  BY DEF HealthTypeOK
<1>2. PICK result \in {"ok", "down"} :
        /\ result = "ok" => dep[c] = "up"
        /\ probe' = [probe EXCEPT ![p].result[c] = result]
  BY DEF CheckReturns
<1> DEFINE results == [probe[p].result EXCEPT ![c] = result]
<1>3. results \in [Dependencies -> Result]
  BY <1>1 DEF Result
<1>4. probe' = [probe EXCEPT ![p] = [probe[p] EXCEPT !.result = results]]
  BY <1>1, <1>2
<1>5. probe[p] \in [pc : ProbePc, result : [Dependencies -> Result]]
  BY <1>1
<1> HIDE DEF results
<1>6. /\ [probe[p] EXCEPT !.result = results] \in [pc : ProbePc, result : [Dependencies -> Result]]
      /\ [probe[p] EXCEPT !.result = results].pc = probe[p].pc
      /\ [probe[p] EXCEPT !.result = results].result = results
  BY <1>3, <1>5
<1>7. /\ probe' \in [Probes -> [pc : ProbePc, result : [Dependencies -> Result]]]
      /\ probe'[p] = [probe[p] EXCEPT !.result = results]
      /\ \A q \in Probes \ {p} : probe'[q] = probe[q]
  BY <1>1, <1>4, <1>6
<1>8. probe'[p].pc = probe[p].pc /\ probe'[p].result = [probe[p].result EXCEPT ![c] = result]
  BY <1>6, <1>7 DEF results
<1> QED BY <1>2, <1>7, <1>8 DEF CheckReturns

\* What a step of request r does to its position.
MovesRequest(r) ==
  \E pc \in RequestPc \ {"none", "badRequest", "tooLarge"} :
    /\ request[r].pc \in InFlight
    /\ request' = [request EXCEPT ![r].pc = pc]

LEMMA RequestStepMoves ==
  ASSUME ServerTypeOK, NEW r \in Requests, RequestStep(r)
  PROVE  /\ ServerTypeOK' /\ UNCHANGED healthVars
         /\ MovesRequest(r) \/ UNCHANGED request
<1> USE DEF InFlight, Queries, RequestPc
<1>t. /\ request[r] \in [pc : RequestPc, form : Uploads \cup {NoForm}]
      /\ request \in [Requests -> [pc : RequestPc, form : Uploads \cup {NoForm}]]
      /\ onPool \subseteq {q \in Requests : request[q].pc \in Queries}
      /\ faults \in 0..MaxFaults
  BY DEF ServerTypeOK
<1>0. ASSUME NEW kind, ServerFault(kind) PROVE faults' \in 0..MaxFaults
  BY <1>0, <1>t, FaultTyped
<1>f. UNCHANGED <<processVars, healthVars>>
  BY DEF RequestStep, Acquire, Release, Store, PublishEvent
<1>1. ASSUME NEW pc \in RequestPc, RequestGoes(r, pc)
      PROVE  request' \in [Requests -> [pc : RequestPc, form : Uploads \cup {NoForm}]]
  BY <1>1, <1>t DEF RequestGoes
<1>2. ASSUME NEW q \in Requests, NEW pc \in RequestPc, RequestGoes(r, pc), q # r
      PROVE  request'[q] = request[q]
  BY <1>2, <1>t DEF RequestGoes
<1>3. CASE Acquire(r)
  <2>1. CASE onPool' = onPool \cup {r} /\ UNCHANGED request /\ UNCHANGED faults
    BY <2>1, <1>3, <1>t, <1>f
       DEF Acquire, ServerTypeOK, processVars, healthVars, HealthTypeOK
  <2>2. CASE RequestGoes(r, "error") /\ UNCHANGED onPool /\ UNCHANGED faults /\ r \notin onPool
    <3>1. onPool' \subseteq {q \in Requests : request'[q].pc \in Queries}
      BY <2>2, <1>t, <1>2
    <3>2. request' \in [Requests -> [pc : RequestPc, form : Uploads \cup {NoForm}]]
      BY <2>2, <1>1
    <3> QED BY <3>1, <3>2, <2>2, <1>3, <1>t, <1>f
             DEF Acquire, RequestGoes, MovesRequest, ServerTypeOK, processVars, healthVars,
                 HealthTypeOK
  <2> QED BY <1>3, <2>1, <2>2 DEF Acquire
<1>4. CASE Release(r)
  <2>1. PICK pc \in {"store", "publish", "error"} : RequestGoes(r, pc)
    BY <1>4, <1>t DEF Release, AfterQuery
  <2>2. faults' \in 0..MaxFaults
    BY <1>4, <1>t, <1>0 DEF Release
  <2>3. onPool' \subseteq {q \in Requests : request'[q].pc \in Queries}
    BY <1>4, <2>1, <1>t, <1>2 DEF Release
  <2>4. request' \in [Requests -> [pc : RequestPc, form : Uploads \cup {NoForm}]]
    BY <2>1, <1>1
  <2>5. MovesRequest(r)
    BY <2>1, <1>4, <1>t DEF MovesRequest, RequestGoes, Release
  <2> QED BY <2>2, <2>3, <2>4, <2>5, <1>f DEF ServerTypeOK, processVars, healthVars, HealthTypeOK
<1>5. CASE Store(r) \/ PublishEvent(r)
  <2>1. PICK pc \in {"mark", "markFailed", "created", "error"} : RequestGoes(r, pc)
    BY <1>5 DEF Store, PublishEvent
  <2>2. faults' \in 0..MaxFaults /\ onPool' = onPool /\ request[r].pc \in {"store", "publish"}
    BY <1>5, <1>t, <1>0 DEF Store, PublishEvent
  <2>3. onPool' \subseteq {q \in Requests : request'[q].pc \in Queries}
    BY <2>1, <2>2, <1>t, <1>2
  <2>4. request' \in [Requests -> [pc : RequestPc, form : Uploads \cup {NoForm}]]
    BY <2>1, <1>1
  <2>5. MovesRequest(r)
    BY <2>1, <2>2 DEF MovesRequest, RequestGoes
  <2> QED BY <2>2, <2>3, <2>4, <2>5, <1>f DEF ServerTypeOK, processVars, healthVars, HealthTypeOK
<1> QED BY <1>3, <1>4, <1>5 DEF RequestStep

LEMMA AnswerTyped ==
  ASSUME NEW form
  PROVE  Answer(form) \in {"badRequest", "tooLarge", "create"}
BY DEF Answer

LEMMA AdmitTyped ==
  ASSUME ServerTypeOK, NEW r \in Requests, NEW form \in Uploads, Admit(r, form)
  PROVE  ServerTypeOK' /\ UNCHANGED healthVars
<1>1. Answer(form) \in RequestPc
  BY AnswerTyped DEF RequestPc, InFlight, Queries
<1>2. request' \in [Requests -> [pc : RequestPc, form : Uploads \cup {NoForm}]]
  BY <1>1 DEF Admit, ServerTypeOK
<1>3. r \notin onPool
  BY DEF Admit, ServerTypeOK, Queries
<1>4. onPool' \subseteq {q \in Requests : request'[q].pc \in Queries}
  BY <1>3 DEF Admit, ServerTypeOK
<1> QED BY <1>2, <1>4 DEF Admit, ServerTypeOK, processVars, healthVars, HealthTypeOK

LEMMA ExitTyped ==
  ASSUME ServerTypeOK, Exit
  PROVE  ServerTypeOK'
<1> USE DEF ServerTypeOK
<1>1. request' \in [Requests -> [pc : RequestPc, form : Uploads \cup {NoForm}]]
  BY DEF Exit, RequestPc
<1>2. probe' \in [Probes -> [pc : ProbePc, result : [Dependencies -> Result]]]
  BY DEF Exit, CutProbes, HealthTypeOK, ProbePc
<1> QED BY <1>1, <1>2 DEF Exit, RunPc, HealthTypeOK

LEMMA HealthStepTyped ==
  ASSUME ServerTypeOK, HealthStep, UNCHANGED <<processVars, requestVars>>
  PROVE  ServerTypeOK'
<1> USE DEF HealthTypeOK, ProbePc
<1>t. HealthTypeOK /\ faults \in 0..MaxFaults
  BY DEF ServerTypeOK
<1>1. faults' \in 0..MaxFaults
  BY <1>t, FaultTyped DEF HealthStep
<1>2. ASSUME NEW c \in Dependencies, NEW to \in DepState, DependencyChanges(c, to)
      PROVE  HealthTypeOK'
  BY <1>2, <1>t DEF DependencyChanges
<1>3. ASSUME NEW p \in Probes, BeginProbe(p) \/ ProbeExpires(p)
      PROVE  HealthTypeOK'
  BY <1>3, <1>t DEF BeginProbe, ProbeExpires, Up
<1>4. ASSUME NEW p \in Probes, AnswerProbe(p)
      PROVE  HealthTypeOK'
  BY <1>4, <1>t DEF AnswerProbe, Overall
<1>5. ASSUME NEW p \in Probes, NEW c \in Dependencies, CheckReturns(p, c, Usable(c))
      PROVE  HealthTypeOK'
  BY <1>5, <1>t, CheckReturnsMoves DEF CheckReturns
<1>6. Heartbeat => HealthTypeOK'
  BY <1>2 DEF Heartbeat, Dependencies, DepState
<1>7. HealthTypeOK'
  BY <1>2, <1>3, <1>4, <1>5, <1>6 DEF HealthStep, ProbeStep
<1> QED BY <1>1, <1>7 DEF ServerTypeOK, processVars, requestVars

LEMMA ServerInitTyped ==
  ASSUME ServerInit
  PROVE  ServerTypeOK
<1>1. [c \in Dependencies |-> ""] \in [Dependencies -> Result]
  BY DEF Result
<1>2. HealthTypeOK
  BY <1>1 DEF ServerInit, HealthInit, HealthTypeOK, DepState, ProbePc
<1>3. [pc |-> "none", form |-> NoForm] \in [pc : RequestPc, form : Uploads \cup {NoForm}]
  BY DEF RequestPc
<1>4. request \in [Requests -> [pc : RequestPc, form : Uploads \cup {NoForm}]]
  BY <1>3 DEF ServerInit
<1>5. onPool \subseteq {r \in Requests : request[r].pc \in Queries}
  BY DEF ServerInit
<1>6. faults \in 0..MaxFaults
  BY ServerFaultAssumption DEF ServerInit
<1> QED BY <1>2, <1>4, <1>5, <1>6 DEF ServerInit, ServerTypeOK, RunPc, WatcherPc

LEMMA ServerNextTyped ==
  ASSUME ServerTypeOK, [ServerNext]_serverVars
  PROVE  ServerTypeOK'
<1>1. CASE ProcessStep
  BY <1>1, ProcessStepTyped
<1>2. CASE Exit
  BY <1>2, ExitTyped
<1>3. ASSUME NEW r \in Requests, RequestStep(r) \/ \E form \in Uploads : Admit(r, form)
      PROVE  ServerTypeOK'
  BY <1>3, RequestStepMoves, AdmitTyped
<1>4. CASE HealthStep /\ UNCHANGED <<processVars, requestVars>>
  BY <1>4, HealthStepTyped
<1>5. CASE UNCHANGED serverVars
  BY <1>5 DEF serverVars, processVars, requestVars, healthVars, ServerTypeOK, HealthTypeOK
<1> QED BY <1>1, <1>2, <1>3, <1>4, <1>5 DEF ServerNext, RunStep, ProcessStep

\* Every variable of the server process keeps its type; no query keeps its
\* connection of the pool.
THEOREM ServerTypeCorrect == Server => []ServerTypeOK
<1> QED BY ServerInitTyped, ServerNextTyped, PTL DEF Server

---------------------------------------------------------------------------
(* The limit on uploads *)

\* A request that was answered 413 was so at admission, and the other way round.
AnsweredAtAdmission ==
  \A r \in Requests : request[r].pc # "none" =>
    /\ request[r].form \in Uploads
    /\ request[r].pc = "tooLarge" <=> Answer(request[r].form) = "tooLarge"

LEMMA AnsweredAtAdmissionKept ==
  ASSUME ServerTypeOK, AnsweredAtAdmission, [ServerNext]_serverVars
  PROVE  AnsweredAtAdmission'
<1>t. request \in [Requests -> [pc : RequestPc, form : Uploads \cup {NoForm}]]
  BY DEF ServerTypeOK
<1> USE DEF AnsweredAtAdmission
<1>1. ASSUME UNCHANGED request PROVE AnsweredAtAdmission'
  BY <1>1
<1>2. CASE ProcessStep \/ (HealthStep /\ UNCHANGED <<processVars, requestVars>>)
  BY <1>2, <1>1, ProcessStepTyped DEF requestVars
<1>3. CASE Exit
  BY <1>3, <1>t DEF Exit, InFlight, Queries
<1>4. ASSUME NEW r \in Requests, RequestStep(r)
      PROVE  AnsweredAtAdmission'
  <2>1. MovesRequest(r) => AnsweredAtAdmission'
    BY <1>t DEF MovesRequest, InFlight, Queries
  <2> QED BY <2>1, <1>1, <1>4, RequestStepMoves
<1>5. ASSUME NEW r \in Requests, NEW form \in Uploads, Admit(r, form)
      PROVE  AnsweredAtAdmission'
  BY <1>5, <1>t DEF Admit
<1> QED BY <1>1, <1>2, <1>3, <1>4, <1>5
        DEF ServerNext, RunStep, ProcessStep, serverVars, requestVars

\* The limit of the body never answers for that of the file.
LEMMA AnswerIsTheServices ==
  ASSUME MaxUpload > 0, NEW form \in Forms, form.user, form.file, form.overhead <= Headroom
  PROVE  Answer(form) = "tooLarge" <=> form.size > MaxUpload
BY MaxUploadAssumption, HeadroomAssumption
   DEF Answer, BodyTooLarge, BodyLimit, FileTooLarge, Forms

\* With a limit, however large, a well-formed upload is answered with 413 if
\* and only if its file exceeds it.  (Without one it is not so: see README.)
THEOREM UploadLimitIsExact ==
  ASSUME MaxUpload > 0
  PROVE  Server => []SizeLimitIsTheServices
<1>1. ServerInit => AnsweredAtAdmission
  BY DEF ServerInit, AnsweredAtAdmission
<1>2. ASSUME AnsweredAtAdmission
      PROVE  SizeLimitIsTheServices
  BY <1>2, AnswerIsTheServices, UploadsAssumption DEF AnsweredAtAdmission, SizeLimitIsTheServices
<1>3. ServerTypeOK /\ AnsweredAtAdmission /\ [ServerNext]_serverVars => AnsweredAtAdmission'
  BY AnsweredAtAdmissionKept
<1> QED BY <1>1, <1>2, <1>3, ServerTypeCorrect, PTL DEF Server

---------------------------------------------------------------------------
(* Health *)

\* What a check has found up was up, and a 200 rests on every check.
ResultWasSeen(p) ==
  /\ probe[p].pc = "none" => \A c \in Dependencies : probe[p].result[c] = ""
  /\ \A c \in Dependencies : probe[p].result[c] = "ok" => c \in seen[p]
  /\ probe[p].pc \in {"checking", "expired"} => Up \subseteq seen[p]
  /\ probe[p].pc = "ok" => \A c \in Dependencies : probe[p].result[c] = "ok"

ResultsWereSeen == \A p \in Probes : ResultWasSeen(p)

\* A probe for which nothing changes but, perhaps, that it is cut short or its
\* time is over.
LEMMA ProbeGoesOn ==
  ASSUME NEW p \in Probes, ResultWasSeen(p), UNCHANGED dep, seen'[p] = seen[p],
         probe'[p].result = probe[p].result,
         \/ probe'[p].pc \in {probe[p].pc, "cut"}
         \/ probe[p].pc = "checking" /\ probe'[p].pc = "expired"
  PROVE  ResultWasSeen(p)'
<1>1. Up' = Up
  BY DEF Up
<1>2. \A c \in Dependencies : probe'[p].result[c] = probe[p].result[c]
  OBVIOUS
<1>3. probe'[p].pc = "none" => probe[p].pc = "none"
  OBVIOUS
<1>4. probe'[p].pc = "ok" => probe[p].pc = "ok"
  OBVIOUS
<1>5. probe'[p].pc \in {"checking", "expired"} => probe[p].pc \in {"checking", "expired"}
  OBVIOUS
<1> QED BY <1>1, <1>2, <1>3, <1>4, <1>5 DEF ResultWasSeen

LEMMA ResultsWereSeenKept ==
  ASSUME ServerTypeOK, ResultsWereSeen, [ServerNext]_serverVars
  PROVE  ResultsWereSeen'
<1>t. /\ dep \in [Dependencies -> DepState]
      /\ probe \in [Probes -> [pc : ProbePc, result : [Dependencies -> Result]]]
      /\ seen \in [Probes -> SUBSET Dependencies]
  BY DEF ServerTypeOK, HealthTypeOK
<1>r. \A q \in Probes : ResultWasSeen(q)
  BY DEF ResultsWereSeen
<1>1. ASSUME UNCHANGED healthVars PROVE ResultsWereSeen'
  BY <1>1, <1>r, ProbeGoesOn DEF healthVars, ResultsWereSeen
<1>2. CASE Exit
  <2>1. /\ UNCHANGED <<dep, seen>>
        /\ probe' = [p \in Probes |-> IF Running(p) THEN [probe[p] EXCEPT !.pc = "cut"]
                                                   ELSE probe[p]]
    BY <1>2 DEF Exit, CutProbes
  <2>2. ASSUME NEW p \in Probes
        PROVE  probe'[p].result = probe[p].result /\ probe'[p].pc \in {probe[p].pc, "cut"}
    BY <2>1, <1>t
  <2> QED BY <2>1, <2>2, <1>r, ProbeGoesOn DEF ResultsWereSeen
<1>3. CASE HealthStep /\ UNCHANGED <<processVars, requestVars>>
  <2>1. ASSUME NEW c \in Dependencies, NEW to \in DepState, DependencyChanges(c, to)
        PROVE  ResultsWereSeen'
    BY <2>1, <1>t DEF DependencyChanges, Running, ResultsWereSeen, ResultWasSeen, Up
  <2>2. ASSUME NEW p \in Probes, BeginProbe(p)
        PROVE  ResultsWereSeen'
    <3>1. /\ UNCHANGED dep /\ seen'[p] = Up
          /\ probe'[p].result = probe[p].result /\ probe'[p].pc = "checking"
      BY <2>2, <1>t DEF BeginProbe
    <3>2. \A q \in Probes \ {p} : probe'[q] = probe[q] /\ seen'[q] = seen[q]
      BY <2>2, <1>t DEF BeginProbe
    <3>3. \A c \in Dependencies : probe'[p].result[c] = ""
      BY <2>2, <3>1, <1>r DEF BeginProbe, ResultWasSeen
    <3>4. Up' = Up
      BY <3>1 DEF Up
    <3>5. ResultWasSeen(p)'
      BY <3>1, <3>3, <3>4 DEF ResultWasSeen
    <3> QED BY <3>1, <3>2, <3>5, <1>r, ProbeGoesOn DEF ResultsWereSeen
  <2>3. ASSUME NEW p \in Probes, ProbeExpires(p)
        PROVE  ResultsWereSeen'
    <3>1. /\ UNCHANGED <<dep, seen>> /\ probe[p].pc = "checking"
          /\ probe'[p].result = probe[p].result /\ probe'[p].pc = "expired"
      BY <2>3, <1>t DEF ProbeExpires
    <3>2. \A q \in Probes \ {p} : probe'[q] = probe[q]
      BY <2>3, <1>t DEF ProbeExpires
    <3> QED BY <3>1, <3>2, <1>r, ProbeGoesOn DEF ResultsWereSeen
  <2>4. ASSUME NEW p \in Probes, AnswerProbe(p)
        PROVE  ResultsWereSeen'
    BY <2>4, <1>t DEF AnswerProbe, Overall, Running, ResultsWereSeen, ResultWasSeen, Up
  <2>5. ASSUME NEW p \in Probes, NEW c \in Dependencies, CheckReturns(p, c, Usable(c))
        PROVE  ResultsWereSeen'
    <3>1. PICK result \in {"ok", "down"} :
            /\ result = "ok" => dep[c] = "up"
            /\ Running(p)
            /\ \A q \in Probes \ {p} : probe'[q] = probe[q]
            /\ probe'[p].pc = probe[p].pc
            /\ probe'[p].result = [probe[p].result EXCEPT ![c] = result]
      BY <2>5, CheckReturnsMoves DEF ServerTypeOK
    <3>2. UNCHANGED <<dep, seen>>
      BY <2>5 DEF CheckReturns
    <3>3. \A b \in Dependencies :
            probe'[p].result[b] = IF b = c THEN result ELSE probe[p].result[b]
      BY <3>1, <1>t
    <3>4. probe[p].pc \in {"checking", "expired"} /\ Up \subseteq seen[p]
      BY <3>1, <1>r DEF Running, ResultWasSeen
    <3>5. \A b \in Dependencies : probe'[p].result[b] = "ok" => b \in seen[p]
      BY <3>1, <3>3, <3>4, <1>r DEF ResultWasSeen, Up
    <3>6. Up' = Up
      BY <3>2 DEF Up
    <3>7. ResultWasSeen(p)'
      BY <3>1, <3>2, <3>4, <3>5, <3>6 DEF ResultWasSeen
    <3> QED BY <3>1, <3>2, <3>7, <1>r, ProbeGoesOn DEF ResultsWereSeen
  <2>6. Heartbeat => ResultsWereSeen'
    BY <2>1 DEF Heartbeat, Dependencies, DepState
  <2> QED BY <1>3, <2>1, <2>2, <2>3, <2>4, <2>5, <2>6 DEF HealthStep, ProbeStep
<1> QED BY <1>1, <1>2, <1>3, ProcessStepTyped, RequestStepMoves, AdmitTyped
        DEF ServerNext, RunStep, ProcessStep, serverVars

\* A 200 of the health endpoint means that every dependency was up at some
\* moment since the probe began, for any timing of checks and timeouts.
THEOREM HealthIsTrue == Server => []HealthyWasUp
<1>1. ServerInit => ResultsWereSeen
  <2> SUFFICES ASSUME ServerInit, NEW p \in Probes
               PROVE  ResultWasSeen(p)
      BY DEF ResultsWereSeen
  <2> DEFINE nothing == [c \in Dependencies |-> ""]
  <2>1. probe[p] = [pc |-> "none", result |-> nothing]
    BY DEF ServerInit, HealthInit
  <2>2. \A c \in Dependencies : nothing[c] = ""
    OBVIOUS
  <2> HIDE DEF nothing
  <2>3. probe[p].pc = "none" /\ probe[p].result = nothing
    BY <2>1
  <2> QED BY <2>2, <2>3 DEF ResultWasSeen
<1>2. ServerTypeOK /\ ResultsWereSeen => HealthyWasUp
  <2> SUFFICES ASSUME ServerTypeOK, ResultsWereSeen, NEW p \in Probes, probe[p].pc = "ok"
               PROVE  seen[p] = Dependencies
      BY DEF HealthyWasUp
  <2>1. seen[p] \subseteq Dependencies
    BY DEF ServerTypeOK, HealthTypeOK
  <2>2. \A c \in Dependencies : c \in seen[p]
    BY DEF ResultsWereSeen, ResultWasSeen
  <2> QED BY <2>1, <2>2
<1>3. ServerTypeOK /\ ResultsWereSeen /\ [ServerNext]_serverVars => ResultsWereSeen'
  BY ResultsWereSeenKept
<1> QED BY <1>1, <1>2, <1>3, ServerTypeCorrect, PTL DEF Server

=============================================================================
