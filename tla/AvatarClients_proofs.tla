----------------------- MODULE AvatarClients_proofs -----------------------
(***************************************************************************)
(* What the clients that read, those that follow links and those that      *)
(* delete "the user's avatar" are promised, for every instance.            *)
(***************************************************************************)
EXTENDS AvatarUserDeletes, AvatarMetadata, AvatarPipeline_proofs, FiniteSetTheorems

\* What a step of a GET request leaves alone.
PipelineIdle == UNCHANGED <<db, objects, uploadQ, deleteQ, dlq, serviceVars, workerVars>>

\* A row that a query returns names blobs that are there.
LEMMA LiveKeyBacked ==
  ASSUME IInv, NEW a \in Avatars, NEW size \in 0..NumSizes,
         Live(db[a]), db[a].upload = "uploaded"
  PROVE  <<a, ResolveStorageKey(db[a], size)>> \in objects
BY DEF IInv, LiveObjectsBacked, ResolveStorageKey

\* A GET request changes nothing that the pipeline's invariant is about but
\* the number of faults.
LEMMA ReadsKeepIInv ==
  ASSUME IInv, ReadsNext, PipelineIdle
  PROVE  IInv'
<1>1. faults' \in 0..MaxFaults /\ faults \in 0..MaxFaults
  <2>1. faults \in 0..MaxFaults
    BY DEF IInv, TypeOK, BackendsTypeOK
  <2>2. faults' = faults \/ \E kind \in {"error"} : Fault(kind)
    BY DEF ReadsNext, ReadImage, ReadUserImage, OpenImage, StreamImage, Read
  <2> QED BY <2>1, <2>2, MaxFaultsAssumption DEF Fault
<1>2. TypeOK'
  BY <1>1 DEF IInv, TypeOK, BackendsTypeOK, ServiceTypeOK, WorkerTypeOK, PipelineIdle,
              serviceVars, workerVars
<1> QED
  BY <1>2
     DEF IInv, PipelineIdle, serviceVars, workerVars, RowsFollowRequests, RowFollowsRequest,
         StoredOrDeleted, EventsFollowRows, ProgressIsStored, ProcessedOnlyIfUploaded,
         ThumbsAllOrNone, LiveObjectsBacked, DeletedOnce

\* Faults are only ever added.
LEMMA FaultsGrow ==
  ASSUME TypeOK, Next, faults' = 0
  PROVE  faults = 0
BY FaultsCount

\* Steps of the pipeline keep what GET requests hold.
LEMMA PipelineKeepsGets ==
  ASSUME CInv, Next, UNCHANGED get
  PROVE  GetsTypeOK' /\ HeldRowsBacked' /\ StoredIsServed'
<1>1. IInv /\ TypeOK /\ GetsTypeOK
  BY DEF CInv, IInv
<1>2. Monotone /\ (faults' = 0 => faults = 0)
  BY <1>1, StepsAreMonotone, FaultsGrow
<1>3. GetsTypeOK'
  BY <1>1 DEF GetsTypeOK
<1> SUFFICES ASSUME NEW r \in Gets
             PROVE  /\ get[r].pc \in {"download", "stream"} /\ get[r].row.upload = "uploaded" =>
                         db'[get[r].avatar].deleted \/ Key(r) \in objects'
                    /\ get[r].row.processing = "completed" => get[r].row.thumbs = Sizes
                    /\ /\ get[r].row.upload = "uploaded"
                       /\ get[r].pc = "missing" \/ (get[r].pc = "cut" /\ faults' = 0)
                       => db'[get[r].avatar].deleted
    BY <1>3 DEF HeldRowsBacked, StoredIsServed, Key
<1>4. get[r].pc \in {"download", "stream", "missing", "cut"} => get[r].avatar \in Avatars
  BY <1>1 DEF GetsTypeOK, GetRecord
<1>5. ResolveStorageKey(get[r].row, get[r].size) \in 0..NumSizes
  BY <1>1, NumSizesAssumption DEF GetsTypeOK, GetRecord, ResolveStorageKey
<1>6. HeldRowsBacked /\ StoredIsServed
  BY DEF CInv
<1>7. get[r].pc \in {"download", "stream"} /\ get[r].row.upload = "uploaded" =>
        db'[get[r].avatar].deleted \/ Key(r) \in objects'
  BY <1>2, <1>4, <1>5, <1>6 DEF HeldRowsBacked, Monotone, Key
<1>8. get[r].row.upload = "uploaded" /\ (get[r].pc = "missing" \/ (get[r].pc = "cut" /\ faults' = 0))
        => db'[get[r].avatar].deleted
  BY <1>2, <1>4, <1>6 DEF StoredIsServed, Monotone
<1> QED BY <1>6, <1>7, <1>8 DEF HeldRowsBacked

---------------------------------------------------------------------------
(* One request at a time *)

\* What the invariant says of request r.
HeldRowBacked(r) ==
  /\ get[r].pc \in {"download", "stream"} /\ get[r].row.upload = "uploaded" =>
       db[get[r].avatar].deleted \/ Key(r) \in objects
  /\ get[r].row.processing = "completed" => get[r].row.thumbs = Sizes

Served(r) ==
  /\ get[r].row.upload = "uploaded"
  /\ get[r].pc = "missing" \/ (get[r].pc = "cut" /\ faults = 0)
  => db[get[r].avatar].deleted

GetTyped(r) ==
  /\ get[r] \in GetRecord
  /\ get[r].pc \in {"download", "stream", "served", "missing", "cut"} => get[r].avatar # NoAvatar

RequestInv(r) == GetTyped(r) /\ HeldRowBacked(r) /\ Served(r)

\* A step to position pc leaves what the request holds, and the other requests.
LEMMA GetMoves ==
  ASSUME GetsTypeOK, NEW r \in Gets, NEW pc \in GetPc, Respond(r, pc)
  PROVE  /\ get' \in [Gets -> GetRecord]
         /\ get'[r].pc = pc /\ get'[r].avatar = get[r].avatar
         /\ get'[r].size = get[r].size /\ get'[r].row = get[r].row
         /\ \A q \in Gets \ {r} : get'[q] = get[q]
BY DEF GetsTypeOK, GetRecord, Respond

\* A step that reads a row holds what the table says at that moment.
LEMMA GetHolds ==
  ASSUME CInv, NEW r \in Gets, NEW a \in Avatars, NEW size \in 0..NumSizes,
         NEW ofUser \in BOOLEAN, Live(db[a]), HoldsRow(r, a, size, ofUser), UNCHANGED <<db, objects>>
  PROVE  /\ get' \in [Gets -> GetRecord]
         /\ \A q \in Gets \ {r} : get'[q] = get[q]
         /\ RequestInv(r)'
<1>1. db[a] \in Rows /\ GetsTypeOK /\ IInv
  BY DEF CInv, IInv, TypeOK, BackendsTypeOK
<1>2. get'[r] = [pc |-> "download", avatar |-> a, size |-> size, row |-> db[a], ofUser |-> ofUser]
  BY <1>1 DEF HoldsRow, GetsTypeOK
<1>3. get' \in [Gets -> GetRecord]
  BY <1>1 DEF HoldsRow, GetsTypeOK, GetRecord, GetPc
<1>4. \A q \in Gets \ {r} : get'[q] = get[q]
  BY <1>1 DEF HoldsRow, GetsTypeOK
<1>5. GetTyped(r)'
  BY <1>2, <1>3, NoAvatarAssumption DEF GetTyped, GetRecord
<1>6. HeldRowBacked(r)'
  <2>1. db[a].upload = "uploaded" => <<a, ResolveStorageKey(db[a], size)>> \in objects
    BY <1>1, LiveKeyBacked
  <2>2. db[a].processing = "completed" => db[a].thumbs = Sizes
    BY <1>1 DEF IInv, ThumbsAllOrNone
  <2> QED BY <1>2, <2>1, <2>2 DEF HeldRowBacked, Key, ResolveStorageKey, Sizes
<1>7. Served(r)'
  BY <1>2 DEF Served
<1> QED BY <1>3, <1>4, <1>5, <1>6, <1>7 DEF RequestInv

\* The invariant of the requests, request by request.
LEMMA ByRequest ==
  CInv <=> IInv /\ get \in [Gets -> GetRecord]
                /\ \A r \in Gets : RequestInv(r)
BY DEF CInv, GetsTypeOK, HeldRowsBacked, StoredIsServed, RequestInv, GetTyped, HeldRowBacked, Served

\* A step of a GET request keeps the invariant of all of them.
LEMMA ReadsKeepGets ==
  ASSUME CInv, ReadsNext, PipelineIdle
  PROVE  CInv'
<1>1. IInv /\ GetsTypeOK /\ faults \in Nat
  BY MaxFaultsAssumption DEF CInv, IInv, TypeOK, BackendsTypeOK
<1>2. IInv'
  BY <1>1, ReadsKeepIInv
<1>3. UNCHANGED <<db, objects>>
  BY DEF PipelineIdle
<1>4. PICK r \in Gets :
        \/ \E size \in 0..NumSizes :
             \/ \E a \in Avatars : ReadImage(r, a, size)
             \/ \E u \in Users : ReadUserImage(r, u, size)
        \/ OpenImage(r) \/ StreamImage(r)
  BY DEF ReadsNext
<1>5. faults' = faults \/ (Fault("error") /\ faults' = faults + 1)
  BY <1>4 DEF ReadImage, ReadUserImage, OpenImage, StreamImage, Read, Fault
<1> DEFINE Kept == /\ get' \in [Gets -> GetRecord]
                   /\ \A q \in Gets \ {r} : get'[q] = get[q]
                   /\ RequestInv(r)'
<1>r. RequestInv(r)
  BY ByRequest
<1>6. ASSUME NEW pc \in {"notFound", "error"}, Respond(r, pc) PROVE Kept
  <2>1. pc \in GetPc
    BY DEF GetPc
  <2>2. GetTyped(r)'
    BY <1>1, <1>6, <2>1, GetMoves DEF GetTyped
  <2>3. HeldRowBacked(r)' /\ Served(r)'
    BY <1>1, <1>6, <1>r, <2>1, GetMoves DEF RequestInv, HeldRowBacked, Served
  <2> QED BY <1>1, <1>6, <2>1, <2>2, <2>3, GetMoves DEF RequestInv
<1>7. ASSUME NEW a \in Avatars, NEW size \in 0..NumSizes, NEW ofUser \in BOOLEAN,
             Live(db[a]), HoldsRow(r, a, size, ofUser)
      PROVE  Kept
  BY <1>3, <1>7, GetHolds
<1>8. ASSUME NEW a \in Avatars, NEW size \in 0..NumSizes, ReadImage(r, a, size) PROVE Kept
  BY <1>6, <1>7, <1>8 DEF ReadImage, Read
<1>9. ASSUME NEW u \in Users, NEW size \in 0..NumSizes, ReadUserImage(r, u, size) PROVE Kept
  BY <1>6, <1>7, <1>9 DEF ReadUserImage, Read, Newest
<1>10. ASSUME OpenImage(r) PROVE Kept
  <2>1. get[r].pc = "download"
    BY <1>10 DEF OpenImage
  <2>2. CASE Respond(r, "error")
    BY <1>6, <2>2
  <2>3. CASE Respond(r, "stream") /\ Key(r) \in objects
    BY <1>1, <1>3, <1>r, <2>1, <2>3, GetMoves
       DEF RequestInv, GetTyped, HeldRowBacked, Served, Key, GetPc
  <2>4. CASE Respond(r, "missing") /\ Key(r) \notin objects
    BY <1>1, <1>3, <1>r, <2>1, <2>4, GetMoves
       DEF RequestInv, GetTyped, HeldRowBacked, Served, Key, GetPc
  <2> QED BY <1>10, <2>2, <2>3, <2>4 DEF OpenImage, Read
<1>11. ASSUME StreamImage(r) PROVE Kept
  <2>1. get[r].pc = "stream"
    BY <1>11 DEF StreamImage
  <2>2. CASE Respond(r, "served")
    BY <1>1, <1>3, <1>r, <2>1, <2>2, GetMoves
       DEF RequestInv, GetTyped, HeldRowBacked, Served, Key, GetPc
  <2>3. CASE Respond(r, "cut") /\ (Key(r) \notin objects \/ faults' # 0)
    BY <1>1, <1>3, <1>r, <2>1, <2>3, GetMoves
       DEF RequestInv, GetTyped, HeldRowBacked, Served, Key, GetPc
  <2> QED BY <1>1, <1>11, <2>2, <2>3 DEF StreamImage, Read, Fault
<1>12. Kept
  BY <1>4, <1>8, <1>9, <1>10, <1>11
<1>13. ASSUME NEW q \in Gets, q # r PROVE RequestInv(q)'
  <2>1. RequestInv(q) /\ get'[q] = get[q]
    BY <1>12, <1>13, ByRequest
  <2>2. GetTyped(q)' /\ HeldRowBacked(q)'
    BY <1>3, <2>1 DEF RequestInv, GetTyped, HeldRowBacked, Key
  <2>3. Served(q)'
    BY <1>1, <1>3, <1>5, <2>1 DEF RequestInv, Served
  <2> QED BY <2>2, <2>3 DEF RequestInv
<1>14. \A q \in Gets : RequestInv(q)'
  BY <1>12, <1>13
<1> QED
  BY <1>2, <1>12, <1>14
     DEF CInv, GetsTypeOK, HeldRowsBacked, StoredIsServed, RequestInv, GetTyped, HeldRowBacked, Served

---------------------------------------------------------------------------
(* The theorems *)

\* The invariant holds at first.
LEMMA CInvInit == ClientsInit => CInv
<1> SUFFICES ASSUME ClientsInit PROVE CInv
    OBVIOUS
<1>1. IInv
  BY IInvInit DEF ClientsInit
<1>2. NoRow \in Rows /\ NoRow.upload = "absent" /\ NoRow.processing = "pending"
  BY DEF NoRow, Rows, RowsOver, ProcessingStatus
<1>3. IdleGet \in GetRecord
  BY <1>2, NumSizesAssumption DEF IdleGet, GetRecord, GetPc
<1>4. get \in [Gets -> GetRecord]
  BY <1>3 DEF ClientsInit, ReadsInit
<1>5. \A r \in Gets : get[r] = IdleGet
  BY DEF ClientsInit, ReadsInit
<1>6. GetsTypeOK
  BY <1>4, <1>5 DEF GetsTypeOK, IdleGet
<1>7. HeldRowsBacked /\ StoredIsServed
  BY <1>2, <1>5 DEF HeldRowsBacked, StoredIsServed, IdleGet
<1> QED BY <1>1, <1>6, <1>7 DEF CInv

\* Every step keeps the invariant.
LEMMA CInvNext == CInv /\ [ClientsNext]_clientVars => CInv'
<1>1. ASSUME CInv, Next, UNCHANGED get PROVE CInv'
  BY <1>1, IInvNext, PipelineKeepsGets DEF CInv
<1>2. ASSUME CInv, ReadsNext, PipelineIdle PROVE CInv'
  BY <1>2, ReadsKeepGets
<1>3. ASSUME CInv, UNCHANGED clientVars PROVE CInv'
  <2>1. IInv'
    BY <1>3, IInvNext DEF CInv, clientVars
  <2> QED
    BY <1>3, <2>1
       DEF CInv, clientVars, vars, readVars, GetsTypeOK, HeldRowsBacked, StoredIsServed, Key
<1> QED BY <1>1, <1>2, <1>3 DEF ClientsNext, PipelineIdle

\* The invariant holds throughout.
LEMMA ClientsInvariance == ClientsSpec => []CInv
BY CInvInit, CInvNext, PTL DEF ClientsSpec

\* For every number of avatars, requests, workers, deletes and faults: a GET
\* that read an uploaded row is refused the image only after a delete.
THEOREM StoredImagesAreServed == ClientsSpec => []StoredIsServed
BY ClientsInvariance, PTL DEF CInv

\* For every instance: a completed avatar is served in the size asked for.
THEOREM ReadySizesAreServed == ClientsSpec => []ReadyServesSize
<1>1. CInv => ReadyServesSize
  <2> SUFFICES ASSUME CInv, NEW r \in Gets, get[r].row.processing = "completed"
               PROVE  ResolveStorageKey(get[r].row, get[r].size) = get[r].size
      BY DEF ReadyServesSize
  <2>1. get[r].size \in 0..NumSizes /\ get[r].row.thumbs = 1..NumSizes
    BY DEF CInv, GetsTypeOK, GetRecord, HeldRowsBacked, Sizes
  <2>2. get[r].size = 0 \/ get[r].size \in 1..NumSizes
    BY <2>1, NumSizesAssumption
  <2> QED BY <2>1, <2>2 DEF ResolveStorageKey
<1> QED BY <1>1, ClientsInvariance, PTL

---------------------------------------------------------------------------
(* Types; the ranks of rows are numbers because there are finitely many *)

LEMMA RowsCounted ==
  ASSUME IsFiniteSet(Avatars)
  PROVE  RowsSoFar \in Nat
<1> DEFINE rows == {a \in Avatars : db[a].upload # "absent"}
<1>1. rows \in SUBSET Avatars
  OBVIOUS
<1>2. IsFiniteSet(rows)
  BY <1>1, FS_Subset
<1> QED BY <1>2, FS_CardinalityType DEF RowsSoFar

\* New rows rank behind all that there were.
Ranked ==
  \A b \in Avatars :
    createdAt'[b] = IF db[b].upload = "absent" /\ db'[b].upload # "absent"
                    THEN RowsSoFar + 1 ELSE createdAt[b]

LEMMA RanksAreRanked ==
  ASSUME IsFiniteSet(Avatars), createdAt \in [Avatars -> Nat], RanksNewRows
  PROVE  createdAt' \in [Avatars -> Nat] /\ Ranked
<1>1. RowsSoFar \in Nat
  BY RowsCounted
<1>2. createdAt' =
        [a \in Avatars |->
           IF db[a].upload = "absent" /\ db'[a].upload # "absent"
           THEN RowsSoFar + 1 ELSE createdAt[a]]
  BY DEF RanksNewRows, RowsSoFar
<1> QED BY <1>1, <1>2 DEF Ranked

\* For every finite set of avatars: the clients' variables keep their types;
\* a GET that has got as far as its blob has an avatar.
THEOREM ClientsTypeCorrect ==
  ASSUME IsFiniteSet(Avatars)
  PROVE  ClientsSpec => []ClientsTypeOK
<1> DEFINE RanksTyped == createdAt \in [Avatars -> Nat]
<1>1. ClientsInit => RanksTyped
  BY DEF ClientsInit, ReadsInit
<1>2. RanksTyped /\ [ClientsNext]_clientVars => RanksTyped'
  <2>1. ASSUME RanksTyped, RanksNewRows PROVE RanksTyped'
    BY <2>1, RanksAreRanked
  <2>2. ReadsNext => UNCHANGED createdAt
    BY DEF ReadsNext, ReadImage, ReadUserImage, OpenImage, StreamImage
  <2> QED BY <2>1, <2>2 DEF ClientsNext, clientVars, readVars
<1>3. CInv /\ RanksTyped => ClientsTypeOK
  BY DEF CInv, IInv, ClientsTypeOK, ReadsTypeOK
<1> QED BY <1>1, <1>2, <1>3, ClientsInvariance, PTL DEF ClientsSpec

---------------------------------------------------------------------------
(* Deleting the user's avatar *)

\* What holds of request d from its list on: it deletes what it has listed,
\* and whatever is newer was inserted later.
Listed(d) ==
  LET t == listing[d].target IN
  /\ delete[d].pc \in {"softDelete", "publish", "done"} =>
       t # NoAvatar /\ delete[d].event.avatar = t
  /\ t # NoAvatar =>
       /\ db[t].upload # "absent"
       /\ listing[d].rows <= RowsSoFar
       /\ delete[d].pc = "rejected" => db[t].deleted
       /\ \A b \in Avatars :
            Owner[b] = Owner[t] /\ Live(db[b]) /\ createdAt[b] > createdAt[t] =>
              createdAt[b] > listing[d].rows

UInv ==
  /\ IInv
  /\ createdAt \in [Avatars -> Nat]
  /\ listing \in [UserDeletes -> [target : Avatars \cup {NoAvatar}, rows : Nat]]
  /\ \A d \in UserDeletes : Listed(d)

\* How a step may move a request that it is not the turn of.
Carries(d) ==
  /\ listing'[d] = listing[d]
  /\ delete'[d].pc \in {"softDelete", "publish", "done"} =>
       /\ delete[d].pc \in {"softDelete", "publish", "done"}
       /\ delete'[d].event = delete[d].event
  /\ delete'[d].pc = "rejected" =>
       \/ delete[d].pc = "rejected"
       \/ delete[d].pc = "softDelete" /\ ~Live(db[delete[d].event.avatar])

---------------------------------------------------------------------------
(* The number of rows *)

LEMMA RowsGrow ==
  ASSUME IsFiniteSet(Avatars), Monotone
  PROVE  RowsSoFar <= RowsSoFar' /\ RowsSoFar' \in Nat
<1> DEFINE before == {a \in Avatars : db[a].upload # "absent"}
           after  == {a \in Avatars : db'[a].upload # "absent"}
<1>1. before \in SUBSET after /\ after \in SUBSET Avatars
  BY DEF Monotone
<1>2. IsFiniteSet(after)
  BY <1>1, FS_Subset
<1>3. Cardinality(before) <= Cardinality(after) /\ Cardinality(after) \in Nat
  BY <1>1, <1>2, FS_Subset, FS_CardinalityType
<1>4. RowsSoFar = Cardinality(before) /\ RowsSoFar' = Cardinality(after)
  BY DEF RowsSoFar
<1> QED BY <1>3, <1>4

\* Rows that stay as they are.
LEMMA RowsStay ==
  ASSUME UNCHANGED <<db, objects, createdAt>>
  PROVE  Monotone /\ Ranked
BY DEF Monotone, StoredOrDeleted, Ranked

---------------------------------------------------------------------------
(* Requests *)

\* A request keeps what it has listed while others take their steps.
LEMMA ListedKept ==
  ASSUME IsFiniteSet(Avatars), UInv, NEW d \in UserDeletes, Carries(d), Monotone, Ranked
  PROVE  Listed(d)'
<1> DEFINE t == listing[d].target
<1>1. /\ Listed(d) /\ listing'[d] = listing[d]
      /\ t \in Avatars \cup {NoAvatar} /\ listing[d].rows \in Nat
  BY DEF UInv, Carries
<1>2. delete'[d].pc \in {"softDelete", "publish", "done"} =>
        t # NoAvatar /\ delete'[d].event.avatar = t
  BY <1>1 DEF Listed, Carries
<1>3. ASSUME t # NoAvatar
      PROVE  /\ db'[t].upload # "absent"
             /\ listing[d].rows <= RowsSoFar'
             /\ delete'[d].pc = "rejected" => db'[t].deleted
             /\ \A b \in Avatars :
                  Owner[b] = Owner[t] /\ Live(db'[b]) /\ createdAt'[b] > createdAt'[t] =>
                    createdAt'[b] > listing[d].rows
  <2>1. t \in Avatars /\ db[t].upload # "absent" /\ listing[d].rows <= RowsSoFar
    BY <1>1, <1>3 DEF Listed
  <2>2. RowsSoFar \in Nat /\ RowsSoFar' \in Nat /\ RowsSoFar <= RowsSoFar'
    BY RowsCounted, RowsGrow
  <2>3. db'[t].upload # "absent" /\ createdAt'[t] = createdAt[t]
    BY <2>1 DEF Monotone, Ranked
  <2>4. listing[d].rows <= RowsSoFar'
    BY <1>1, <2>1, <2>2
  <2>5. ASSUME delete'[d].pc = "rejected" PROVE db'[t].deleted
    <3>1. db[t].deleted
      BY <1>1, <1>3, <2>1, <2>5 DEF Listed, Carries, Live
    <3> QED BY <2>1, <3>1 DEF Monotone
  <2>6. ASSUME NEW b \in Avatars, Owner[b] = Owner[t], Live(db'[b]), createdAt'[b] > createdAt'[t]
        PROVE  createdAt'[b] > listing[d].rows
    <3>1. CASE db[b].upload = "absent"
      <4>1. createdAt'[b] = RowsSoFar + 1
        BY <2>6, <3>1 DEF Ranked, Live
      <4> QED BY <1>1, <2>1, <2>2, <4>1
    <3>2. CASE db[b].upload # "absent"
      <4>1. createdAt'[b] = createdAt[b] /\ Live(db[b])
        BY <2>6, <3>2 DEF Ranked, Monotone, Live
      <4> QED BY <1>1, <1>3, <2>3, <2>6, <4>1 DEF Listed
    <3> QED BY <3>1, <3>2
  <2> QED BY <2>3, <2>4, <2>5, <2>6
<1> QED BY <1>1, <1>2, <1>3 DEF Listed

\* Steps of the pipeline take a request from its list to its end.
LEMMA PipelineCarries ==
  ASSUME TypeOK, Next, NEW d \in Deletes,
         delete[d].pc = "none" => delete'[d] = delete[d], listing'[d] = listing[d]
  PROVE  Carries(d)
<1>t. delete \in [Deletes -> [pc : DeletePc, event : DeleteMsg \cup {NoMsg}]]
  BY DEF TypeOK, ServiceTypeOK
<1>1. ASSUME delete'[d] = delete[d] PROVE Carries(d)
  BY <1>1 DEF Carries
<1>2. ASSUME NEW e \in Deletes, NEW a \in Avatars, NEW u \in Users, ReadForDelete(e, a, u)
      PROVE  delete'[d] = delete[d]
  BY <1>2, <1>t DEF ReadForDelete, Read, DeleteGoes
<1>3. ASSUME NEW e \in Deletes, SoftDelete(e) PROVE Carries(d)
  <2>1. CASE e # d
    BY <1>1, <1>3, <1>t, <2>1 DEF SoftDelete, Call, DeleteGoes
  <2>2. CASE e = d
    BY <1>3, <1>t, <2>2 DEF SoftDelete, SoftDeleted, Call, DeleteGoes, Carries
  <2> QED BY <2>1, <2>2
<1>4. ASSUME NEW e \in Deletes, PublishDelete(e) \/ AbortDelete(e) PROVE Carries(d)
  <2>1. CASE e # d
    BY <1>1, <1>4, <1>t, <2>1 DEF PublishDelete, AbortDelete, Publish, Call, DeleteGoes
  <2>2. CASE e = d
    BY <1>4, <1>t, <2>2 DEF PublishDelete, AbortDelete, Publish, Call, DeleteGoes, Carries
  <2> QED BY <2>1, <2>2
<1>5. ASSUME NEW a \in Avatars, CreateRow(a) \/ UploadStep(a) \/ AbortUpload(a)
      PROVE  delete'[d] = delete[d]
  BY <1>5 DEF CreateRow, UploadStep, StoreOriginal, MarkUploadFailed, MarkUploaded,
              PublishUpload, AbortUpload
<1> QED
  BY <1>1, <1>2, <1>3, <1>4, <1>5 DEF Next, ServiceNext, DeleteStep, serviceVars

\* The delete of a listed avatar is a delete by its owner.
LEMMA DeleteListedIsADelete ==
  ASSUME NEW d \in UserDeletes, listing \in [UserDeletes -> [target : Avatars \cup {NoAvatar}, rows : Nat]],
         DeleteListed(d)
  PROVE  Next
<1>1. listing[d].target \in Avatars /\ d \in Deletes
  BY UserDeletesAssumption DEF DeleteListed
<1>2. Owner[listing[d].target] \in Users
  BY <1>1, OwnerAssumption
<1>3. ReadForDelete(d, listing[d].target, Owner[listing[d].target]) /\ UNCHANGED workerVars
  BY DEF DeleteListed
<1>4. ServiceNext
  BY <1>1, <1>2, <1>3 DEF ServiceNext
<1> QED BY <1>3, <1>4 DEF Next

LEMMA DeleteListedKeeps ==
  ASSUME IsFiniteSet(Avatars), UInv, NEW d \in UserDeletes, DeleteListed(d)
  PROVE  UInv'
<1> DEFINE t == listing[d].target
<1>t. /\ delete \in [Deletes -> [pc : DeletePc, event : DeleteMsg \cup {NoMsg}]]
      /\ listing \in [UserDeletes -> [target : Avatars \cup {NoAvatar}, rows : Nat]]
      /\ t \in Avatars /\ d \in Deletes
  BY UserDeletesAssumption DEF UInv, IInv, TypeOK, ServiceTypeOK, DeleteListed
<1>1. IInv'
  BY <1>t, DeleteListedIsADelete, IInvNext DEF UInv
<1>2. UNCHANGED <<db, objects, createdAt, listing>>
  BY DEF DeleteListed, ReadForDelete, readVars
<1>3. Monotone /\ Ranked
  BY <1>2, RowsStay
<1>4. \A e \in Deletes \ {d} : delete'[e] = delete[e]
  BY <1>t DEF DeleteListed, ReadForDelete, Read, DeleteGoes
<1>5. ASSUME NEW e \in UserDeletes, e # d PROVE Listed(e)'
  BY <1>2, <1>3, <1>4, <1>5, ListedKept, UserDeletesAssumption DEF Carries
<1>6. \/ delete'[d] = [pc |-> "softDelete", event |-> CollectedKeys(t)]
      \/ delete'[d] = [pc |-> "rejected", event |-> NoMsg] /\ ~Live(db[t])
      \/ delete'[d] = [pc |-> "error", event |-> NoMsg]
  BY <1>t DEF DeleteListed, ReadForDelete, Read, DeleteGoes
<1>7. t # NoAvatar /\ Listed(d)
  BY <1>t, NoAvatarAssumption DEF UInv
<1>8. delete'[d].pc \in {"softDelete", "publish", "done"} => delete'[d].event.avatar = t
  BY <1>6 DEF CollectedKeys
<1>9. delete'[d].pc = "rejected" => db[t].deleted
  BY <1>6, <1>7 DEF Listed, Live
<1>10. RowsSoFar' = RowsSoFar
  BY <1>2 DEF RowsSoFar
<1>11. Listed(d)'
  BY <1>2, <1>7, <1>8, <1>9, <1>10 DEF Listed
<1> QED BY <1>1, <1>2, <1>5, <1>11 DEF UInv

\* A list changes a request that has not begun, and no row.
LEMMA ListForDeleteKeepsIInv ==
  ASSUME IInv, NEW d \in UserDeletes, NEW u \in Users, ListForDelete(d, u)
  PROVE  IInv'
<1>t. /\ delete \in [Deletes -> [pc : DeletePc, event : DeleteMsg \cup {NoMsg}]]
      /\ faults \in 0..MaxFaults /\ d \in Deletes /\ TypeOK
  BY UserDeletesAssumption DEF IInv, TypeOK, ServiceTypeOK, BackendsTypeOK
<1>1. faults' \in 0..MaxFaults
  BY <1>t, MaxFaultsAssumption DEF ListForDelete, Read, Fault
<1>2. UNCHANGED <<upload, db, objects, uploadQ, deleteQ, dlq, ucon, dcon, stopping, linked>>
  BY DEF ListForDelete, workerVars
<1>3. /\ delete' \in [Deletes -> [pc : DeletePc, event : DeleteMsg \cup {NoMsg}]]
      /\ \A e \in Deletes \ {d} : delete'[e] = delete[e]
      /\ \/ delete'[d] = delete[d]
         \/ delete'[d].pc \in {"rejected", "error"} /\ delete'[d].event = NoMsg
  BY <1>t DEF ListForDelete, Read, DeleteGoes, DeletePc
<1>4. ServiceTypeOK'
  BY <1>2, <1>3, <1>t DEF TypeOK, ServiceTypeOK
<1>5. TypeOK'
  BY <1>1, <1>2, <1>4, <1>t DEF TypeOK, BackendsTypeOK, WorkerTypeOK
<1>6. \A e \in Deletes : delete'[e].pc \in {"publish", "done"} => delete'[e] = delete[e]
  BY <1>3
<1>7. EventsFollowRows'
  BY <1>2, <1>6 DEF IInv, EventsFollowRows, StoredOrDeleted
<1>8. DeletedOnce'
  BY <1>6 DEF IInv, DeletedOnce
<1> QED
  BY <1>2, <1>5, <1>7, <1>8
     DEF IInv, RowsFollowRequests, RowFollowsRequest, StoredOrDeleted, ProgressIsStored,
         ProcessedOnlyIfUploaded, ThumbsAllOrNone, LiveObjectsBacked

LEMMA ListForDeleteKeeps ==
  ASSUME IsFiniteSet(Avatars), UInv, NEW d \in UserDeletes, NEW u \in Users, ListForDelete(d, u)
  PROVE  UInv'
<1>t. /\ delete \in [Deletes -> [pc : DeletePc, event : DeleteMsg \cup {NoMsg}]]
      /\ listing \in [UserDeletes -> [target : Avatars \cup {NoAvatar}, rows : Nat]]
      /\ d \in Deletes
  BY UserDeletesAssumption DEF UInv, IInv, TypeOK, ServiceTypeOK
<1>1. IInv'
  BY ListForDeleteKeepsIInv DEF UInv
<1>2. UNCHANGED <<db, objects, createdAt>>
  BY DEF ListForDelete, readVars
<1>3. Monotone /\ Ranked
  BY <1>2, RowsStay
<1>4. RowsSoFar' = RowsSoFar /\ RowsSoFar \in Nat
  BY <1>2, RowsCounted DEF RowsSoFar
<1>5. \A e \in UserDeletes \ {d} : delete'[e] = delete[e] /\ listing'[e] = listing[e]
  BY <1>t, UserDeletesAssumption DEF ListForDelete, Read, DeleteGoes
<1>6. ASSUME NEW e \in UserDeletes, e # d PROVE Listed(e)'
  BY <1>3, <1>5, <1>6, ListedKept DEF Carries
<1>7. CASE /\ listing' = listing
           /\ delete'[d].pc \in {"rejected", "error"}
  <2>1. listing'[d].target = NoAvatar
    BY <1>7 DEF ListForDelete, NotListed
  <2>2. Listed(d)'
    BY <1>7, <2>1 DEF Listed
  <2> QED BY <1>1, <1>2, <1>6, <1>7, <2>2 DEF UInv
<1>8. ASSUME NEW a \in First(ListByUserID(u)), delete' = delete,
             listing' = [listing EXCEPT ![d] = [target |-> a, rows |-> RowsSoFar]]
      PROVE  UInv'
  <2>1. /\ a \in Avatars /\ Owner[a] = u /\ Live(db[a])
        /\ \A b \in Avatars : Owner[b] = u /\ Live(db[b]) => createdAt[b] <= createdAt[a]
    BY <1>8 DEF First, ListByUserID
  <2>2. /\ listing' \in [UserDeletes -> [target : Avatars \cup {NoAvatar}, rows : Nat]]
        /\ listing'[d].target = a /\ listing'[d].rows = RowsSoFar
    BY <1>t, <1>4, <1>8, <2>1
  <2>3. createdAt \in [Avatars -> Nat]
    BY DEF UInv
  <2>4. \A b \in Avatars : ~(Owner[b] = Owner[a] /\ Live(db[b]) /\ createdAt[b] > createdAt[a])
    BY <2>1, <2>3
  <2>5. delete'[d].pc = "none"
    BY <1>8 DEF ListForDelete
  <2>6. Listed(d)'
    BY <1>2, <1>4, <2>1, <2>2, <2>4, <2>5 DEF Listed, Live
  <2> QED BY <1>1, <1>2, <1>6, <2>2, <2>3, <2>6 DEF UInv
<1>9. \/ UNCHANGED listing /\ delete' = [delete EXCEPT ![d] = [pc |-> "rejected", event |-> NoMsg]]
      \/ UNCHANGED listing /\ delete' = [delete EXCEPT ![d] = [pc |-> "error", event |-> NoMsg]]
      \/ \E a \in First(ListByUserID(u)) :
           /\ listing' = [listing EXCEPT ![d] = [target |-> a, rows |-> RowsSoFar]]
           /\ delete' = delete
  BY DEF ListForDelete, Read, DeleteGoes
<1> QED BY <1>7, <1>8, <1>9, <1>t

---------------------------------------------------------------------------
(* The theorems *)

LEMMA UInvInit ==
  ASSUME UserDeletesInit
  PROVE  UInv
<1>1. IInv
  BY IInvInit DEF UserDeletesInit, ClientsInit
<1>2. createdAt \in [Avatars -> Nat]
  BY DEF UserDeletesInit, ClientsInit, ReadsInit
<1>3. /\ listing \in [UserDeletes -> [target : Avatars \cup {NoAvatar}, rows : Nat]]
      /\ \A d \in UserDeletes : listing[d].target = NoAvatar
  BY DEF UserDeletesInit, NotListed
<1>4. \A d \in UserDeletes : delete[d].pc = "none"
  BY UserDeletesAssumption DEF UserDeletesInit, ClientsInit, Init, ServiceInit
<1>5. \A d \in UserDeletes : Listed(d)
  BY <1>3, <1>4 DEF Listed
<1> QED BY <1>1, <1>2, <1>3, <1>5 DEF UInv

LEMMA UInvNext ==
  ASSUME IsFiniteSet(Avatars), UInv, [UserDeletesNext]_userVars
  PROVE  UInv'
<1>i. IInv /\ TypeOK /\ createdAt \in [Avatars -> Nat]
  BY DEF UInv, IInv
<1>1. ASSUME Next, RanksNewRows, UNCHANGED listing,
             \A d \in UserDeletes : delete[d].pc = "none" => delete'[d] = delete[d]
      PROVE  UInv'
  <2>1. IInv' /\ Monotone
    BY <1>1, <1>i, IInvNext, StepsAreMonotone
  <2>2. createdAt' \in [Avatars -> Nat] /\ Ranked
    BY <1>1, <1>i, RanksAreRanked
  <2>3. ASSUME NEW d \in UserDeletes PROVE Listed(d)'
    <3>1. Carries(d)
      BY <1>1, <1>i, PipelineCarries, UserDeletesAssumption
    <3> QED BY <2>1, <2>2, <3>1, ListedKept
  <2> QED BY <1>1, <2>1, <2>2, <2>3 DEF UInv
<1>2. ASSUME IInv', UNCHANGED <<db, objects, createdAt, delete, listing>>
      PROVE  UInv'
  <2>1. Monotone /\ Ranked
    BY <1>2, RowsStay
  <2>2. \A d \in UserDeletes : Listed(d)'
    BY <1>2, <2>1, ListedKept DEF Carries
  <2> QED BY <1>2, <2>2 DEF UInv
<1>3. ASSUME ReadsNext, PipelineIdle, UNCHANGED listing PROVE UInv'
  <2>1. IInv' /\ UNCHANGED <<db, objects, delete>>
    BY <1>3, <1>i, ReadsKeepIInv DEF PipelineIdle, serviceVars
  <2>2. UNCHANGED createdAt
    BY <1>3 DEF ReadsNext, ReadImage, ReadUserImage, OpenImage, StreamImage
  <2> QED BY <1>2, <1>3, <2>1, <2>2
<1>4. ASSUME UNCHANGED userVars PROVE UInv'
  <2>1. IInv'
    BY <1>4, <1>i, IInvNext DEF userVars, clientVars
  <2> QED BY <1>2, <1>4, <2>1 DEF userVars, clientVars, vars, readVars
<1> QED
  BY <1>1, <1>3, <1>4, DeleteListedKeeps, ListForDeleteKeeps
     DEF UserDeletesNext, ClientsNext, PipelineIdle

\* For every finite set of avatars and any faults: a 204 for "the user's
\* avatar" has deleted the newest one there was when the list was read.
THEOREM NewestGoes ==
  ASSUME IsFiniteSet(Avatars)
  PROVE  UserDeletesSpec => []NewestListedGoes
<1>1. UInv => NewestListedGoes
  BY DEF UInv, Listed, NewestListedGoes
<1> QED BY <1>1, UInvInit, UInvNext, PTL DEF UserDeletesSpec

\* For every finite set of avatars and any faults: after its list such a
\* request is refused only because the avatar was deleted by another.
THEOREM RefusalMeansGone ==
  ASSUME IsFiniteSet(Avatars)
  PROVE  UserDeletesSpec => []RefusedOnlyIfGone
<1>1. UInv => RefusedOnlyIfGone
  BY DEF UInv, Listed, RefusedOnlyIfGone
<1> QED BY <1>1, UInvInit, UInvNext, PTL DEF UserDeletesSpec

---------------------------------------------------------------------------
(* Links that clients were given *)

\* A link was given for a size of a completed avatar, which only a second
\* fault can take back.
LinksHold ==
  /\ shown \subseteq Avatars \X Sizes
  /\ \A a \in Avatars, k \in Sizes :
       <<a, k>> \in shown /\ faults < 2 => db[a].processing = "completed"

MInv == CInv /\ FailuresTakeFaults /\ LinksHold

\* A GET request moves no consumer, and at most adds a fault.
LEMMA ReadsKeepFailures ==
  ASSUME MaxRetry > 0, IInv, FailuresTakeFaults, ReadsNext, PipelineIdle
  PROVE  FailuresTakeFaults' /\ faults \in Nat /\ (faults' = faults \/ faults' = faults + 1)
<1>1. faults \in Nat
  BY MaxFaultsAssumption DEF IInv, TypeOK, BackendsTypeOK
<1>2. faults' = faults \/ faults' = faults + 1
  BY DEF ReadsNext, ReadImage, ReadUserImage, OpenImage, StreamImage, Read, Fault
<1>3. UNCHANGED <<db, uploadQ, ucon, stopping>>
  BY DEF PipelineIdle, workerVars
<1>4. NothingFailsUnprovoked'
  BY <1>1, <1>2, <1>3 DEF FailuresTakeFaults, NothingFailsUnprovoked, Processable
<1>5. OneFaultLeavesRetries'
  <2> SUFFICES ASSUME faults' = 1, NEW w \in Workers, w \notin stopping, ucon[w].pc # "idle",
                      Processable(ucon[w].msg.avatar)
               PROVE  /\ ucon[w].pc # "markFailed"
                      /\ ucon[w].pc = "fail" => ucon[w].msg.retry < MaxRetry
      BY <1>3 DEF OneFaultLeavesRetries, Processable
  <2> QED BY <1>1, <1>2 DEF FailuresTakeFaults, NothingFailsUnprovoked, OneFaultLeavesRetries
<1>6. UndecodableIncomplete'
  BY <1>3 DEF FailuresTakeFaults, UndecodableIncomplete
<1> QED BY <1>1, <1>2, <1>4, <1>5, <1>6 DEF FailuresTakeFaults

LEMMA MInvInit == MetadataInit => MInv
BY CInvInit, FailuresInit DEF MetadataInit, ClientsInit, MInv, LinksHold

\* The steps of the pipeline and of GET requests keep the links.
LEMMA ClientsKeepLinks ==
  ASSUME MaxRetry > 0, MInv, ClientsNext, UNCHANGED shown
  PROVE  MInv'
<1>0. CInv /\ IInv /\ TypeOK /\ FailuresTakeFaults /\ LinksHold
  BY DEF MInv, CInv, IInv
<1>1. CInv'
  BY <1>0, CInvNext
<1>2. CASE Next
  <2>1. FailuresTakeFaults' /\ faults \in Nat /\ (faults' = faults \/ faults' = faults + 1)
    BY <1>0, <1>2, FailuresNext, FaultsCount
  <2>2. LinksHold'
    <3> SUFFICES ASSUME NEW a \in Avatars, NEW k \in Sizes, <<a, k>> \in shown, faults' < 2
                 PROVE  db'[a].processing = "completed"
        BY <1>0 DEF LinksHold
    <3>1. faults < 2 /\ ~(faults' >= 2)
      BY <2>1
    <3> QED BY <1>0, <1>2, <3>1, CompletionStays DEF LinksHold
  <2> QED BY <1>1, <2>1, <2>2 DEF MInv
<1>3. CASE ReadsNext /\ PipelineIdle
  <2>1. FailuresTakeFaults' /\ faults \in Nat /\ (faults' = faults \/ faults' = faults + 1)
    BY <1>0, <1>3, ReadsKeepFailures
  <2>2. LinksHold'
    BY <1>0, <1>3, <2>1 DEF LinksHold, PipelineIdle
  <2> QED BY <1>1, <2>1, <2>2 DEF MInv
<1> QED BY <1>2, <1>3 DEF ClientsNext, PipelineIdle

\* The metadata of an avatar has a link for each size once it is completed,
\* and none before.
LEMMA MetadataKeepsLinks ==
  ASSUME MInv, NEW a \in Avatars, ReadMetadata(a), UNCHANGED clientVars
  PROVE  MInv'
<1>0. CInv /\ IInv /\ FailuresTakeFaults /\ LinksHold
  BY DEF MInv, CInv
<1>1. UNCHANGED <<db, objects, uploadQ, deleteQ, dlq, faults, upload, delete, ucon, dcon,
                  stopping, linked, createdAt, get>>
  BY DEF clientVars, vars, readVars
<1>2. CInv'
  BY <1>0, CInvNext
<1>3. FailuresTakeFaults'
  BY <1>0, <1>1 DEF FailuresTakeFaults, NothingFailsUnprovoked, OneFaultLeavesRetries,
                    UndecodableIncomplete, Processable
<1>4. /\ db[a].thumbs \subseteq Sizes
      /\ \A k \in db[a].thumbs : db[a].processing = "completed"
  BY <1>0 DEF IInv, ThumbsAllOrNone
<1>5. shown' = shown \cup ({a} \X db[a].thumbs)
  BY DEF ReadMetadata, Shows
<1>6. LinksHold'
  BY <1>0, <1>1, <1>4, <1>5 DEF LinksHold
<1> QED BY <1>2, <1>3, <1>6 DEF MInv

LEMMA MInvNext ==
  ASSUME MaxRetry > 0 PROVE MInv /\ [MetadataNext]_metadataVars => MInv'
<1>1. ASSUME MInv, UNCHANGED metadataVars PROVE MInv'
  <2>1. UNCHANGED <<db, objects, uploadQ, deleteQ, dlq, faults, upload, delete, ucon, dcon,
                    stopping, linked, createdAt, get, shown>>
    BY <1>1 DEF metadataVars, clientVars, vars, readVars
  <2>2. CInv'
    BY <1>1, CInvNext DEF metadataVars, MInv
  <2>3. FailuresTakeFaults'
    BY <1>1, <2>1 DEF MInv, FailuresTakeFaults, NothingFailsUnprovoked, OneFaultLeavesRetries,
                      UndecodableIncomplete, Processable
  <2> QED BY <1>1, <2>1, <2>2, <2>3 DEF MInv, LinksHold
<1> QED BY <1>1, ClientsKeepLinks, MetadataKeepsLinks DEF MetadataNext

\* A request that reads a row holds it as the table has it.
LEMMA HoldsWhatIsStored ==
  ASSUME GetsTypeOK, ReadsNext, NEW r \in Gets, get[r].pc = "none", get'[r].pc = "download"
  PROVE  /\ get'[r].avatar \in Avatars
         /\ get'[r].size \in 0..NumSizes
         /\ get'[r].row = db[get'[r].avatar]
<1> DEFINE Holds == /\ get'[r].avatar \in Avatars
                    /\ get'[r].size \in 0..NumSizes
                    /\ get'[r].row = db[get'[r].avatar]
<1>1. ASSUME NEW q \in Gets, NEW a \in Avatars, NEW size \in 0..NumSizes,
             NEW ofUser \in BOOLEAN, HoldsRow(q, a, size, ofUser)
      PROVE  Holds
  BY <1>1 DEF HoldsRow, GetsTypeOK
<1>2. ASSUME NEW q \in Gets, NEW pc \in GetPc \ {"download"}, Respond(q, pc) PROVE FALSE
  <2>1. get'[r] = get[r] \/ get'[r].pc = pc
    BY <1>2, GetMoves
  <2> QED BY <2>1
<1>3. PICK q \in Gets :
        \/ \E size \in 0..NumSizes :
             \/ \E a \in Avatars : ReadImage(q, a, size)
             \/ \E u \in Users : ReadUserImage(q, u, size)
        \/ OpenImage(q) \/ StreamImage(q)
  BY DEF ReadsNext
<1>4. ASSUME NEW a \in Avatars, NEW size \in 0..NumSizes, ReadImage(q, a, size) PROVE Holds
  BY <1>1, <1>2, <1>4 DEF ReadImage, Read, GetPc
<1>5. ASSUME NEW u \in Users, NEW size \in 0..NumSizes, ReadUserImage(q, u, size) PROVE Holds
  BY <1>1, <1>2, <1>5 DEF ReadUserImage, Read, Newest, GetPc
<1>6. ASSUME OpenImage(q) \/ StreamImage(q) PROVE Holds
  BY <1>2, <1>6 DEF OpenImage, StreamImage, Read, GetPc
<1> QED BY <1>3, <1>4, <1>5, <1>6

\* For every instance that retries at all: a link of the metadata leads to the
\* size that it names, whatever happens between the two requests, unless the
\* avatar is deleted or a second fault takes its completion back.
THEOREM LinksGoOnWorking ==
  ASSUME MaxRetry > 0
  PROVE  MetadataSpec => LinksWork
<1> DEFINE Works ==
      \A r \in Gets : get[r].pc = "none" /\ get'[r].pc = "download" =>
        LET a == get'[r].avatar
            k == get'[r].size
        IN  <<a, k>> \in shown /\ faults < 2 => ResolveStorageKey(get'[r].row, k) = k
<1>1. ASSUME MInv, MetadataNext PROVE Works
  <2> SUFFICES ASSUME NEW r \in Gets, get[r].pc = "none", get'[r].pc = "download",
                      <<get'[r].avatar, get'[r].size>> \in shown, faults < 2
               PROVE  ResolveStorageKey(get'[r].row, get'[r].size) = get'[r].size
      OBVIOUS
  <2>0. CInv /\ IInv /\ GetsTypeOK /\ LinksHold
    BY <1>1 DEF MInv, CInv
  <2>1. ReadsNext
    BY <1>1 DEF MetadataNext, ClientsNext, clientVars, readVars
  <2>2. /\ get'[r].avatar \in Avatars
        /\ get'[r].row = db[get'[r].avatar]
    BY <2>0, <2>1, HoldsWhatIsStored
  <2>3. get'[r].size \in Sizes
    BY <2>0 DEF LinksHold
  <2>4. db[get'[r].avatar].processing = "completed"
    BY <2>0, <2>2, <2>3 DEF LinksHold
  <2>5. get'[r].row.thumbs = Sizes
    BY <2>0, <2>2, <2>4 DEF IInv, ThumbsAllOrNone
  <2> QED BY <2>3, <2>5 DEF ResolveStorageKey
<1>2. MInv /\ [MetadataNext]_metadataVars => [Works]_metadataVars
  BY <1>1
<1> QED BY <1>2, MInvInit, MInvNext, PTL DEF MetadataSpec, LinksWork

=============================================================================
