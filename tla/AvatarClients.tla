--------------------------- MODULE AvatarClients ---------------------------
(***************************************************************************)
(* The pipeline together with the clients that read from it.               *)
(***************************************************************************)
EXTENDS AvatarPipeline, AvatarReads

clientVars == <<vars, readVars>>

ClientsTypeOK == TypeOK /\ ReadsTypeOK

ClientsInit == Init /\ ReadsInit

ClientsNext ==
  \/ Next /\ RanksNewRows /\ UNCHANGED get
  \/ ReadsNext /\ UNCHANGED <<db, objects, uploadQ, deleteQ, dlq, serviceVars, workerVars>>

ClientsSpec == ClientsInit /\ [][ClientsNext]_clientVars

---------------------------------------------------------------------------
\* A GET that read an uploaded row gets its image: it answers 404 for want of
\* the blob, or cuts the body short without a failing call, only if the avatar
\* was deleted meanwhile.
StoredIsServed ==
  \A r \in Gets :
    /\ get[r].row.upload = "uploaded"
    /\ get[r].pc = "missing" \/ (get[r].pc = "cut" /\ faults = 0)
    => db[get[r].avatar].deleted

\* Once an avatar is completed, whoever asks for one of its sizes is served
\* that size, never the original in its place.
ReadyServesSize ==
  \A r \in Gets :
    get[r].pc = "served" /\ get[r].row.processing = "completed"
      => ResolveStorageKey(get[r].row, get[r].size) = get[r].size

\* What the two rest on: the blob that a request has settled on stays in the
\* bucket until its avatar is deleted, and a completed row lists every size.
HeldRowsBacked ==
  \A r \in Gets :
    /\ get[r].pc \in {"download", "stream"} /\ get[r].row.upload = "uploaded" =>
         db[get[r].avatar].deleted \/ Key(r) \in objects
    /\ get[r].row.processing = "completed" => get[r].row.thumbs = Sizes

CInv == IInv /\ GetsTypeOK /\ HeldRowsBacked /\ StoredIsServed

---------------------------------------------------------------------------
\* "Avatar not found" is what a 404 for the image of a user's avatar says: it is
\* for want of a blob no answer to a GET /users/{user_id}/avatar of a user who has
\* a completed avatar.
CompletedAvatarIsShown ==
  [][\A r \in Gets :
       get[r].ofUser /\ get[r].pc = "download" /\ get'[r].pc = "missing" =>
         \A a \in Avatars :
           Owner[a] = Owner[get[r].avatar] /\ Live(db[a]) => db[a].processing # "completed"]_clientVars

=============================================================================
