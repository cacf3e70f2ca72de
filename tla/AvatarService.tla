--------------------------- MODULE AvatarService ---------------------------
(***************************************************************************)
(* The server's two operations that change state, AvatarService.Upload and *)
(* AvatarService.Delete, one action per backend call: requests interleave  *)
(* with each other and with the workers between any two calls.             *)
(*                                                                         *)
(* upload[a] is the position of the request that draws identifier a:       *)
(*   none -> store -> markUploaded -> publish -> created                   *)
(*               \-> markFailed -> error                                   *)
(* "created" is the 201 response; "error" is a 500, or no response at all  *)
(* when the server stopped.  Request validation changes no state and is    *)
(* over before "none" is left.                                             *)
(***************************************************************************)
EXTENDS AvatarBackends

VARIABLES
  upload,  \* upload[a]: position of the upload request that draws a
  delete   \* delete[d]: position and collected event of delete request d

serviceVars == <<upload, delete>>

UploadPc == {"none", "store", "markFailed", "markUploaded", "publish", "created", "error"}
DeletePc == {"none", "softDelete", "publish", "done", "rejected", "error"}

ServiceTypeOK ==
  /\ upload \in [Avatars -> UploadPc]
  /\ delete \in [Deletes -> [pc : DeletePc, event : DeleteMsg \cup {NoMsg}]]
  /\ \A d \in Deletes :
       delete[d].pc \in {"softDelete", "publish", "done"} <=> delete[d].event # NoMsg

ServiceInit ==
  /\ upload = [a \in Avatars |-> "none"]
  /\ delete = [d \in Deletes |-> [pc |-> "none", event |-> NoMsg]]

---------------------------------------------------------------------------
(* Upload *)

UploadGoes(a, pc) == upload' = [upload EXCEPT ![a] = pc]

\* repo.Create
CreateRow(a) ==
  /\ upload[a] = "none"
  /\ Call(db' = [db EXCEPT ![a] = CreateAvatar(@)], UNCHANGED db,
          UploadGoes(a, "store"), UploadGoes(a, "error"))
  /\ UNCHANGED <<delete, objects, uploadQ, deleteQ, dlq>>

\* Mutation: the row is not marked uploaded before the event is published.
StoreOriginalThenPublish(a) ==
  /\ upload[a] = "store"
  /\ Call(objects' = objects \cup {<<a, 0>>}, UNCHANGED objects,
          UploadGoes(a, "publish"), UploadGoes(a, "markFailed"))
  /\ UNCHANGED <<delete, db, uploadQ, deleteQ, dlq>>

\* Mutation: a failed store goes on as if it had succeeded.
StoreOriginalErrorIgnored(a) ==
  /\ upload[a] = "store"
  /\ Call(objects' = objects \cup {<<a, 0>>}, UNCHANGED objects,
          UploadGoes(a, "markUploaded"), UploadGoes(a, "markUploaded"))
  /\ UNCHANGED <<delete, db, uploadQ, deleteQ, dlq>>

\* storage.Upload of the original
StoreOriginal(a) ==
  /\ upload[a] = "store"
  /\ Call(objects' = objects \cup {<<a, 0>>}, UNCHANGED objects,
          UploadGoes(a, "markUploaded"), UploadGoes(a, "markFailed"))
  /\ UNCHANGED <<delete, db, uploadQ, deleteQ, dlq>>

\* repo.SetUploadFailed: the request fails whatever this call answers.
MarkUploadFailed(a) ==
  /\ upload[a] = "markFailed"
  /\ Call(db' = [db EXCEPT ![a] = SetAvatarUploadFailed(@)], UNCHANGED db,
          UploadGoes(a, "error"), UploadGoes(a, "error"))
  /\ UNCHANGED <<delete, objects, uploadQ, deleteQ, dlq>>

\* repo.SetUploaded
MarkUploaded(a) ==
  /\ upload[a] = "markUploaded"
  /\ Call(db' = [db EXCEPT ![a] = SetAvatarUploaded(@)], UNCHANGED db,
          UploadGoes(a, "publish"), UploadGoes(a, "error"))
  /\ UNCHANGED <<delete, objects, uploadQ, deleteQ, dlq>>

\* publisher.PublishUploadEvent
PublishUpload(a) ==
  /\ upload[a] = "publish"
  /\ Publish(uploadQ' = Put(uploadQ, [avatar |-> a, retry |-> 0]), UNCHANGED uploadQ,
             UploadGoes(a, "created"), UploadGoes(a, "error"))
  /\ UNCHANGED <<delete, db, objects, deleteQ, dlq>>

---------------------------------------------------------------------------
(* Delete *)

DeleteGoes(d, pc, event) == delete' = [delete EXCEPT ![d] = [pc |-> pc, event |-> event]]

\* collectS3Keys: every key that the row lists when it is read.
CollectedKeys(a) == [avatar |-> a, thumbs |-> db[a].thumbs]

\* Mutation: a row whose original is not stored yet cannot be deleted.
ReadUploadedForDelete(d, a, u) ==
  /\ delete[d].pc = "none"
  /\ Read(IF Live(db[a]) /\ db[a].upload = "uploaded" /\ Owner[a] = u
            THEN DeleteGoes(d, "softDelete", CollectedKeys(a))
            ELSE DeleteGoes(d, "rejected", NoMsg),
          DeleteGoes(d, "error", NoMsg))
  /\ UNCHANGED <<upload, db, objects, uploadQ, deleteQ, dlq>>

\* repo.GetByID and the owner check, by user u, of avatar a.
ReadForDelete(d, a, u) ==
  /\ delete[d].pc = "none"
  /\ Read(IF Live(db[a]) /\ Owner[a] = u
            THEN DeleteGoes(d, "softDelete", CollectedKeys(a))
            ELSE DeleteGoes(d, "rejected", NoMsg),
          DeleteGoes(d, "error", NoMsg))
  /\ UNCHANGED <<upload, db, objects, uploadQ, deleteQ, dlq>>

\* Mutation: the event is published before the row is soft-deleted, and a
\* failing SoftDelete does not take it back.
SoftDeleteAfterPublish(d) ==
  /\ delete[d].pc = "softDelete"
  /\ DeleteGoes(d, "publish", delete[d].event)
  /\ UNCHANGED <<upload, db, objects, uploadQ, deleteQ, dlq, faults>>

\* repo.SoftDelete: zero rows affected is ErrNotFound.
SoftDelete(d) ==
  LET event == delete[d].event
      row   == db[event.avatar]
  IN
  /\ delete[d].pc = "softDelete"
  /\ Call(db' = [db EXCEPT ![event.avatar] = SoftDeleteAvatar(@)], UNCHANGED db,
          IF SoftDeleted(row) THEN DeleteGoes(d, "publish", event)
                              ELSE DeleteGoes(d, "rejected", NoMsg),
          DeleteGoes(d, "error", NoMsg))
  /\ UNCHANGED <<upload, objects, uploadQ, deleteQ, dlq>>

\* publisher.PublishDeleteEvent
PublishDelete(d) ==
  LET event == delete[d].event IN
  /\ delete[d].pc = "publish"
  /\ Publish(deleteQ' = Put(deleteQ, event), UNCHANGED deleteQ,
             DeleteGoes(d, "done", event), DeleteGoes(d, "error", NoMsg))
  /\ UNCHANGED <<upload, db, objects, uploadQ, dlq>>

---------------------------------------------------------------------------
(***************************************************************************)
(* The server process stops with the request in flight: a crash, or a      *)
(* shutdown, which does not wait for requests because App.Run returns as   *)
(* soon as ListenAndServe does.                                            *)
(***************************************************************************)
AbortUpload(a) ==
  /\ upload[a] \in {"store", "markFailed", "markUploaded", "publish"}
  /\ Fault("crash")
  /\ UploadGoes(a, "error")
  /\ UNCHANGED <<delete, db, objects, uploadQ, deleteQ, dlq>>

AbortDelete(d) ==
  /\ delete[d].pc \in {"softDelete", "publish"}
  /\ Fault("crash")
  /\ DeleteGoes(d, "error", NoMsg)
  /\ UNCHANGED <<upload, db, objects, uploadQ, deleteQ, dlq>>

\* A request that has begun runs to its response.
UploadStep(a) ==
  StoreOriginal(a) \/ MarkUploadFailed(a) \/ MarkUploaded(a) \/ PublishUpload(a)

DeleteStep(d) == SoftDelete(d) \/ PublishDelete(d)

ServiceNext ==
  \/ \E a \in Avatars : CreateRow(a) \/ UploadStep(a) \/ AbortUpload(a)
  \/ \E d \in Deletes :
       \/ \E a \in Avatars, u \in Users : ReadForDelete(d, a, u)
       \/ DeleteStep(d)
       \/ AbortDelete(d)

=============================================================================
