---------------------------- MODULE AvatarRepo ----------------------------
(***************************************************************************)
(* One row of the avatars table and the statements that the server and the *)
(* worker run against it (internal/repository/postgres).  A row keeps the  *)
(* columns that control depends on: upload_status, processing_status,      *)
(* whether deleted_at is set, and thumbnail_s3_keys, abstracted to the set *)
(* of thumbnail sizes that have an entry.  The absent row stands for an    *)
(* identifier that no INSERT has used.                                     *)
(*                                                                         *)
(* Each statement is one autocommitted SQL command on a single row, so it  *)
(* is a function of that row.  An UPDATE that matches no row changes       *)
(* nothing and, for the :exec queries, reports success.                    *)
(***************************************************************************)

UploadStatus == {"uploading", "uploaded", "failed"}

\* "processing" exists in the schema but no code path writes it.
ProcessingStatus == {"pending", "processing", "completed", "failed"}

\* The rows that can exist, for a given set of thumbnail sizes.
RowsOver(sizes) ==
  [upload     : UploadStatus \cup {"absent"},
   processing : ProcessingStatus,
   thumbs     : SUBSET sizes,
   deleted    : BOOLEAN]

NoRow == [upload |-> "absent", processing |-> "pending", thumbs |-> {}, deleted |-> FALSE]

\* What every query but the INSERT requires: WHERE ... deleted_at IS NULL.
Live(row) == row.upload # "absent" /\ ~row.deleted

\* INSERT INTO avatars, with the column defaults of the migration.
CreateAvatar(row) == [NoRow EXCEPT !.upload = "uploading"]

SetAvatarUploaded(row) ==
  IF Live(row) THEN [row EXCEPT !.upload = "uploaded"] ELSE row

SetAvatarUploadFailed(row) ==
  IF Live(row) THEN [row EXCEPT !.upload = "failed"] ELSE row

\* Mutation: the statement matches soft-deleted rows too.
UpdateProcessingStatusAnyRow(row, status, thumbs) ==
  [row EXCEPT !.processing = status, !.thumbs = thumbs]

\* Mutation: the statement does not write the thumbnail keys.
UpdateProcessingStatusOnly(row, status, thumbs) ==
  IF Live(row) THEN [row EXCEPT !.processing = status] ELSE row

UpdateProcessingStatus(row, status, thumbs) ==
  IF Live(row) THEN [row EXCEPT !.processing = status, !.thumbs = thumbs] ELSE row

SoftDeleteAvatar(row) == IF Live(row) THEN [row EXCEPT !.deleted = TRUE] ELSE row

\* Mutation: the result is success whether or not a row was updated.
SoftDeletedAlways(row) == TRUE

\* RowsAffected # 0: what AvatarRepo.SoftDelete turns into ErrNotFound otherwise.
SoftDeleted(row) == Live(row)

=============================================================================
