---------------------------- MODULE AvatarReads ----------------------------
(***************************************************************************)
(* GET requests for an image, of one avatar or of a user's newest one      *)
(* (AvatarService.GetImage and GetUserImage with their HTTP handlers): the *)
(* row is read first, the blob that it names afterwards, and deletes,      *)
(* uploads and workers go on in between.                                   *)
(*   none -> download -> stream -> served                                  *)
(* "notFound" and "missing" are the 404 for want of a row and of a blob,   *)
(* "error" is a 500, and "cut" a 200 whose body failed while it was        *)
(* copied, when the status can no longer be changed.                       *)
(***************************************************************************)
EXTENDS AvatarBackends, FiniteSets

CONSTANTS
  Gets,      \* the GET requests
  NoAvatar   \* stands for "no avatar"

ASSUME NoAvatarAssumption == NoAvatar \notin Avatars

VARIABLES
  createdAt,  \* createdAt[a]: the rank of row a in the order of created_at
  get         \* get[r]: position of request r, the size it asks for, the avatar
              \* and row that it has read, and whether it is in GetUserImage

readVars == <<createdAt, get>>

GetPc == {"none", "download", "stream", "served", "notFound", "missing", "cut", "error"}

GetRecord == [pc : GetPc, avatar : Avatars \cup {NoAvatar}, size : 0..NumSizes, row : Rows,
              ofUser : BOOLEAN]

GetsTypeOK ==
  /\ get \in [Gets -> GetRecord]
  /\ \A r \in Gets :
       get[r].pc \in {"download", "stream", "served", "missing", "cut"} => get[r].avatar # NoAvatar

ReadsTypeOK == createdAt \in [Avatars -> Nat] /\ GetsTypeOK

IdleGet == [pc |-> "none", avatar |-> NoAvatar, size |-> 0, row |-> NoRow,
            ofUser |-> FALSE]

ReadsInit ==
  /\ createdAt = [a \in Avatars |-> 0]
  /\ get = [r \in Gets |-> IdleGet]

\* created_at, set by the INSERT and never again.
RanksNewRows ==
  createdAt' =
    [a \in Avatars |->
       IF db[a].upload = "absent" /\ db'[a].upload # "absent"
       THEN Cardinality({b \in Avatars : db[b].upload # "absent"}) + 1
       ELSE createdAt[a]]

\* The live row of user u with the greatest created_at, whatever its upload
\* status: no avatar or one.
Newest(u) ==
  LET live == {a \in Avatars : Owner[a] = u /\ Live(db[a])} IN
  {a \in live : \A b \in live : createdAt[b] <= createdAt[a]}

\* Mutation: a size is looked for whether or not the row lists it.
ResolveWithoutFallback(row, size) == size

\* The blob of the row that is served for a size (0 is the original, and so is
\* a size that the row does not list).
ResolveStorageKey(row, size) == IF size \in row.thumbs THEN size ELSE 0

\* GetImage or GetUserImage returns; the handlers go on alike.
Respond(r, pc) == get' = [get EXCEPT ![r].pc = pc, ![r].ofUser = FALSE]

HoldsRow(r, a, size, ofUser) ==
  get' = [get EXCEPT ![r] = [pc |-> "download", avatar |-> a, size |-> size, row |-> db[a],
                             ofUser |-> ofUser]]

\* repo.GetByID
ReadImage(r, a, size) ==
  /\ get[r].pc = "none"
  /\ Read(IF Live(db[a]) THEN HoldsRow(r, a, size, FALSE) ELSE Respond(r, "notFound"),
          Respond(r, "error"))
  /\ UNCHANGED createdAt

\* Mutation: the error for want of a row is not looked at.
ReadUserImageUnchecked(r, u, size) ==
  /\ get[r].pc = "none"
  /\ Read(\/ Newest(u) = {} /\ Respond(r, "download")
          \/ \E a \in Newest(u) : HoldsRow(r, a, size, TRUE),
          Respond(r, "error"))
  /\ UNCHANGED createdAt

\* repo.GetLatestByUserID
ReadUserImage(r, u, size) ==
  /\ get[r].pc = "none"
  /\ Read(\/ Newest(u) = {} /\ Respond(r, "notFound")
          \/ \E a \in Newest(u) : HoldsRow(r, a, size, TRUE),
          Respond(r, "error"))
  /\ UNCHANGED createdAt

Key(r) == <<get[r].avatar, ResolveStorageKey(get[r].row, get[r].size)>>

\* storage.Download: a missing key is ErrNotFound.
OpenImage(r) ==
  /\ get[r].pc = "download"
  /\ Read(Respond(r, IF Key(r) \in objects THEN "stream" ELSE "missing"), Respond(r, "error"))
  /\ UNCHANGED createdAt

\* io.Copy of the object to the response; its error is only logged.
StreamImage(r) ==
  /\ get[r].pc = "stream"
  /\ Read(Respond(r, IF Key(r) \in objects THEN "served" ELSE "cut"), Respond(r, "cut"))
  /\ UNCHANGED createdAt

ReadsNext ==
  \E r \in Gets :
    \/ \E size \in 0..NumSizes :
         \/ \E a \in Avatars : ReadImage(r, a, size)
         \/ \E u \in Users : ReadUserImage(r, u, size)
    \/ OpenImage(r) \/ StreamImage(r)

=============================================================================
