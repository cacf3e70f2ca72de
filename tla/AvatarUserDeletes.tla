------------------------- MODULE AvatarUserDeletes -------------------------
(***************************************************************************)
(* DELETE of "the user's avatar" (AvatarHandler.DeleteUserAvatar): the     *)
(* handler lists the user's avatars, takes the first of the list, and      *)
(* hands its identifier to AvatarService.Delete, which reads the row       *)
(* again.  Uploads, workers and other deletes go on between the two.  The  *)
(* other deletes name their avatar.                                        *)
(***************************************************************************)
EXTENDS AvatarClients

CONSTANT UserDeletes  \* the requests that delete the user's avatar

ASSUME UserDeletesAssumption == UserDeletes \subseteq Deletes

\* listing[d]: the avatar that request d has taken from its list, and how many
\* rows the table had by then.
VARIABLE listing

userVars == <<clientVars, listing>>

NotListed == [target |-> NoAvatar, rows |-> 0]

UserDeletesInit == ClientsInit /\ listing = [d \in UserDeletes |-> NotListed]

RowsSoFar == Cardinality({a \in Avatars : db[a].upload # "absent"})

\* repo.GetByUserID: the user's live rows.
ListByUserID(u) == {a \in Avatars : Owner[a] = u /\ Live(db[a])}

\* Mutation: the list is in ascending order.
FirstAscending(list) == {a \in list : \A b \in list : createdAt[b] >= createdAt[a]}

\* avatars[0] of a list in descending order of created_at: one avatar or none.
First(list) == {a \in list : \A b \in list : createdAt[b] <= createdAt[a]}

\* lister.ListByUserID; an empty list is a 404.
ListForDelete(d, u) ==
  /\ delete[d].pc = "none"
  /\ listing[d] = NotListed
  /\ Read(\/ /\ ListByUserID(u) = {}
             /\ DeleteGoes(d, "rejected", NoMsg) /\ UNCHANGED listing
          \/ \E a \in First(ListByUserID(u)) :
               /\ listing' = [listing EXCEPT ![d] = [target |-> a, rows |-> RowsSoFar]]
               /\ UNCHANGED delete,
          DeleteGoes(d, "error", NoMsg) /\ UNCHANGED listing)
  /\ UNCHANGED <<upload, db, objects, uploadQ, deleteQ, dlq, workerVars, readVars>>

\* deleter.Delete, on behalf of the user whose list it was.
DeleteListed(d) ==
  LET a == listing[d].target IN
  /\ a # NoAvatar
  /\ ReadForDelete(d, a, Owner[a])
  /\ UNCHANGED <<workerVars, readVars, listing>>

UserDeletesNext ==
  \/ \E d \in UserDeletes : DeleteListed(d) \/ \E u \in Users : ListForDelete(d, u)
  \/ /\ ClientsNext
     /\ \A d \in UserDeletes : delete[d].pc = "none" => delete'[d] = delete[d]
     /\ UNCHANGED listing

UserDeletesSpec == UserDeletesInit /\ [][UserDeletesNext]_userVars

---------------------------------------------------------------------------
\* A 204 for "the user's avatar" has deleted the newest one: whatever newer
\* avatar the user has was inserted after the list was read.
NewestListedGoes ==
  \A d \in UserDeletes : delete[d].pc = "done" =>
    LET a == delete[d].event.avatar IN
    \A b \in Avatars :
      Owner[b] = Owner[a] /\ Live(db[b]) /\ createdAt[b] > createdAt[a] =>
        createdAt[b] > listing[d].rows

\* A user with an avatar is answered with 404 only because another request
\* has deleted the one that was listed, never with 403.
RefusedOnlyIfGone ==
  \A d \in UserDeletes :
    delete[d].pc = "rejected" /\ listing[d].target # NoAvatar =>
      db[listing[d].target].deleted

=============================================================================
