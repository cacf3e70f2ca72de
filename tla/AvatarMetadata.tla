-------------------------- MODULE AvatarMetadata --------------------------
(***************************************************************************)
(* The pipeline with clients that first ask for an avatar's metadata       *)
(* (AvatarHandler.GetMetadata) and follow the links of the answer later.   *)
(***************************************************************************)
EXTENDS AvatarClients

\* The links that clients have been given: <<a, k>> is the k-th size of a, and
\* the metadata has one for each size that the row lists.
VARIABLE shown

metadataVars == <<clientVars, shown>>

MetadataInit == ClientsInit /\ shown = {}

Shows(links) == shown' = shown \cup links

\* repo.GetByID; a request that fails, or finds no row, shows no link.
ReadMetadata(a) == Live(db[a]) /\ Shows({a} \X db[a].thumbs)

MetadataNext ==
  \/ ClientsNext /\ UNCHANGED shown
  \/ /\ \E a \in Avatars : ReadMetadata(a)
     /\ UNCHANGED clientVars

MetadataSpec == MetadataInit /\ [][MetadataNext]_metadataVars

---------------------------------------------------------------------------
\* A link that a client was given goes on to work: who follows it finds the
\* row, and is given the size that the link names, unless the avatar was
\* deleted meanwhile or two faults took its completion back
\* (CompletedOutlivesOneFault).
LinksWork ==
  [][\A r \in Gets : get[r].pc = "none" /\ get'[r].pc = "download" =>
       LET a == get'[r].avatar
           k == get'[r].size
       IN  <<a, k>> \in shown /\ faults < 2 => ResolveStorageKey(get'[r].row, k) = k]_metadataVars

=============================================================================
