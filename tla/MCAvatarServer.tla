--------------------------- MODULE MCAvatarServer ---------------------------
(* Values for TLC. *)
EXTENDS AvatarServer

\* Files below, at and above the limit, with little or as much overhead as
\* there is headroom for.
MCUploads ==
  [user : {TRUE}, file : {TRUE}, size : {2, 3, 5}, overhead : {1}]
    \cup {[user |-> FALSE, file |-> TRUE, size |-> 1, overhead |-> 1]}

=============================================================================
