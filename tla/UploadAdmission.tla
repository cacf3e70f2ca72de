-------------------------- MODULE UploadAdmission --------------------------
(***************************************************************************)
(* What POST /api/v1/avatars refuses before it calls a backend: the checks *)
(* of the HTTP handler and those at the top of AvatarService.Upload.  Two  *)
(* limits apply to an upload, one to the whole body and one to the file in *)
(* it.  Lengths are in any unit; a form is reduced to                      *)
(*   user      the X-User-ID header is there                               *)
(*   file      the body has a part "file" with a file name                 *)
(*   size      the length of the file                                      *)
(*   overhead  the length of the rest of the body                          *)
(***************************************************************************)
EXTENDS Integers

CONSTANTS
  MaxUpload,  \* MAX_UPLOAD_BYTES; the service takes 0 for "no limit"
  Headroom    \* 1<<20

ASSUME MaxUploadAssumption == MaxUpload \in Nat
ASSUME HeadroomAssumption  == Headroom \in Nat

Forms == [user : BOOLEAN, file : BOOLEAN, size : Nat, overhead : Nat]

\* Mutation: the whole body gets the limit of the file.
BodyLimitOfFile == MaxUpload

\* http.MaxBytesReader
BodyLimit == MaxUpload + Headroom

\* Reading the form runs into the limit of the body.
BodyTooLarge(form) == form.size + form.overhead > BodyLimit

\* ErrFileTooLarge
FileTooLarge(form) == MaxUpload > 0 /\ form.size > MaxUpload

\* 413 goes before 400 for the body, 400 before 413 for the file.
Answer(form) ==
  CASE ~form.user                      -> "badRequest"
    [] form.user /\ BodyTooLarge(form) -> "tooLarge"
    [] OTHER ->
         IF ~form.file \/ form.size = 0 THEN "badRequest"
         ELSE IF FileTooLarge(form)     THEN "tooLarge"
         ELSE "create"

=============================================================================
