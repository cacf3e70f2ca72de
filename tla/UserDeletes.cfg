\* Two deletes of a user's avatar against two uploads and a worker; one fault.
CONSTANTS
  a1 = a1
  a2 = a2
  u1 = u1
  NoMsg = NoMsg
  NoAvatar = NoAvatar
  NumSizes = 1
  MaxRetry = 0
  Avatars = {a1, a2}
  Users = {u1}
  Undecodable = {}
  Deletes = {d1, d2}
  UserDeletes = {d1, d2}
  Workers = {w1}
  Gets = {}
  FaultKinds = {"error", "ambiguous", "lost"}
  MaxFaults = 1
  Owner <- MCOwner
SPECIFICATION UserDeletesSpec
SYMMETRY Symmetry
\* The system stops once every request is answered and every queue is empty.
CHECK_DEADLOCK FALSE
INVARIANTS
  NewestListedGoes
  RefusedOnlyIfGone
