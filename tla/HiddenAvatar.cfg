\* A user uploads a second avatar; no deletes and no faults.
CONSTANTS
  a1 = a1
  a2 = a2
  u1 = u1
  u2 = u2
  NoMsg = NoMsg
  NoAvatar = NoAvatar
  NumSizes = 2
  MaxRetry = 2
  Avatars = {a1, a2}
  Users = {u1}
  Undecodable = {}
  Deletes = {}
  Workers = {w1}
  Gets = {r1}
  FaultKinds = {}
  MaxFaults = 0
  Owner <- MCOneOwner
SPECIFICATION ClientsSpec
\* The system stops once every request is answered and every queue is empty.
CHECK_DEADLOCK FALSE
PROPERTIES
  CompletedAvatarIsShown
