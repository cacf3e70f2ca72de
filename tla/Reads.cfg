\* A GET of two avatars of a user against uploads, a delete, a worker and a fault.
CONSTANTS
  a1 = a1
  a2 = a2
  u1 = u1
  NoMsg = NoMsg
  NoAvatar = NoAvatar
  NumSizes = 1
  MaxRetry = 1
  Avatars = {a1, a2}
  Users = {u1}
  Undecodable = {}
  Deletes = {d1}
  Workers = {w1}
  Gets = {r1}
  FaultKinds = {"error", "ambiguous", "crash"}
  MaxFaults = 1
  Owner <- MCOwner
SPECIFICATION MetadataSpec
SYMMETRY Symmetry
\* The system stops once every request is answered and every queue is empty.
CHECK_DEADLOCK FALSE
INVARIANTS
  ClientsTypeOK
  StoredIsServed
  ReadyServesSize
PROPERTIES
  LinksWork
