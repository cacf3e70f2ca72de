\* A delete that overtakes the worker; no fault at all.
CONSTANTS
  a1 = a1
  a2 = a2
  u1 = u1
  u2 = u2
  Avatars = {a1}
  Users = {u1, u2}
  Undecodable = {}
  Deletes = {d1}
  Workers = {w1}
  NoMsg = NoMsg
  NumSizes = 2
  MaxRetry = 2
  FaultKinds = {}
  MaxFaults = 0
  Owner <- MCOwner
SPECIFICATION Spec
\* The system stops once every request is answered and every queue is empty.
CHECK_DEADLOCK FALSE
INVARIANTS
  DeleteEventNamesAllKeys
