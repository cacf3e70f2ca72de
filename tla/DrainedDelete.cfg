\* A delete event in hand when the worker is told to shut down.
CONSTANTS
  a1 = a1
  u1 = u1
  NoMsg = NoMsg
  Avatars = {a1}
  Users = {u1}
  Undecodable = {}
  Deletes = {d1}
  Workers = {w1}
  NumSizes = 2
  MaxRetry = 2
  FaultKinds = {"sigterm"}
  MaxFaults = 1
  Owner <- MCOwner
SPECIFICATION ErasureSpec
\* The system stops once every request is answered and every queue is empty.
CHECK_DEADLOCK FALSE
INVARIANTS
  NamedBlobsErased
