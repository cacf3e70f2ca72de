\* Fair runs of two avatars, one of them undecodable, with a fault.
CONSTANTS
  a1 = a1
  a2 = a2
  u1 = u1
  u2 = u2
  Avatars = {a1, a2}
  Users = {u1, u2}
  Undecodable = {a2}
  Deletes = {d1}
  Workers = {w1}
  NoMsg = NoMsg
  NumSizes = 2
  MaxRetry = 1
  FaultKinds = {"error", "ambiguous", "crash", "sigterm"}
  MaxFaults = 1
  Owner <- MCOwner
SPECIFICATION FairSpec
\* The system stops once every request is answered and every queue is empty.
CHECK_DEADLOCK FALSE
PROPERTIES
  AcceptedEventuallyResolved
  QueuesDrain
  UploadsConclude
