\* One avatar, two workers, a delete; two faults of every kind but a lost publish.
CONSTANTS
  a1 = a1
  a2 = a2
  u1 = u1
  u2 = u2
  Avatars = {a1}
  Users = {u1, u2}
  Undecodable = {}
  Deletes = {d1}
  Workers = {w1, w2}
  NoMsg = NoMsg
  NumSizes = 2
  MaxRetry = 2
  FaultKinds = {"error", "ambiguous", "crash", "sigterm", "disconnect"}
  MaxFaults = 2
  Owner <- MCOwner
SPECIFICATION Spec
SYMMETRY Symmetry
\* The system stops once every request is answered and every queue is empty.
CHECK_DEADLOCK FALSE
INVARIANTS
  TypeOK
  ProcessedOnlyIfUploaded
  LiveObjectsBacked
  ThumbsAllOrNone
  AcceptedNotForgotten
PROPERTIES
  CompletedOutlivesOneFault
  ImplementsLifecycle
  ImplementsTransport
