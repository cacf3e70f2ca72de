\* The worker loses its AMQP connection.
CONSTANTS
  a1 = a1
  a2 = a2
  u1 = u1
  u2 = u2
  Avatars = {a1}
  Users = {u1, u2}
  Undecodable = {}
  Deletes = {}
  Workers = {w1}
  NoMsg = NoMsg
  NumSizes = 2
  MaxRetry = 2
  FaultKinds = {"disconnect"}
  MaxFaults = 1
  Owner <- MCOwner
SPECIFICATION FairSpec
\* The system stops once every request is answered and every queue is empty.
CHECK_DEADLOCK FALSE
PROPERTIES
  AcceptedEventuallyResolved
