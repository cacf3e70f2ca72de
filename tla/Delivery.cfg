\* Two avatars and a worker: a prefetched event behind the one in hand.
CONSTANTS
  a1 = a1
  a2 = a2
  NoMsg = NoMsg
  Avatars = {a1, a2}
  Deleted = {a1}
  Poison = {a2}
  Workers = {w1}
  MaxRetry = 1
  Prefetch = 2
  FaultKinds = {"error", "sigterm", "disconnect", "crash"}
  MaxFaults = 2
SPECIFICATION Delivery
INVARIANTS
  DeliveryTypeOK
  CleanDrain
  DeadLetteredForCause
PROPERTIES
  ShutdownEnds
  DeliversAsPromised
CHECK_DEADLOCK FALSE
