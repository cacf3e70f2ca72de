\* Two deletes of an avatar; two workers crash, lose connections and see errors
\* of calls that took effect.
CONSTANTS
  a1 = a1
  u1 = u1
  NoMsg = NoMsg
  Avatars = {a1}
  Users = {u1}
  Undecodable = {}
  Deletes = {d1, d2}
  Workers = {w1, w2}
  NumSizes = 2
  MaxRetry = 2
  FaultKinds = {"ambiguous", "crash", "disconnect"}
  MaxFaults = 2
  Owner <- MCOwner
SPECIFICATION ErasureSpec
SYMMETRY Symmetry
\* The system stops once every request is answered and every queue is empty.
CHECK_DEADLOCK FALSE
INVARIANTS
  DeletedOnce
  NamedBlobsErased
PROPERTIES
  DeletedRowFrozen
