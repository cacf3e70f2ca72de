\* An upload and a health probe while the server starts, serves and stops.
CONSTANTS
  MaxUpload = 2
  Headroom = 2
  Requests = {r1}
  Probes = {p1}
  Uploads <- MCUploads
  FaultKinds = {"error", "metrics", "dependency"}
  MaxFaults = 1
SPECIFICATION Server
\* The process ends.
CHECK_DEADLOCK FALSE
INVARIANTS
  ServerTypeOK
  SizeLimitIsTheServices
  HealthyWasUp
PROPERTIES
  ServerStops
  ProbesAnswered
