\* A server that is configured with no limit on uploads.
CONSTANTS
  MaxUpload = 0
  Headroom = 2
  Requests = {r1}
  Probes = {p1}
  Uploads <- MCUploads
  FaultKinds = {"error", "metrics", "dependency"}
  MaxFaults = 1
SPECIFICATION Server
\* The process ends.
CHECK_DEADLOCK FALSE
INVARIANTS
  SizeLimitIsTheServices
