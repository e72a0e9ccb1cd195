CONSTANTS
  Nobody = Nobody
  NoOrigin = NoOrigin
  Origin <- MCOrigin
  Segment <- MCSegment
  File <- MCFile
  Loopback = {"dev"}
  Static = {"main.js", "vendor.js", "chunk.js", "lazy.js"}
  Wildcard = {"209-*.js"}
  MapOf <- MCMapOf
  Manifests = {"emp.json"}
  Plugin <- MCPlugin
  Finding <- MCFinding
  Key <- MCKey
  Sites <- BlockedOnly
  Start <- MCStart
  Storages = {"none", "writeonly", "full"}
  MaxPivots = 2
SPECIFICATION Spec
CHECK_DEADLOCK FALSE
INVARIANT
  FallbackProbesManifests
