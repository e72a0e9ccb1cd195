CONSTANTS
  Nobody = Nobody
  NoOrigin = NoOrigin
  Origin <- MCOrigin
  Segment = {}
  File <- MCFile
  Loopback = {}
  Static = {"one.js", "two.js"}
  Wildcard = {}
  MapOf <- MCMapOf
  Manifests = {}
  Plugin <- MCPlugin
  Finding <- MCFinding
  Key = {}
  Sites <- MCSites
  Start <- MCStart
  Storages = {"none"}
  MaxPivots = 3
SPECIFICATION SpecTwice
CHECK_DEADLOCK FALSE
INVARIANT
  SameScripts
