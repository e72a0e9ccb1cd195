CONSTANTS
  None = None
  Builtin <- MCBuiltin
  HasFilesystem = TRUE
  Argvs <- MCArgvs
  Formats = {"json", "md", "text"}
  Seconds = {"5"}
  Counts = {"5"}
  YesWords = {"yes"}
  NoWords = {"no"}
  HeaderLines = {"K: v"}
  UrlWords = {"https://a"}
  Listed <- MCListed
  Orders <- MCOrders
  Custom <- MCCustom
  MaxChanges = 2
  MaxJobs = 4
  MaxConcurrent = 2
  start = start
  app = app
  NoFile = NoFile
  Script = {app}
  Entry = start
  Links <- MCLinks
  SlotOf <- MCSlotOf
  Maps = {app}
  Foreign = {}
  PathOf <- MCPathOf
  Modes = {"full", "writeonly"}
  MaxScans = 3
  MaxMishaps = 1
SPECIFICATION Spec
CHECK_DEADLOCK FALSE
INVARIANTS
  CacheFlagsHonoured
  RegistryAgrees
  SlotsAccounted
  CancelReachesScan
  ScopeSound
PROPERTIES
  OutcomeFinal
  EveryJobEnds
  ImplementsPool
