CONSTANTS
  index = index
  app = app
  chunk = chunk
  lib = lib
  NoFile = NoFile
  Script = {app, chunk, lib}
  Entry = index
  Links <- MCLinks
  SlotOf <- MCSlotOf
  Maps = {app, lib}
  Foreign = {lib}
  PathOf <- MCPathOf
  Modes = {"full", "writeonly", "readonly"}
  MaxScans = 4
  MaxMishaps = 2
SPECIFICATION Spec
CHECK_DEADLOCK FALSE
INVARIANTS
  TypeOK
  WarmAsCold
  SourcesKept
PROPERTIES
  MetaBacked
