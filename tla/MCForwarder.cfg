CONSTANTS
  c1 = c1
  c2 = c2
  c3 = c3
  k1 = k1
  k2 = k2
  Call = {c1, c2, c3}
  Client = {k1, k2}
  ClientOf <- MCClientOf
  Retrying = {c1, c3}
  Limit = 1
  MaxAttempts = 3
  Watched = k1
  Packaged = TRUE
SPECIFICATION Spec
CHECK_DEADLOCK FALSE
PROPERTY
  HandsOutRunning
