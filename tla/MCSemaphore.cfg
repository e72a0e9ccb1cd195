CONSTANTS
  c1 = c1
  c2 = c2
  c3 = c3
  c4 = c4
  c5 = c5
  s1 = s1
  s2 = s2
  NoSignal = NoSignal
  Call = {c1, c2, c3, c4, c5}
  Signal = {s1, s2}
  Limit = 2
  SignalOf <- MCSignalOf
SPECIFICATION Spec
INVARIANTS
  SlotsConserved
  NoIdleSlot
PROPERTIES
  NoOvertaking
  ImplementsPool
