SPECIFICATION Spec
CONSTANTS
  Forwards = {f1, f2}
  Bases = {b1, b2}
  FirstBase = b1
  MaxInFlight = 2
  MaxCalls = 3
  MaxRestarts = 1
  MaxForgets = 1
SYMMETRY Symmetry
INVARIANTS
  TypeOK
  PushedOnce
PROPERTY
  LiveKeyKept
CHECK_DEADLOCK FALSE
