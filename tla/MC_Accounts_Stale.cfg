SPECIFICATION Spec
CONSTANTS
  None = None
  Accounts = {a1, a2, a3}
  Devices = {d1, d2}
  Users = {u1, u2}
  Names = {n1}
  Tokens = {k1, k2}
  Incidents = {i1, i2}
  DeviceCap = 2
  MaxHops = 2
  MaxExtra = 1
SYMMETRY Symmetry
INVARIANT
  NothingPublishesOnTombstones
CHECK_DEADLOCK FALSE
