SPECIFICATION Spec
CONSTANTS
  iphone = iphone
  mac = mac
  Incidents = {i1, i2}
  Devices = {iphone, mac}
  Platform <- MC_Platform
  Calls = {c1, c2}
  MaxBegun = 3
  MaxToken = 1
  MaxChanges = 2
SYMMETRY Symmetry
INVARIANTS
  TypeOK
  RingsAreStopped
  ActivitiesSettle
  EndsNameAnEnd
PROPERTIES
  LiveTokensKept
CHECK_DEADLOCK FALSE
