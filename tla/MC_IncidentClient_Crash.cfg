SPECIFICATION ClientSpec
CONSTANTS
  NoTopic = NoTopic
  Topics = {t1}
  Incidents = {i1, i2}
  Requests = {r1}
  Settings = {}
  Defaults <- MC_Defaults
  CriticalCap = 1
  History = 1
  MaxTime = 3
  MaxCrashes = 1
  Nothing = Nothing
INVARIANT RungWithinRepeat
CHECK_DEADLOCK FALSE
