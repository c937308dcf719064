SPECIFICATION FairSpec
CONSTANTS
  NoTopic = NoTopic
  Topics = {t1}
  Incidents = {i1, i2}
  Requests = {r1}
  Settings <- MC_Patch
  Defaults <- MC_Defaults
  CriticalCap = 1
  History = 2
  MaxTime = 4
  MaxCrashes = 1
INVARIANTS
  TypeOK
  OneActivePerTopic
  TimersMatchState
  ExpireAtWindowEnd
  EventsAreCurrent
  ScanAgrees
PROPERTIES
  TimersSetAhead
  WindowKept
  ChangesAreStamped
  ImplementsLifecycle
  ExpiryHappens
  DeskHappens
  RepeatHappens
CHECK_DEADLOCK FALSE
