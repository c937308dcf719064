SPECIFICATION FairSpec
CONSTANTS
  a1 = a1
  a2 = a2
  Accounts = {a1, a2}
  Events <- MC_Events
  TopTier = 1
  Retries = 1
  Modes = {"on", "off"}
  Deployments = {TRUE, FALSE}
  MaxProcs = 2
  Lists <- MC_Lists
  Joins <- MC_Joins
  MaxFailed <- MC_Failed
  MaxEvents <- MC_Max
  MaxReads <- MC_Reads
INVARIANTS
  TypeOK
  TierIsBacked
PROPERTIES
  
  ConfirmedIsFresh
  EventsInOrder
  TriggerIsRead
CHECK_DEADLOCK FALSE
