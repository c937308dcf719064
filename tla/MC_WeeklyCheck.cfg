SPECIFICATION FairSpec
CONSTANTS
  Devices = {1, 2}
  Apple = {1}
  Slot <- MC_Slot
  Offsets <- MC_Offsets
  RoundLength = 2
  Hold = 1
  MinGap = 3
  Week = 3
  Batch = 2
  Populations <- MC_Populations
  MaxTime <- MC_Time
  EnrolBy = 0
  MaxTokens = 2
  MaxChanges <- MC_Changes
INVARIANTS
  TypeOK
  MissesAreTheRun
  SentOnce
PROPERTIES
  VerdictsAreFair
  RoundsApart
  DueIsServed
CHECK_DEADLOCK FALSE
