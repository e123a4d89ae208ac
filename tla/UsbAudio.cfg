SPECIFICATION FairSpec
CONSTANTS
  Music <- MCMusic
  Recs <- MCRecs
  Listable <- MCListable
  Outputs <- MCOutputs
  Inputs <- MCInputs
  MaxUsers = 2
  Faults <- MCFaults
INVARIANTS
  TypeOK
  Released
  LoopHasDevices
  BitsHaveThread
  BitsInUse
  CallsBothWays
CHECK_DEADLOCK FALSE
PROPERTIES
  ExitReturns
  MusicHeals
