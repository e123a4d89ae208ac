SPECIFICATION Spec
CONSTANTS
  BUFFER_COUNT = 2
  TunnelMode = TRUE
  MaxTicks = 2
  Calls <- Everything
  Writes <- AllWrites
  Faults <- WriteFaults
INVARIANTS TypeOK QueuesDisjoint WriteHasBuffer LoopLeftFirst
PROPERTIES OwnershipSpec
CHECK_DEADLOCK FALSE
