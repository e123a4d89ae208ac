SPECIFICATION Spec
CONSTANTS
  BUFFER_COUNT = 2
  TunnelMode = FALSE
  MaxTicks = 2
  Calls <- Stopping
  Writes <- AllWrites
  Faults <- NoFault
INVARIANTS SkipOnlyAfterFlush
CHECK_DEADLOCK FALSE
