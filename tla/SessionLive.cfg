SPECIFICATION FairSpec
CONSTANTS
  BUFFER_COUNT = 2
  TunnelMode = FALSE
  MaxTicks = 3
  Calls <- SeekAndEnd
  Writes <- AllWrites
  Faults <- CallFaults
INVARIANTS SkipOnlyAfterFlush NothingQueuedAfterEOS
PROPERTIES ExitUnlessCrossed DecoderFed
CHECK_DEADLOCK FALSE
