SPECIFICATION FairSpec
CONSTANTS
  BUFFER_COUNT = 2
  TunnelMode = FALSE
  MaxTicks = 2
  Calls <- Ending
  Writes <- AllWrites
  Faults <- NoFault
PROPERTIES DecoderLetsGo
CHECK_DEADLOCK FALSE
