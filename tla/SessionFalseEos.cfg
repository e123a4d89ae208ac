SPECIFICATION Spec
CONSTANTS
  BUFFER_COUNT = 2
  TunnelMode = TRUE
  MaxTicks = 2
  Calls <- Playback
  Writes <- AllWrites
  Faults <- NoFault
PROPERTIES NoFalseEOS
CHECK_DEADLOCK FALSE
