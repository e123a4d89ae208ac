SPECIFICATION Spec
CONSTANTS
  Outs <- MCOuts
  Sessions <- MCSessions
  Captures <- MCCaptures
  Calls <- MCCalls
  Outputs <- MCOutputs
  Inputs <- MCInputs
  CallStates <- MCCallStates
  Faults <- MCFaults
  Modes <- MCModes
  MaxListed = 3
CHECK_DEADLOCK FALSE
INVARIANTS
  TypeOK
  CallsListed
  EnabledIsOpen
  PlaysThroughCurrent
  RecordsThroughCurrent
  EndedCallIsDown
  VoipShared
  CallOnCurrentPair
