SPECIFICATION FairSpec
CONSTANTS
  Callers <- MCCallers
  MayCall <- MCMayCall
  UseCases <- OneUseCase
  LowPower <- NoUseCase
  Fm <- NoUseCase
  Threads <- MCThreads
  Faults <- AnyFault
PROPERTIES StopCompletes StartHeard
