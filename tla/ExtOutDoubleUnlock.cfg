SPECIFICATION Spec
CONSTANTS
  Callers <- MCCallers
  MayCall <- TwoRouters
  UseCases <- OneUseCase
  LowPower <- NoUseCase
  Fm <- NoUseCase
  Threads <- MCThreads
  Faults <- NoFault
INVARIANTS WriteSafe
