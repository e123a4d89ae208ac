SPECIFICATION Spec
CONSTANTS
  Callers <- MCCallers
  MayCall <- Everything
  UseCases <- TwoUseCases
  LowPower <- OnlyLow
  Fm <- OnlyFm
  Threads = {first, second}
  Faults <- AnyFault
CONSTRAINT Apart
VIEW Seen
SYMMETRY Alike
INVARIANTS TypeOK ProxyOpenWhileRead OneThread NothingLeftBehind
