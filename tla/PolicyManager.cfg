SPECIFICATION Spec
CONSTANTS
  Streams <- MCStreams
  Profiles <- MCProfiles
  Clients <- MCClients
  StreamOf <- MCStreamOf
  Wants <- MCWants
  Compatible <- MCCompatible
  Plugs <- MCPlugs
  Forces <- MCForces
  Phones <- MCPhones
  Records <- MCRecords
  SourceOf <- MCSourceOf
  MaxMutes = 2
  MaxBusy = 2
CHECK_DEADLOCK FALSE
INVARIANTS
  TypeOK
  RefsMatch
  DirectCounted
  CacheFresh
  SuspendedForSco
  InCallRoute
  PlaysOnPresent
  SilentWhileMuted
  AudibleUnlessMuted
