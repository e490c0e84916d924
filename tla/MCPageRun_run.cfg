CONSTANTS
  Delays = {0, 1}
  MaxIds = 3
  MaxTimers = 2
  MaxFires = 3
  MaxVirtual = 1
  SweepMin = 1
  MaxScripts = 1
  MaxMicro = 1
  MaxRequests = 1
  MaxBytes = 1
  MaxImports = 1
  MaxWork = 3
SPECIFICATION FairSpec
INVARIANTS
  TypeOK
  TimersAgree
  ReportIsTrue
PROPERTIES
  FailClosed
  RunEnds
