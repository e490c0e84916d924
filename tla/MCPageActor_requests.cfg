SPECIFICATION Spec
CONSTANTS
  Scopes = {s1, s2, s3}
  MaxGen = 2
  Capacity = 2
  MaxTracked = 1
  MaxRequests = 2
  MaxNavigations = 3
  MaxSequences = 2
  Workers = {w1}
  NoJob = NoJob
  NoWorker = NoWorker
CONSTRAINT Bounded
CHECK_DEADLOCK FALSE
SYMMETRY Symmetry
INVARIANTS
  TypeOK
  CutOff
PROPERTY ImplementsService
