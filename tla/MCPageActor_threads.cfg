SPECIFICATION FairSpec
CONSTANTS
  Scopes = {s1}
  MaxGen = 2
  Capacity = 1
  MaxTracked = 1
  MaxRequests = 2
  MaxNavigations = 3
  MaxSequences = 1
  Workers = {w1, w2}
  NoJob = NoJob
  NoWorker = NoWorker
CHECK_DEADLOCK FALSE
INVARIANTS
  Served
  CutOffRunWakes
PROPERTIES
  ResultsStand
  EverythingEnds
