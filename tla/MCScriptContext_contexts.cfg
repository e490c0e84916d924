SPECIFICATION FairSpec
CONSTANTS
  Scopes = {s1, s2}
  MaxGen = 2
  Worlds = {u1, u2}
  Evals = {e1, e2}
  Capacity = 1
  MaxTracked = 1
  MaxLive = 1
  MaxPerScope = 1
  MaxRecords = 2
  Workers = {w1, w2}
  NoEval = NoEval
  NoKey = NoKey
CHECK_DEADLOCK FALSE
INVARIANTS
  TypeOK
  WorkersBounded
PROPERTIES
  RunsAreCurrent
  WorkIsDone
