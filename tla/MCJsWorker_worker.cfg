SPECIFICATION Spec
CONSTANTS
  fetch = fetch
  document = document
  Members <- Sizes
  MaxThreads = 2
  MaxModules = 1
  MaxPending = 1
  MaxImports = 2
CHECK_DEADLOCK FALSE
INVARIANTS
  TypeOK
  WorkerAgrees
  LossIsTold
PROPERTY OperationsReturn
