CONSTANTS
  Procs = {p1, p2}
  Deleters = {p1, p2}
  Dirs = {d1, d2}
  Files = {f1, f2}
  MaxPasses = 2
  NoProc = NoProc
  NoDir = NoDir
  NoFile = NoFile
SPECIFICATION Spec
SYMMETRY Symmetry
INVARIANTS
  ExclusiveRoot
