SPECIFICATION FairSpec
CONSTANTS
  Window = 1
  Threshold = 2
  Cooldown = 1
  Urls = {a, b}
  Pages = {a, b, blank}
  NoUrl = None
  NoPage = None
  Shared = shared
  Navs = {shared}
  MaxGen = 3
INVARIANTS
  TypeOK
  GateAgrees
  RecordMatchesHost
PROPERTIES
  ImplementsContract
  RestartsPause
  Recovers
