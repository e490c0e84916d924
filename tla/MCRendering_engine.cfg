SPECIFICATION FairSpec
CONSTANTS
  Window = 1
  Threshold = 2
  Cooldown = 1
  Urls = {a}
  Pages = {a, blank}
  NoUrl = None
  NoPage = None
  Shared = shared
  Navs = {shared}
  MaxGen = 2
PROPERTIES
  EngineIsReplaced
