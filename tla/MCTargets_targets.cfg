SPECIFICATION Spec
CONSTANTS
  puppeteer = puppeteer
  playwright = playwright
  Conns = {puppeteer, playwright}
  MaxIds = 2
  MaxTargets = 2
  MaxSessions = 3
  MaxContexts = 1
  Requests <- MCRequests
  Filters = {"off", "pages", "tabs"}
  Default = Default
  None = None
INVARIANTS
  TypeOK
  NothingLeaks
  NoticesAgree
  NobodyWaitsForever
