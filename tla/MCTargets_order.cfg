SPECIFICATION Spec
CONSTANTS
  puppeteer = puppeteer
  playwright = playwright
  Conns = {puppeteer, playwright}
  MaxIds = 2
  MaxTargets = 2
  MaxSessions = 3
  MaxContexts = 1
  Requests <- MCRequests
  Filters = {"off", "tabs"}
  Default = Default
  None = None
INVARIANT AttachedBeforeDetached
