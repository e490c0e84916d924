CONSTANTS
  Shared = Shared
  NoPage = NoPage
  Targets = {t1, t2}
  Pages = {c1, c2, c3}
  Navs = {t1, t2, Shared, c1, c2, c3}
  MaxGen = 8
  MaxClosed = 1
SPECIFICATION Spec
SYMMETRY Symmetry
INVARIANTS
  TypeOK
  UrlFollowsNavigation
  SharedSettles
  FailedPageIsWithdrawn
PROPERTIES
  SharedMovesForward
  EventsMatchState
