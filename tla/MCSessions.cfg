CONSTANTS
  Employers = {e1}
  Admins = {a1}
  NoOne = NoOne
  Browsers = {b1}
  NoBrowser = NoBrowser
  Requests = {r1, r2}
  TokenLife = 2
  CsrfLife = 1
  MaxDelay = 0
  MaxDrawn = 2
  Horizon = 2
SPECIFICATION Spec
INVARIANTS
  WritesAsLoggedIn
  RightfulActor
  StaleAccessBounded
  LapsedPageOnlyReads
SYMMETRY Symmetry
CONSTRAINT OneAtTheEnd
