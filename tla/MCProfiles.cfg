CONSTANTS
  Clients = {c1}
  Jobs = {j1, j2}
  Texts = {t1, t2}
  Blank = blank
  Requests = {r1, r2}
SPECIFICATION ProfilesSpec
INVARIANTS
  AnswersItsEdit
PROPERTIES
  StaysListed
SYMMETRY Symmetric
CHECK_DEADLOCK FALSE
