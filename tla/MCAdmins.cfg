CONSTANTS
  People = {p1, p2, p3}
  Passwords = {w1, w2}
  Requests = {r1, r2}
  MaxAdmins = 3
SPECIFICATION Spec
INVARIANTS
  OneAccountEach
  NoEscalation
PROPERTIES
  OwnPasswordOnly
SYMMETRY Symmetric
