CONSTANTS
  Emails = {e1, e2}
  NoEmail = NoEmail
  Passwords = {p1}
  NoPassword = NoPassword
  Requests = {r1, r2}
  MaxClients = 2
  MaxTokens = 2
  MaxSessions = 1
SPECIFICATION Spec
SYMMETRY Symmetry
INVARIANTS
  EmailUnique
  HandleIdentity
  SpentTokenGone
  MailMatchesStore
PROPERTIES
  DeletedStaysDeleted
  KeepsPromise
CONSTRAINTS
  OneTokenWithJwt
  Calm
