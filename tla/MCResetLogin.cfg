CONSTANTS
  Emails = {e1, e2}
  NoEmail = NoEmail
  Passwords = {p1}
  NoPassword = NoPassword
  Requests = {r1, r2}
  MaxClients = 1
  MaxTokens = 2
  MaxSessions = 1
SPECIFICATION Spec
SYMMETRY Symmetry
PROPERTIES
  ResetEnablesLogin
