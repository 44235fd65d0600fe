CONSTANTS
  Requests = {r1, r2, r3}
  Nobody = nobody
SPECIFICATION FairSpec
INVARIANTS
  CleanExit
PROPERTIES
  SignalEnds
  MailStopsNobody
CHECK_DEADLOCK FALSE
