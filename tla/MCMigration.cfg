CONSTANTS
  Processes = {server, seed}
  Server = server
  Admins = {a1, a2}
  OldFiles <- MCOldFiles
  MaxFaults = 2
SPECIFICATION MigrationFairSpec
INVARIANTS
  ReadyIsComplete
  FailsOnlyByFault
PROPERTIES
  RolesSurvive
  ServerComesUp
