SPECIFICATION Spec
CONSTANTS
  Readers = {r1, r2}
  Configs <- SomeConfigs
  DataBacklog = 1
  MaxAttempts = 2
  MaxCrashes = 1
  MaxSessions = 2
INVARIANTS
  TypeOK
  ConnectedAreKnown
PROPERTIES
  ConnectReturns
CHECK_DEADLOCK FALSE
