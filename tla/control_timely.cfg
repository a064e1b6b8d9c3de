\* Readers that answer in time, on two networks.
CONSTANTS
  N = 2
  Net <- TwoNetworks
  TornStatus = FALSE
  ErrorsPersist = FALSE
  Timely = TRUE
  MaxRuns = 2
  Events = {"connect", "stop", "lost", "error"}
  MaxEvents = 2
  MaxInFlight = 1
SPECIFICATION FairSpec
INVARIANTS
  ArmIsTaken
  StartFindsAllArmed
PROPERTIES
  CommandReturns
  LostLinkEndsRun
CHECK_DEADLOCK FALSE
