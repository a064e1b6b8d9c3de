\* No assumption on how fast anything is: the readers answer and arm whenever they do, and
\* the polling thread stops the run in between.
CONSTANTS
  N = 2
  Net <- TwoNetworks
  TornStatus = FALSE
  ErrorsPersist = TRUE
  Timely = FALSE
  MaxRuns = 2
  Events = {"connect", "stop", "lost", "error", "polled"}
  MaxEvents = 2
  MaxInFlight = 1
SPECIFICATION Spec
INVARIANTS
  TypeOK
  SameRun
  StopOnItsWay
  AckIsTheAnswer
CHECK_DEADLOCK FALSE
