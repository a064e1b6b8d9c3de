SPECIFICATION Spec
CONSTANTS
  InitialQueues <- TwoRuns
  MaxPushes = 1
  MaxCommands = 1
  MaxFatal = 1
INVARIANTS
  TypeOK
  AtMostOneActive
  
  SingleRunsKept
