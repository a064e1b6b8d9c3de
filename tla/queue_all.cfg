SPECIFICATION Spec
CONSTANTS
  InitialQueues <- TwoRuns
  MaxPushes = 0
  MaxCommands = 0
  MaxFatal = 0
INVARIANTS
  QueuedRunsKept
