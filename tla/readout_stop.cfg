\* Two boards and two processors under fair scheduling, no faults.
CONSTANTS
  NDigi = 2
  Procs = {p1, p2}
  None = None
  Reader = Reader
  Modes = {"register", "sinLocal"}
  Faults = {}
  ReadBusyLast = FALSE
  ReadoutThresh = 0
  MaxTries = 1
  MaxEvents = 1
SPECIFICATION FairSpec
INVARIANTS
  FinalSweep
PROPERTIES
  StopReturns
  ReadMeServed
