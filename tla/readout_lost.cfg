CONSTANTS
  NDigi = 1
  Procs = {p1}
  None = None
  Reader = Reader
  Modes = {"register"}
  Faults = {}
  ReadBusyLast = FALSE
  ReadoutThresh = 1
  MaxTries = 1
  MaxEvents = 2
SPECIFICATION Spec
INVARIANT StopFlushesBuffers
