\* One board, two processors, three events; every fault but the stuck read thread.
CONSTANTS
  NDigi = 1
  Procs = {p1, p2}
  None = None
  Reader = Reader
  Modes = {"register", "sinLocal", "sinRemote"}
  Faults = {"short", "oversize", "readError", "register", "insert", "hardware"}
  ReadBusyLast = TRUE
  ReadoutThresh = 1
  MaxTries = 2
  MaxEvents = 3
SYMMETRY ProcSymmetry
SPECIFICATION Spec
INVARIANTS
  TypeOK
  NoUseAfterFree
  LockExclusive
  VectorsAligned
  OccupancyExact
  EachEventOnce
  BoardOrder
PROPERTIES
  FlowSpec
