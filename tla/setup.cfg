SPECIFICATION Spec
CONSTANTS
  Names = {"m1", "m2", "m3"}
  Contents <- SomeContents
  Cyclic = FALSE
  Channels = {1}
  Offsets <- OneChannel
  Noise = {0}
  BusySets = {{}, {1}}
  Start = 49535
  MaxIterations = 10
  MaxTries = 1
  MaxFaults = 1
  Readers = {"r1", "r2"}
  MaxMake = 2
  MaxFails = 1
  MaxLag = 1
  MaxTime = 66
  Commanded = {"m1"}
  MaxRuns = 2
INVARIANTS
  TypeOK
  NearestWins
  WritesFindCollection
PROPERTIES
  PullReturns
CHECK_DEADLOCK FALSE
