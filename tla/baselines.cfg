SPECIFICATION Spec
CONSTANTS
  Channels = {1, 2}
  Offsets <- TwoOffsets
  Noise <- SomeNoise
  BusySets = {{}, {1}}
  Start = 49535
  MaxIterations = 110
  MaxTries = 1
  MaxFaults = 2
INVARIANTS
  Settles
  ArmedBoardIsGood
