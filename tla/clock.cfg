\* Wrap : Near : Far stands for the code's 2^31 : 5E8 : 10E8. Two channels, three turns of
\* the clock, and up to three blocks of at most one hit in a readout.
CONSTANTS
  Wrap = 6
  Near = 1
  Far = 2
  MaxGap = 4
  MaxSpan = 2
  Channels <- TwoChannels
  MaxTurn = 2
  MaxBlocks = 3
  MaxHits = 1
  InsertSize = 1
SPECIFICATION Spec
INVARIANTS
  TypeOK
  CounterExact
  BulkUniform
PROPERTY
  Time64Exact
CHECK_DEADLOCK FALSE
