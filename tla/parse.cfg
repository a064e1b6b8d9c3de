SPECIFICATION Spec
CONSTANTS
  Modes = {"blocks", "zle", "plain", "newfw"}
  Channels = {1, 6}
  Lengths = {0, 3}
  Segments <- SomeSegments
  Gaps <- SomeGaps
  WrongSizes = {0, 2, 9, 40, 1000}
  Strays = {3, 1000}
  MaxEvents = 2
  MaxSegments = 2
  MaxWords = 250
INVARIANTS
  TypeOK
  PiecesInsideTriggers
  PiecesComplete
  FileEvents
CHECK_DEADLOCK FALSE
