SPECIFICATION Spec
CONSTANTS
  Emits = {0, 1, 2}
  FifoSize = 3
  MaxWords = 4
  MaxRestarts = 1
INVARIANTS
  TypeOK
  WordsInOrder
  PendingOnlyInSync
  WritesNearBase
PROPERTIES
  NoTransferAborted
CHECK_DEADLOCK FALSE
