SPECIFICATION FairSpec
CONSTANTS
  Emits = {1}
  FifoSize = 4
  MaxWords = 4
  MaxRestarts = 0
PROPERTIES
  StopsWhenSignalled
CHECK_DEADLOCK FALSE
