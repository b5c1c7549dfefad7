SPECIFICATION FairSpec
CONSTANTS
  N = 3
  Capacities = {1, 3, 5}
  MaxOld = 2
INVARIANTS
  LoopBack
  FifoHoldsTransfer
PROPERTIES
  Finishes
CHECK_DEADLOCK FALSE
