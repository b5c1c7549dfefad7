SPECIFICATION FairSpec
CONSTANTS
  t1 = t1
  t2 = t2
  Threads = {t1, t2}
  Cases <- MCCases
  MaxCalls = 3
  MaxPackets = 3
INVARIANTS
  TypeOK
  SentIsOwn
  SuccessIsReal
  ChainInUse
  ReceivedOnce
  NoPacketLost
PROPERTIES
  CallReturns
CHECK_DEADLOCK FALSE
