SPECIFICATION FairSpec
CONSTANTS
  NumWorkers = 3
  SwarmSize = 3
  MaxEvals = 2
  Resume = FALSE
  Signalled = {0}
  Leftover = {"STOPPED", "BUSY", "WAITING"}
INVARIANTS
  TypeOK
  ResultAttribution
  NoDuplicate
  NoLoss
  HeapIsReachable
  NoSendSendDeadlock
  DoneMeansAllStopped
PROPERTIES
  PushThroughLivePointer
  StopEndsAllRanks
  EvaluationsAnswered
