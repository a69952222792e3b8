SPECIFICATION FairSpec
CONSTANTS
  NumWorkers = 2
  SwarmSize = 1
  MaxEvals = 2
  Resume = FALSE
  Signalled = {}
  Leftover = {"STOPPED", "BUSY", "WAITING"}
INVARIANT
  DoneMeansAllStopped
