SPECIFICATION FairSpec
CONSTANTS
  NumWorkers = 2
  SwarmSize = 2
  MaxEvals = 2
  Resume = FALSE
  Signalled = {0}
  Leftover = {"WAITING"}
PROPERTY
  StopIsHonoured
