SPECIFICATION Spec
CONSTANTS
  NumWorkers = 3
  SwarmSize = 4
  MaxEvals = 2
  Resume = TRUE
  Signalled = {0, 1, 2, 3}
  Leftover = {"STOPPED", "BUSY", "WAITING"}
INVARIANTS
  IInv
PROPERTIES
  ImplementsPool
