SPECIFICATION Spec
CONSTANTS
  NumParticles = 2
  Position = {"a", "b"}
  Velocity = {"v"}
  Origin = "a"
  Least = "v"
  Still = "v"
  Outcome <- Times
  MAX = 9
  Garbage = {0, 5}
  MaxRuns = 1
  MaxDepth = 2
  MaxVisits = 2
INVARIANTS
  RowsFollowParticles
