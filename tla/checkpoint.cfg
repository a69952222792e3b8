SPECIFICATION Spec
CONSTANTS
  Fitness = {91, 94, 97}
  MAX = 1000
  Epsilon = 5
  Threshold = 2
  Position = {"low", "high"}
  Origin = "low"
  MaxRuns = 3
  MaxDepth = 2
  MaxTodo = 5
INVARIANTS
  TypeOK
  BestSurvives
  BestInv
  FailureDoesNotConverge
PROPERTIES
  NeverWorse
  RestartLosesNothing
  ImplementsRecord
