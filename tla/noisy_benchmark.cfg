SPECIFICATION Spec
CONSTANTS
  Second = 2
  Timeouts = {2}
  BenchmarkTimeouts = {2}
  Repeats = {6}
  Epsilon = 5
  MaxItems = 1
INVARIANT
  NoisyIsFailure
