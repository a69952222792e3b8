SPECIFICATION FairSpec
CONSTANTS
  Second = 2
  Timeouts = {0, 3}
  BenchmarkTimeouts = {0, 1}
  Repeats = {0, 6}
  Epsilon = 20
  MaxItems = 2
INVARIANTS
  TypeOK
  AnswerIsEarned
  AnswerIsMeasured
  KilledInTime
  TimeIsClose
  NoneLeftBehind
  OneZombiePerItem
PROPERTY
  EveryItemAnswered
