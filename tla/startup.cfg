SPECIFICATION FairSpec
CONSTANTS
  Optional = {"timeout", "build-script"}
  Long = {"quit-signal"}
  Numerals = {"-1", "3"}
  MaxListed = 2
  MaxFlags = 3
  FullFlags = 2
  TypeFirst = TRUE
  NumWorkers = 1
  spso_max_dims = 3
INVARIANTS
  TypeOK
  ReaderFollowsFile
  ConfigAsWritten
  NoneStartsWithout
  FitFilesStart
  OptionsAsWritten
  PlacedInside
PROPERTY
  StartOrAbort
