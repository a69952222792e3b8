SPECIFICATION Spec
CONSTANTS
  Optional = {"timeout", "build-script"}
  Long = {"build-script"}
  Numerals = {"-1", "3"}
  MaxListed = 1
  MaxFlags = 1
  FullFlags = 1
  TypeFirst = FALSE
  NumWorkers = 1
  spso_max_dims = 2
INVARIANT RangeAsWritten
