\* Three packages for two goroutines, four mutants, some of them cached.
SPECIFICATION Spec
CONSTANTS
  NumPkgs = 3
  Mutants = {1, 2, 3, 4}
  PkgOf <- MCPkgOf
  Concurrent = 2
  StoredStatuses <- MCStored
INVARIANTS
  TypeOK
  NothingLeftToFinalize
  OnlyWholeRunsSaved
PROPERTIES
  StatusWrittenOnce
  Terminates
