\* A run that is interrupted, against the documented meaning of a kill.
SPECIFICATION SafeSpec
CONSTANTS
  NumPkgs = 2
  Mutants = {1, 2, 3}
  PkgOf <- MCPkgOf
  Concurrent = 2
  StoredStatuses <- MCStored
INVARIANT KilledByItsTests
