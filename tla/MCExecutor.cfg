\* Two packages, three mutants, two goroutines per group.
SPECIFICATION Spec
CONSTANTS
  NumPkgs = 2
  Mutants = {1, 2, 3}
  PkgOf <- MCPkgOf
  Concurrent = 2
  StoredStatuses <- MCStored
INVARIANTS
  TypeOK
  ExactlyOneResult
  NoSendAfterClose
  VerdictsComeFromRuns
PROPERTIES
  Terminates
  ImplementsMutantRun
