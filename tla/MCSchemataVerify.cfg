\* With and without files that cannot be read, written or formatted, and expired builds.
SPECIFICATION Spec
CONSTANTS
  Mutants = {1, 2, 3, 4, 5}
  Files = {"a1", "a2", "b1"}
  Untracked = {"b_test"}
  Pkgs = {"a", "b"}
  FileOf <- MCFileOf
  PkgOf <- MCPkgOf
  ImportsOf <- MCImportsOf
  DirNamed = {"b"}
  Conflicts <- MCConflicts
  FaultKinds = {"io", "format", "expire"}
  Mentions <- MCMentions
  StoredStatuses <- MCUnset
  MaxRounds = 3
INVARIANTS
  TypeOK
  NoMutantLost
  StatusesMatch
  PromiseKept
  BisectionFindsCulprits
  NoRemovedCodeLeft
PROPERTIES
  Terminates
