\* Seven mutants in three files, two goroutines at a time.
SPECIFICATION Spec
CONSTANTS
  Mutants = {1, 2, 3, 4, 5, 6, 7}
  Files = {"a", "b", "c"}
  FileOf <- MCFileOf
  Conflicts <- MCConflicts
  Vanishing = {"c"}
  Slots = 2
INVARIANTS
  TypeOK
  RejectedAreGuilty
  KeptAreClean
PROPERTY Terminates
