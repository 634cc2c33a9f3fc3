\* Two mutants, two runs that share the cache, at most two external binaries.
SPECIFICATION Spec
CONSTANTS
  m1 = m1
  m2 = m2
  Mutants <- MCMutants
  MaxBinaries = 2
  MaxRuns = 2
SYMMETRY MutantSymmetry
INVARIANTS
  TypeOK
  EveryMutantReturned
  VerdictsAreEarned
PROPERTIES
  StatusNeverWeakens
  SavedAsReturned
