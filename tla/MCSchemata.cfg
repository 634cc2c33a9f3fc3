CONSTANTS
  N <- MCN
  Parent <- MCParent
  Kind <- MCKind
  FirstToken <- MCFirstToken
  Fixed <- MCFixed
  Typed <- MCTyped
  NilFits <- MCNilFits
  Mutants = {m1, m2, m3}
SYMMETRY Symmetry
SPECIFICATION Spec
INVARIANTS
  TypeOK
  EachInlinedOnce
  NoNestedInlining
  OperatorsAreFound
