CONSTANTS
  N <- MCN
  Parent <- MCParent
  Kind <- MCKind
  FirstToken <- MCFirstToken
  Fixed <- MCFixed
  Typed <- MCTyped
  NilFits <- MCNilFits
  Mutants = {m1, m2}
SYMMETRY Symmetry
SPECIFICATION Spec
INVARIANT StatementsAreInlined
