CHECK_DEADLOCK FALSE
CONSTANTS
  Dirs <- MCDirs
  Above <- MCAbove
  Files <- MCFiles
  DirOf <- MCDirOf
  Funcs <- MCFuncs
  Ops <- MCOps
  categoryMap <- MCcategoryMap
  Unset = Unset
  Nodes <- MCNodes
  FileOf <- MCFileOf
  LineOf <- MCLineOf
  ColOf <- MCColOf
  KeyOf <- MCKeyOf
  FuncOf <- MCFuncOf
  Applies <- MCApplies
  Setups <- MCSetups
SPECIFICATION Spec
INVARIANTS
  TargetsAreTraversed
  FiltersHold
  
  IgnoredLinesHaveNoMutants
PROPERTY
  SyncKeepsSuppressions
