CHECK_DEADLOCK FALSE
CONSTANTS
  Dirs <- MCDirs
  Above <- MCAbove
  Files <- MCFiles
  DirOf <- MCDirOf
  Funcs = {}
  Ops = {}
  categoryMap <- NoCategories
  Unset = Unset
  Procs <- MCProcs
  Keys = {"k1", "k2"}
  Setups <- MCSetups
  Missing = Missing
  Empty = Empty
  Torn = Torn
SPECIFICATION Spec
INVARIANTS
  TypeOK
  CacheKeepsEntries
PROPERTIES
  BaselineMoves
  AcceptedRunsPass
