SPECIFICATION SearchSpec
CONSTANTS
  Dirs = {"w", "d"}
  Listable = {"w", "d"}
  Files = {"f1", "f2"}
  Denied = {"x"}
  Lines <- MCLines
  Fitting = {"f1"}
  Readable = {"f1", "f2"}
  Below <- MCBelow
  Trees <- MCTrees
  MaxFiles = 3
  MaxResults = 2
PROPERTY
  SearchEnds
CHECK_DEADLOCK FALSE
