SPECIFICATION CommandSpec
CONSTANTS
  Children = {"c", "d"}
  Platforms = {"posix", "nt"}
INVARIANTS
  VerdictIsHonest
  TreeIsKilled
PROPERTY
  CommandReturns
CHECK_DEADLOCK FALSE
