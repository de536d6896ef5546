SPECIFICATION CommandSpec
CONSTANTS
  Children = {"c"}
  Platforms = {"posix"}
INVARIANT
  TimeoutLeavesNoOrphans
CHECK_DEADLOCK FALSE
