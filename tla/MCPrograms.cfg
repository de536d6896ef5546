SPECIFICATION Spec
CONSTANTS
  CallIds = {"i", "j"}
  InputBudget = 5
  Inputs <- MCInputs
  ShortLength = 4
  Segments = 4
  Dirs = {"w", "r", "d", "u"}
  Listable = {"w", "r", "d"}
  Files = {"f1", "f2", "f3", "f4", "f5"}
  Denied = {"x"}
  Lines <- MCLines
  Fitting = {"f1", "f2", "f3", "f4"}
  Readable = {"f1", "f3", "f4", "f5"}
  Below <- MCBelow
  Trees <- MCTrees
  MaxFiles = 4
  MaxResults = 3
  Events1 <- MCEvents1
  Events2 <- MCEvents2
  Statuses = {"COMPLETED", "PROVIDER_ERROR", "USER_ABORTED"}
  OfficialRuns = 3
  AllowedPaths = {"pricing.py"}
  TestFiles = {"test_invoice.py"}
  OtherPaths = {"other"}
  RunStatuses = {"USER_ABORTED"}
  Cells <- MCCells
  TestTasks = {"T2"}
  MaxPhases = 2
INVARIANTS
  PreparesAsDefined
  TrimKeepsThePoint
  SearchIsComplete
  ReportsAreAccepted
  VerdictIsFair
  CandidateIsEarned
  StudyReportIsTrue
PROPERTY
  ProgramsEnd
CHECK_DEADLOCK FALSE
