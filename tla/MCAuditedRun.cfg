SPECIFICATION RunSpec
CONSTANTS
  MaxRetries = 2
  MaxWait = 10
  RetryAfters <- MCRetryAfters
  Jitters = {0, 2}
  Bodies <- MCBodies
  Handlers = {"read_file", "edit_file", "run_command", "list_dir"}
  AskAll = FALSE
  AutoApproveTests = TRUE
  MaxRounds = 2
  MaxToolCalls = 2
INVARIANTS
  RetryCostBounded
  HandlersGetWhatTheyExpect
  VerdictIsTheRuns
  ObservedTestsRan
PROPERTY
  CompleteReturns
CHECK_DEADLOCK FALSE
