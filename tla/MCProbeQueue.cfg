SPECIFICATION QueueSpec
CONSTANTS
  Processes = {p, q}
  Planned = 2
  Fixtures = {1, 2}
  Sound = {1}
  Prompts = {1, 2, 3}
  Readable = {1, 2}
  Codes = {1}
  MaxEdits = 2
  Posix = FALSE
SYMMETRY Symmetry
INVARIANTS
  AttemptRunsOnce
  OneProtocol
  SummaryIsOfEvidence
  NotUsedUpInVain
CHECK_DEADLOCK FALSE
