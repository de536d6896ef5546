SPECIFICATION QueueSpec
CONSTANTS
  Processes = {p}
  Planned = 2
  Fixtures = {1, 2}
  Sound = {1}
  Prompts = {1, 2, 3}
  Readable = {1, 2}
  Codes = {1}
  MaxEdits = 2
  Posix = TRUE
INVARIANT NotUsedUpInVain
CHECK_DEADLOCK FALSE
