SPECIFICATION LoopSpec
CONSTANTS
  CallIds = {"i", "j"}
  InputBudget = 7
  Asks = {"v", "w"}
  MaxRounds = 4
  MaxToolCalls = 4
  MaxFailures = 3
  MaxRepeats = 3
  Tasks = {2, 5, 8}
  Summaries = {1, 8}
  TurnSize = 2
  MaxMessages = 7
  TurnCalls <- MCTurnCalls
INVARIANTS
  HistoryReplayable
  RefusalLeavesNoTrace
  RequestCarriesTask
  RepliesAreHonest
  NeverWedged
  ToolBudget
  LoopsAreBroken
PROPERTY
  RunsEnd
