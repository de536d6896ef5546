SPECIFICATION SessionSpec
CONSTANTS
  Paths = {"p", "q"}
  None = "none"
  MaxDepth = 2
  MaxPending = 3
INVARIANTS
  EventsMatchUndos
  ReadsBelongToConversation
PROPERTY
  LossIsAnnounced
CHECK_DEADLOCK FALSE
