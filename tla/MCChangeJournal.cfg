SPECIFICATION JournalSpec
CONSTANTS
  Paths = {"p"}
  Contents = {"short", "long"}
  Absent = "absent"
  SizeOf <- MCSizeOf
  MaxEntries = 3
  MaxSnapshotBytes = 3
  MaxTears = 2
INVARIANTS
  CounterExact
  OverrunBounded
PROPERTIES
  CallsReturn
  ImplementsBoundedStack
