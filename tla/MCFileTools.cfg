SPECIFICATION FileSpec
CONSTANTS
  Paths = {p}
  Contents = {"a", "b", "x"}
  Text = {"a", "b"}
  Showable = {"a", "b"}
  Opened = "a"
  Absent = "absent"
  NotFile = "notfile"
  NoHash = "nohash"
  SizeOf <- MCSizeOf
  MaxEntries = 2
  MaxSnapshotBytes = 2
  MaxTears = 2
INVARIANTS
  HistoryLinksUp
  OwnChangesNeverStale
  UndoIsHonest
PROPERTIES
  NoForeignLoss
  DiscardsWhatItUndid
