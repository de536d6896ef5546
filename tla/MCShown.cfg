SPECIFICATION ShownSpec
CONSTANTS
  Paths = {p}
  Contents = {"a", "b"}
  Text = {"a", "b"}
  Showable = {"a", "b"}
  Opened = "a"
  Absent = "absent"
  NotFile = "notfile"
  NoHash = "nohash"
  SizeOf <- MCSizeOf
  MaxEntries = 2
  MaxSnapshotBytes = 2
  MaxTears = 0
PROPERTY
  OverwritesOnlyShown
