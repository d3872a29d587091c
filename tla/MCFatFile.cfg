SPECIFICATION MCSpec
CONSTANTS
  Names = {"a", "b", "c"}
  Data = {"d"}
  Absent <- MCAbsent
  NoName = "none"
  Torn = "torn"
  FsLock = 2
  MaxFaults = 1
  MaxMounts = 3
  MaxLen = 1
INVARIANTS
  ValidFileIsOpen
  LockedOnce
