SPECIFICATION MCSpec
CONSTANTS
  Names <- MCNames
  Data <- MCData
  Absent <- MCAbsent
  NoName <- MCNoName
  Torn <- MCTorn
  FsLock = 2
  MaxFaults = 1
  MovieFrames = 2
  MaxInputs = 3
  MaxEvents = 3
INVARIANTS
  RequestsAreSafe
  SnapshotIsWhole
PROPERTIES
  SavedFilesStay
  SnapshotServed
  MovieEnds
  FormatServed
