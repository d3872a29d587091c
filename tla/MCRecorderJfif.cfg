SPECIFICATION MCSpec
CONSTANTS
  Names <- MCNames
  Data <- MCData
  Absent <- MCAbsent
  NoName <- MCNoName
  Torn <- MCTorn
  FsLock = 2
  MaxFaults = 0
  MovieFrames = 2
  MaxInputs = 2
  MaxEvents = 2
INVARIANTS
  SavedJpgIsJfif
