SPECIFICATION FairSpec
CONSTANTS
  Writers = {v, w}
  kDebugMaxLines = 2
  mDisplayLines = 1
  MaxLines = 3
INVARIANTS
  NeverWaitsInVain
  PictureIsSafe
  DrawnLinesExist
PROPERTIES
  StaysInStep
  KeepsPresenting
CHECK_DEADLOCK FALSE
