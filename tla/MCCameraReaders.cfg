SPECIFICATION SpecReaders
CONSTANTS
  BufSize = 13
  XferSize = 1
  MaxFrame = 3
  EoiLen = 1
  MaxAge = 2
INVARIANTS
  ReadsInBuffer
  HeldFrameSurvives
  DisplayNotStuck
