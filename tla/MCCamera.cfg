CONSTANTS
  BufSize = 13
  XferSize = 3
  Rgb565FrameLen = 4
  EoiLen = 1
  IdMod = 2
SPECIFICATION Spec
INVARIANTS
  DriverFollowsDma
  DmaInBuffer
  FrameInBuffer
  LatestFrameIntact
  NoJpegInPreview
PROPERTY
  PublishedWasStored
PROPERTY ImplementsFrameRing
