SPECIFICATION FairSpec
CONSTANTS
  Wrap = 7
  InterChar = 1
  FrameGap = 3
  MaxAdu = 2
  RingCapacity = 3
  request = request
  Content <- MCContent
  Length <- MCLength
  MaxBusy = 4
  MaxFrames = 3
  MaxNoise = 1
INVARIANTS
  TypeOK
  CleanFramesAreKept
PROPERTIES
  ChannelSpec
  CleanFramesArrive
