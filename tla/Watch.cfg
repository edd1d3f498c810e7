SPECIFICATION StreamSpec
CONSTANTS
  w1 = w1
  Lists = {}
  Watches = {w1}
  Frames <- MCFrames
  BaseWidth = 2
  MaxBufferBytes = 8
  PoolSize = 2
  MaxBuffers = 4
  NoBuf = NoBuf
INVARIANT OnlyTooLargeFails
CHECK_DEADLOCK FALSE
