CONSTANTS
  Modulus = 8
  SlidingWindowWidth = 4
  MAX_PACKET_SIZE = 3
  MINIMUM_SIZE = 1
  Frames <- MCFrames
  FirstVr = {6}
  LinkDepth = 2
  Losses = 1
  Strays = 1
  Waits = 1
  Refusals = 1
  Bypasses = 1
SPECIFICATION FairChannelSpec
INVARIANTS InStep DeliveredInOrder
PROPERTIES EverythingArrives
