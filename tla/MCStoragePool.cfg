CONSTANTS
  Task = {t1, t2}
  Free = Free
  Reserved = Reserved
  small = small
  large = large
  NumberOfPools = 2
  ElementSize <- MCElementSize
  NElements <- MCNElements
  SpillsToHigherPools = TRUE
  Packet <- MCPacket
  SizeOf <- MCSizeOf
  PositionModulus = 4
  LockTimesOut = FALSE
SPECIFICATION Spec
INVARIANTS TypeOK NoDoubleAllocation TokensIntact NoLeak
PROPERTY ImplementsTokenStore
