CONSTANTS
  Service = {v1, v2}
  Free = Free
  Reserved = Reserved
  NSlots = 3
  FunnelDepth = 1
  BridgeDepth = 2
  FifoDepth = 2
  SentPacketsPerCycle = 1
  SequenceLimit = 2
  OverwriteOld = TRUE
SPECIFICATION FairSpec
INVARIANTS TypeOK OneHolder
PROPERTIES ImplementsTokenStore DrainsWhenSilent
