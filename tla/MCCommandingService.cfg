CONSTANTS
  o1 = o1
  o2 = o2
  o3 = o3
  Object = {o1, o2, o3}
  NTelecommands = 3
  NumberOfParallelCommands = 2
  CommandInfoFifoDepth = 1
  RequestQueueDepth = 2
  CommandQueueDepth = 2
  ObjectQueueDepth = 1
  TimeoutSeconds = 1
  Targets <- MCTargets
  StartResults = {"RETURN_OK", "EXECUTION_COMPLETE", "RETURN_FAILED"}
  ActionResults = {"RETURN_OK", "EXECUTION_FINISHED", "RETURN_FAILED"}
  Intermediates = {"STEP_SUCCESS", "DATA_REPLY"}
SPECIFICATION FairSpec
INVARIANTS TypeOK OneVerdict InHand StartsInOrder

PROPERTIES RepliesAreNotMixedUp EveryTelecommandEnds
CHECK_DEADLOCK FALSE
