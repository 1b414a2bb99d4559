CONSTANTS
  o1 = o1
  o2 = o2
  o3 = o3
  Object = {o1}
  NTelecommands = 2
  NumberOfParallelCommands = 2
  CommandInfoFifoDepth = 1
  RequestQueueDepth = 2
  CommandQueueDepth = 2
  ObjectQueueDepth = 1
  TimeoutSeconds = 1
  Targets <- OneTarget
  StartResults = {"RETURN_OK", "RETURN_FAILED"}
  ActionResults = {"RETURN_OK"}
  Intermediates = {"STEP_SUCCESS"}
SPECIFICATION Spec
INVARIANT IteratorInMap
CHECK_DEADLOCK FALSE
