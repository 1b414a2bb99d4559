CONSTANTS
  a = a
  b = b
  ON = ON
  OFF = OFF
  UNKNOWN = UNKNOWN
  SAFE = SAFE
  OP = OP
  Child = {a, b}
  ChildMode = {OFF, ON}
  Sequence = {SAFE, OP}
  InitialMode = SAFE
  Fallback <- MCFallback
  Target <- MCTarget
  Steps <- MCSteps
  InboxDepth = 2
  OutboxDepth = 1
  Disturbances = 3
SPECIFICATION Spec
INVARIANTS TypeOK UnderstandsChildren WaitsForSomebody LeavesNoDeviation
PROPERTIES EveryTableEnds
