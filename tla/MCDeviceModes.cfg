CONSTANTS
  Parent = Parent
  Ground = Ground
  ChildDelay = 1
  SwitchDelay = 2
  MaxReboot = 1
  NO_COMMAND = NO_COMMAND
SPECIFICATION Spec
INVARIANTS TypeOK SwitchFollowsMode
PROPERTIES FaultyIsLeftKnowingly ImplementsModeHolder
