CONSTANTS
  direct = direct
  periodic = periodic
  mute = mute
  p1 = p1
  p2 = p2
  Command = {direct, periodic, mute}
  WithReply = {direct, periodic}
  Periodic = {periodic}
  maxDelayCycles <- MCmaxDelayCycles
  Commander = {p1, p2}
  NO_COMMANDER = NO_COMMANDER
  RAW_COMMAND_ID = RAW_COMMAND_ID
  END = END
  ReplyRange = 3
  MaxFrames = 2
  IgnoreBound = 1
SPECIFICATION Spec
INVARIANTS NothingExecutesForEver CommanderIsKept
PROPERTIES OneFinalAnswer EveryCommandIsAnswered
