CONSTANTS
  Ids = {"e"}
  Streams = {"stdout", "stderr"}
  Chunk = 1
  Cap = 1
  PipeCap = 2
  MaxBytes = 1
  MaxForks = 0
  KillTicks = 1
  LeakTicks = 3
  ForgetTicks = 4
  Timeouts = {2}
  MaxLogs = 1
  MaxBoots = 2
SPECIFICATION PageSpec
INVARIANTS ReadyStays
CHECK_DEADLOCK FALSE
