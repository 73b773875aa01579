\* Four services; the constants are those of the page's executions.
CONSTANTS
  Ids = {"e"}
  Streams = {"stdout", "stderr"}
  Chunk = 1
  Cap = 1
  PipeCap = 2
  MaxBytes = 1
  MaxForks = 0
  KillTicks = 1
  LeakTicks = 2
  ForgetTicks = 2
  Timeouts = {1}
  MaxLogs = 1
  MaxBoots = 2
  LongBytes = 2
  LongForks = 1
  LongKill = 2
  LongLeak = 3
  LongForget = 4
  LongTimeouts = {1, 4}
  HttpReaders = {"r1", "r2"}
  HttpCap = 2
  HttpSizes = {0, 1, 2}
  HttpBytes = 5
  HttpIdle = {TRUE, FALSE}
  Pasters = {"c1", "c2"}
  MaxHost = 2
  MaxCalls = 3
SPECIFICATION ServicesSpec
INVARIANTS ExitsAreFinal OutcomeIsFinal FreshEnough
PROPERTIES ExecutionsComplete ExecImplemented ReadersLearnOutcome GetsReturn
CHECK_DEADLOCK FALSE
