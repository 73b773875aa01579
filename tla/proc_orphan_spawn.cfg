CONSTANTS
  MaxPid = 3
  Sigs = {"KILL", "CHLD"}
  Handled = {"CHLD"}
  Kinds = {"handler"}
  Maskable = {}
  Sels <- AnyChild
  OptSets = {{}}
  PgidArgs = {}
  Timers = {}
  Embedder = FALSE
  WorkerLoss = FALSE
SPECIFICATION Spec
INVARIANTS ZombieHasReaper
CHECK_DEADLOCK FALSE
