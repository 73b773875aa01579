CONSTANTS
  MaxPid = 3
  Sigs = {"CHLD", "STOP", "CONT"}
  Handled = {"CHLD"}
  Kinds = {"handler"}
  Maskable = {}
  Sels <- AnyChild
  OptSets = {{}}
  PgidArgs = {}
  Timers = {}
  Embedder = FALSE
  WorkerLoss = FALSE
SPECIFICATION Spec
INVARIANTS NoLostChildExit
CHECK_DEADLOCK FALSE
