\* The process table: waits (here), job control and timers (ProcScenarios).
CONSTANTS
  MaxPid = 3
  Sigs = {"KILL", "CHLD"}
  Handled = {"CHLD"}
  Kinds = {"dfl", "handler"}
  Maskable = {}
  Sels <- AnyOrOwnGroup
  OptSets = {{}}
  PgidArgs = {0}
  Timers = {}
  Embedder = FALSE
  WorkerLoss = FALSE
SPECIFICATION ScenariosSpec
INVARIANTS TablesTyped ParkedWaitServed WaitsAnswerable PendingMatchesState ZombieQuiescent
PROPERTIES ExitStatusDelivered ChldBeforeReport TransitionReportedOnce
CHECK_DEADLOCK FALSE
