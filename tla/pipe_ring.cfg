CONSTANTS
  parent = parent
  reader = reader
  writer = writer
  Procs = {parent, reader, writer}
  Creator = parent
  Cap = 2
  Wrap = 4
  Atomic = 1
  WriteSizes = {1, 2}
  ReadCount = 2
  MaxBytes = 4
  Selects = {"poll"}
SPECIFICATION Spec
INVARIANTS StreamInOrder FastRoleIsSole FlagHasWaiter WakeNeverLost
SYMMETRY Symmetry
CHECK_DEADLOCK FALSE
