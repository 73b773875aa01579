CONSTANTS
  parent = parent
  reader = reader
  writer = writer
  Procs = {parent, reader, writer}
  Creator = parent
  Cap = 2
  Wrap = 4
  Atomic = 1
  WriteSizes = {1}
  ReadCount = 2
  MaxBytes = 1
  Selects = {"park"}
SPECIFICATION Spec
INVARIANTS WakeNeverLost
SYMMETRY Symmetry
CHECK_DEADLOCK FALSE
