\* The kernel objects.
CONSTANTS
  Words = {"pid", "pgid", "sid"}
  Changes <- MCChanges
  Snapshots <- MCSnapshots
  Wrap = 4
  Tries = 2
  Behind = 3
  MaxChanges = 3
  InDir = {"a", "t"}
  Outside = "x"
  Target = "t"
  DirWriters = {"h1"}
  FileWriters = {"h1", "h2"}
  QueueCap = 2
  Batch = 1
  MaxFile = 2
  MaxVersion = 2
  MaxOps = 5
  TtyProcs = {"sh", "a", "b"}
  TtyLeaders = {"sh"}
  TtyHandling = {"sh"}
  TtyIgnoring = {"b"}
  ReadCount = 2
  MaxTyped = 3
  MaxEofs = 1
  MaxMoves = 1
  Windows = {"win", "tool"}
  InputCap = 2
  CloseGrace = 3
  MaxEvents = 7
  SockServers = {"srv"}
  SockClients = {"cli"}
  SockWorkers = {"wrk"}
  MaxSocks = 3
  SockCap = 1
  SockBacklog = 1
  ShareConns = 1
  ShareBinds = 1
  QueueConns = 2
  QueueBinds = 2
SPECIFICATION ObjectsSpec
INVARIANTS ObjectsTypeOK SnapshotIsPublished SleeperIsCurrent InputOnceInOrder ReaderServed EofEndsOneRead VerdictIsRight AcceptorServed PeerCanAnswer
CHECK_DEADLOCK FALSE
