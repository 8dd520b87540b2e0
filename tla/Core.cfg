SPECIFICATION Spec
CONSTANTS
  c1 = c1  c2 = c2  c3 = c3  w1 = w1  w2 = w2  s1 = s1  s2 = s2  s3 = s3
  None = None
  Client = {c1, c2, c3}
  Worker = {w1, w2}
  Socket = {s1, s2}
  FileCount <- Files10
  BadDir = {c3}
  NoName = {c2}
  QueueSize = 1
  DataCap = 1
  AckCap = 2
  SpuriousWakeups = TRUE
  Interruptible = TRUE
  Stalled = {}
CHECK_DEADLOCK FALSE
SYMMETRY Symmetry
INVARIANTS
  TypeOK
  QueueBounded
  StreamInOrder
  DeleteAfterLastWrite
  EntriesWakeWorkers
  RoomWakesCommunicationThreads
  InductiveInv
  NodesHaveDistinctSockets
  SocketStillOwned
  NoWorkerInCleanUp
  ExitCutsNoFile
PROPERTY ImplementsDirectoryCopy
