SPECIFICATION FairSpecFirstUnused
CONSTANTS
  c1 = c1  c2 = c2  c3 = c3  w1 = w1  w2 = w2  s1 = s1  s2 = s2  s3 = s3
  None = None
  Client = {c1, c2}
  Worker = {w1, w2}
  Socket = {s1, s2, s3}
  FileCount <- Files10
  BadDir = {}
  NoName = {}
  QueueSize = 1
  DataCap = 1
  AckCap = 4
  SpuriousWakeups = FALSE
  Interruptible = FALSE
  Stalled = {c1}
CHECK_DEADLOCK FALSE
PROPERTY EveryClientServed
