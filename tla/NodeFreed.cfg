SPECIFICATION Spec
CONSTANTS
  c1 = c1  c2 = c2  c3 = c3  w1 = w1  w2 = w2  s1 = s1  s2 = s2  s3 = s3
  None = None
  Client = {c1}
  Worker = {w1, w2}
  Socket = {s1, s2}
  FileCount <- Files11
  BadDir = {}
  NoName = {}
  QueueSize = 2
  DataCap = 2
  AckCap = 3
  SpuriousWakeups = FALSE
  Interruptible = FALSE
  Stalled = {}
CHECK_DEADLOCK FALSE
INVARIANT RunsUntilInterrupted
