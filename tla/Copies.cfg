CONSTANTS
  c1 = c1
  c2 = c2
  c3 = c3
  a = a
  e = e
  f = f
  g = g
  x = x
  y = y
  Client = {c1, c2, c3}
  Name <- Names
  Pid <- Pids
  PidRoom = 2
  DirName <- TwoNames
  Dirs <- Trees
  Files <- TreeFiles
  OldCopies <- Earlier
SPECIFICATION Spec
CHECK_DEADLOCK FALSE
INVARIANT TypeOK
INVARIANT CopyComplete
INVARIANT FailsOnlyInConflict
