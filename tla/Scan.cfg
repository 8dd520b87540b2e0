SPECIFICATION FairSpec
CONSTANTS
  tree = tree  d1 = d1  d2 = d2  d3 = d3  f1 = f1  f2 = f2  f3 = f3  f4 = f4  s = s
  knot = knot  d4 = d4  f5 = f5  f6 = f6  loop = loop
  bare = bare  f7 = f7  away = away  alias = alias  twice = twice  round = round
  Nowhere = Nowhere
  Roots = {tree, knot, bare}
  Node <- Nodes
  Kind <- Kinds
  Children <- Inside
  Target <- Targets
  Unstable <- Deleted
  MaxLinks = 2
  MaxOpen = 4
CHECK_DEADLOCK FALSE
INVARIANTS
  TypeOK
  ScanComplete
PROPERTY ScanEnds
