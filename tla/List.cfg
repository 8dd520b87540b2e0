SPECIFICATION Spec
CONSTANTS
  s1 = s1  s2 = s2  s3 = s3  s4 = s4  a1 = a1  a2 = a2  a3 = a3  a4 = a4
  NULL = NULL  Wild = Wild  None = None
  Socket = {s1, s2, s3, s4}
  Addr = {a1, a2, a3, a4}
CHECK_DEADLOCK FALSE
SYMMETRY Symmetry
INVARIANTS
  TypeOK
  ListIntact
  LostOnlyWhenPulled
  FindsItsNode
PROPERTY ImplementsSet
