SPECIFICATION Spec
CONSTANTS
  fc = fc
  f1 = f1
  f2 = f2
  me = me
  n1 = n1
  n2 = n2
  TableSize = 2
  Own = me
  Hops <- Neighbors
  Keys <- ControlKeys
  Rewritten <- Actions
  Spared <- None
  InitialKeys <- ControlInitial
  FailingHops <- None
INVARIANT TypeOK
PROPERTY RefinesMap
