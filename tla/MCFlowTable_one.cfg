SPECIFICATION Spec
CONSTANTS
  fc = fc
  f1 = f1
  f2 = f2
  me = me
  n1 = n1
  n2 = n2
  TableSize = 2
  Own = me
  Hops <- Neighbors
  Keys <- DataKeys
  Rewritten <- DataRewritten
  Spared <- DataSpared
  InitialKeys <- None
  FailingHops <- Lost
PROPERTY InsertTouchesOneKey
