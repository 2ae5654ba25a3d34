SPECIFICATION AllSpec
CONSTANTS
  sdn = sdn
  collect = collect
  nobody = nobody
  c = c
  n1 = n1
  n2 = n2
  n3 = n3
  n4 = n4
  nowhere = nowhere
  TableSize = 2
  UintMod = 65536
  Delta = 100
  Factor = 3
  Nodes = {n1, n2, n3}
  Controller = c
  Nowhere = nowhere
  Lifetime = 1
  Far = 255
  Users = {sdn, collect}
  Nobody = nobody
  Nesting = {collect}
  Width = 4
  MayWrap = FALSE
  MaxSends = 3
  MaySpend = TRUE
INVARIANTS
  ReportsTrue
  TableFollows
  HopsHear
PROPERTIES
  SendsReported
  RingFound
CHECK_DEADLOCK FALSE
