SPECIFICATION AnySpec
CONSTANTS
  c = c
  n1 = n1
  n2 = n2
  n3 = n3
  n4 = n4
  ctlflow = ctlflow
  none = none
  nil = nil
  Nodes <- FiveNodes
  Own = c
  NoNode = none
  Nil = nil
  SrcToNeighbors = TRUE
  NeighborsToSrc = TRUE
  Flows <- OneFlow
  ControllerFlow = ctlflow
  RetransmitTime = 1
  Metrics <- TwoMetrics
  Reports <- Chain
  Askers <- Nobody
  Addresses <- Nobody
  Owners <- Target
  Ackers <- Nobody
  Energies <- Low
  Reporters <- TwoReporters
  Listed <- ThreeNodes
  Chargers <- OneCharger
  Informed <- Extremes
  Links <- Ring
  Weighed <- Unequal
  Present <- Without2
  Removed <- Second
INVARIANTS
  GraphKept
  RouteSound
  CachesTold
  RoutesArrive
  OneTargetCurrent
PROPERTY RefinesAdjacency
CHECK_DEADLOCK FALSE
