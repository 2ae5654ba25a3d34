SPECIFICATION AnySpec
CONSTANTS
  me = me
  peer = peer
  far = far
  fc = fc
  f1 = f1
  Broadcast = Broadcast
  None = None
  Addrs <- MCAddrs
  Flows <- MCFlows
  ControllerFlow = fc
  Node = me
  SeqMod = 2
  SendQueueSize = 2
  PoolSize = 4
  RecvQueueSize = 2
  MaxTxWindow = 1
  MaxRetransmit = 2
  KeepMax = 2
  TableSize = 2
  Heard <- HeardAll
  AppFlows <- F1
  OwnFlows <- F1
  CdHops <- Peer
  Beacons <- ND
  NeighborNews <- Some
INVARIANTS
    TypeOK
    PoolConserved
    OneWakeup
    WindowSound
    KeptHaveNoRoute
    TablesSound
PROPERTIES
    ControllerFlowKept
    KeptReachesQueue
