SPECIFICATION FairSpec
CONSTANTS
  me = me
  peer = peer
  fc = fc
  f1 = f1
  Broadcast = Broadcast
  None = None
  Addrs <- MCAddrs
  Flows <- MCFlows
  ControllerFlow = fc
  Sender = me
  SeqMod = 2
  SendQueueSize = 2
  PoolSize = 3
  MaxTxWindow = 2
  MaxRetransmit = 2
  Outgoing <- RequestAndForwarded
  AckedSeqs <- AllSeqs
INVARIANTS LayerTypeOK PoolShared OneDriver WindowKept RetriesBounded
PROPERTY Progress
