SPECIFICATION PathSpec
CONSTANTS
  s1 = s1
  s2 = s2
  s3 = s3
  me = me
  l1 = l1
  l2 = l2
  zero = zero
  p1 = p1
  p2 = p2
  n1 = n1
  null = null
  Self = me
  NoSource = zero
  Sources <- FourSources
  Controller = me
  Links <- TwoLinks
  Via <- OneWay
  Size = 2
  SeqMod = 3
  MaxSent <- Few
  Gap = 2
  MayRestart = FALSE
  QueueSize = 3
  Data <- TwoPackets
  Hops <- TwoHops
  NoData = null
  NoHop = zero
  Receiving = FALSE
INVARIANTS
  RecentKept
  LinkExact
PROPERTY RefinesFifo
CHECK_DEADLOCK FALSE
