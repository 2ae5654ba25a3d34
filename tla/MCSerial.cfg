SPECIFICATION AllSpec
CONSTANTS
  p1 = p1
  p2 = p2
  q1 = q1
  Beacon = beacon
  IdRequest = idrequest
  Radio <- TwoRadio
  Custom <- OneCustom
  Unrouted <- Second
  SendCapacity = 2
  Room = 2
  Beacons = 1
  BeaconsMayFail = FALSE
  AnswersMayBeLost = FALSE
  Clicks = 1
  MaxRetransmit = 2
  MaxNack = 2
  Octets = {0, 94, 125, 126}
  Headers = {0, 94}
  HeaderSize = 2
  Lengths = {2}
  Damage = {"lose", "print"}
INVARIANTS
  LinkInOrder
  FramesRecover
PROPERTY SteadyEmpties
CHECK_DEADLOCK FALSE
