SPECIFICATION AllSpec
CONSTANTS
  n1 = n1
  n2 = n2
  n3 = n3
  n4 = n4
  Nodes <- FourNodes
  Orders <- DataOrders
  MaxOrders = 2
  AddressHop <- LineHop
  MayLose = TRUE
  None = None
  Garbage = Garbage
  MaxRoute = 3
  RetransmitTime = 2
  MayBeFull = FALSE
INVARIANTS
  OnlineIsInstalled
  ActionsAsMeant
PROPERTIES
  FinallyConfirmed
  OnwardTreated
CHECK_DEADLOCK FALSE
