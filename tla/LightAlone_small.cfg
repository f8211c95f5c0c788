SPECIFICATION Spec
CONSTANTS
  L1 = L1
  C1 = C1
  h1 = h1
  h2 = h2
  h3 = h3
  h4 = h4
  Booted = {}
  NoHandle = NoHandle
  NoValue = NoValue
  Light <- MCLight
  Client <- MCClient
  Node <- MCNode
  Subscribers <- MCSubscribers
  Handle <- MCHandle
  MaxLoss = 1
  MaxCrash = 2
  MaxFault = 1
  MaxSend = 3
INVARIANTS SettledAgree Durable HandlesBounded
PROPERTIES ReportsAreTrue ImplementsLamp
CHECK_DEADLOCK FALSE
