SPECIFICATION Spec
CONSTANTS
  w1 = w1
  w2 = w2
  Net <- MCNet
  Offer <- MCOffer
  None = None
  Garbage = Garbage
  MaxDrop = 0
  MaxPhone = 1
  MaxCrash = 1
  MaxFault = 1
  MaxBroker = 0
INVARIANT InfoIsThere
CHECK_DEADLOCK FALSE
