SPECIFICATION FairSpec
CONSTANTS
  w1 = w1
  w2 = w2
  Net <- MCNet
  Offer <- MCOffer
  None = None
  Garbage = Garbage
  MaxDrop = 1
  MaxPhone = 1
  MaxCrash = 1
  MaxFault = 1
  MaxBroker = 1
INVARIANTS CredentialsWhole OverMeansUp RestartsOnReconnect HeardFromTheStart
PROPERTIES ComesUp AckEnds
CHECK_DEADLOCK FALSE
