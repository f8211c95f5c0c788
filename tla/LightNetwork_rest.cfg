SPECIFICATION RestSpec
CONSTANTS
  Sw = Sw
  Gw = Gw
  Light1 = Light1
  Light3 = Light3
  Light4 = Light4
  h1 = h1
  h2 = h2
  h3 = h3
  h4 = h4
  NoHandle = NoHandle
  NoValue = NoValue
  None = None
  Switch = Sw
  Gateway = Gw
  Light <- MCSingle
  Target <- MCSingle
  Group <- MCSingle
  Booted <- MCSingle
  Node <- MCNode
  Subscribers <- MCSubscribers
  Button <- MCButton
  Command <- MCCommand
  Handle <- MCHandle
  TidModulus = 4
  MaxLoss = 0
  MaxCrash = 1
  MaxFault = 1
  MaxTap = 1
  MaxRefusal = 0
  MaxOutage = 0
  MaxCommand = 2
  MaxGet = 1
  MaxGatewayRefusal = 1
INVARIANTS DashboardTracks HomeInv
PROPERTIES ComesToRest CommandEnds ReportGoesOut
CHECK_DEADLOCK FALSE
