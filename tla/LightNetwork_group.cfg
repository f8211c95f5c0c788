SPECIFICATION GroupSpec
CONSTANTS
  Sw = Sw
  Gw = Gw
  Light1 = Light1
  Light3 = Light3
  Light4 = Light4
  h1 = h1
  h2 = h2
  h3 = h3
  h4 = h4
  NoHandle = NoHandle
  NoValue = NoValue
  None = None
  Switch = Sw
  Gateway = Gw
  Light <- MCPair
  Target <- MCPair
  Group <- MCPair
  Booted <- MCPair
  Node <- MCNode
  Subscribers <- MCSubscribers
  Button <- MCButton
  Command <- MCUndo
  Handle <- MCHandle
  TidModulus = 4
  MaxLoss = 1
  MaxCrash = 0
  MaxFault = 0
  MaxTap = 2
  MaxRefusal = 1
  MaxOutage = 1
  MaxCommand = 1
  MaxGet = 0
  MaxGatewayRefusal = 0
INVARIANTS SwitchTracksGroup GroupAgrees
PROPERTIES AirMatchesCommand
CHECK_DEADLOCK FALSE
