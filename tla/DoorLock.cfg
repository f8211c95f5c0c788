SPECIFICATION MCFairSpec
CONSTANTS
  Key <- MCKey
  Enter = "#"
  Nul = "nul"
  Secret <- MCSecret
  BufSize = 3
  QueueSize = 5
  MaxPress = 6
  Code <- MCCode
  MaxRx = 2
  Password <- MCPassword
INVARIANTS NoKeyLost EntryHeld NoFrameRefused OwnAnswer OpensForGR_Auto
PROPERTIES ImplementsLatch PublishReturns
