SPECIFICATION Spec
CONSTANTS
  NetKey = {n1, n2}
  AppKey = {k1, k2}
  KEY_UNUSED = KEY_UNUSED
  NoInfo = NoInfo
  NoTid = NoTid
  TidModulus = 3
  Settings = TRUE
  StoresSet = FALSE
  MaxConfig = 5
  MaxSend = 0
  MaxCrash = 2
  MaxFault = 0
SYMMETRY Keys
INVARIANTS RestoredIsProper
CHECK_DEADLOCK FALSE
