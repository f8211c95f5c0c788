SPECIFICATION Spec
CONSTANTS
  NetKey = {n1, n2}
  AppKey = {k1, k2}
  KEY_UNUSED = KEY_UNUSED
  NoInfo = NoInfo
  NoTid = NoTid
  TidModulus = 3
  Settings = TRUE
  StoresSet = TRUE
  MaxConfig = 5
  MaxSend = 3
  MaxCrash = 2
  MaxFault = 1
SYMMETRY Keys
INVARIANTS BoundKeyKept NetKeyInUse FreshTid
CHECK_DEADLOCK FALSE
