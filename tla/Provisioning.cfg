SPECIFICATION FairSpec
CONSTANTS
  MaxCycle = 1
  MaxTrouble = 2
  MaxEntry = 2
  MaxRetry = 5
  Attempts = 3
  MaxNvsFault = 1
INVARIANTS NeverIdle LoopNeverWaits
PROPERTIES ErasedAfterFailures ImplementsEnrolment GetsOnLine ProvisioningEnds
CHECK_DEADLOCK FALSE
