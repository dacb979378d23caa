SPECIFICATION Spec
CONSTANTS
  Devices = {d1}
  Nwk = {n1}
  NoNwk = NoNwk
  CacheSize = 2
  PendingSize = 2
INVARIANT FailureRecorded
CHECK_DEADLOCK FALSE
