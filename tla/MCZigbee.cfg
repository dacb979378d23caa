SPECIFICATION Spec
CONSTANTS
  Devices = {d1, d2, d3}
  Nwk = {n1, n2}
  NoNwk = NoNwk
  CacheSize = 2
  PendingSize = 2
INVARIANTS TypeOK CacheCurrent SentToOwnAddress SlotsAccounted ReadyIsAnnounced
CHECK_DEADLOCK FALSE
