SPECIFICATION Spec
CONSTANTS
  Addr = {a, b, c}
  NoAddr = NoAddr
  Watched = a
  Entities = {light}
  MaxPending = 2
  MaxLeft = 2
INVARIANTS TypeOK PendingConsistent RetainedExplained
PROPERTIES PendingPublished WaitingPublished
