SPECIFICATION Spec
CONSTANTS
  QueueSize = 3
  Event = {e1, e2}
  None = None
  MaxAccepted = 4
INVARIANT NoneLost
