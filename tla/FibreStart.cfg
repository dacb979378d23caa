SPECIFICATION Spec
CONSTANTS
  Fibre = {idle, f1}
  MaxFibres = 2
INVARIANT NoneLeftSuspended
CHECK_DEADLOCK FALSE
