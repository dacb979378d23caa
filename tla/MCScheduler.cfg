SPECIFICATION Spec
CONSTANTS
  Fibre = {idle, f1, f2}
  Idle = idle
  NoFibre = NoFibre
  MaxFibres = 3
  TickMod = 8
  MaxSleep = 3
  MaxGap = 3
INVARIANT TypeOK
PROPERTIES TakeTurns SleepsEnough SleepEnds
