SPECIFICATION Spec
CONSTANTS
  Devices <- MCDevices
  MaxTyped = 300
  Nothing = Nothing
INVARIANTS LevelHolds StaysLit CommandUndoesReport
