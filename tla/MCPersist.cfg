SPECIFICATION BothSpec
CONSTANTS
  DataKeys = {k1, k2}
  SchemaKey = schema
  Values = {v1, v2}
  BufferSize = 2
  CountMod = 4
  Absent = Absent
  Torn = Torn
CONSTRAINT TargetBound
SYMMETRY Symmetry
INVARIANTS TypeOK ReadBack CounterExact SchemaAgrees
PROPERTIES SurvivesCrash ImplementsKeyValue
