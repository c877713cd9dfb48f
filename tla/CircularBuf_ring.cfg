CONSTANTS
  Capacity = 8
  Width = 2
  Byte <- ByteDef
  Element <- ElementDef
  Word = 256
  Nothing = Nothing
SPECIFICATION Spec
INVARIANTS TypeOK SizeTellsEmpty RegionHolds
PROPERTIES QueueSpec
