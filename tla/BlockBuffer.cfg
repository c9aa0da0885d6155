CONSTANTS
  Block = {0, 1}
  Place = {0, 1}
  Value = {0, 1}
  NoValue = NoValue
  Depth = 2
  Window = 2
SPECIFICATION Spec
INVARIANTS
  TypeOK
PROPERTIES
  ImplementsMemory
  BlockArrives
