CONSTANTS
  NumApps = 4
  Enabled = {0, 1, 2, 3}
  Depth = 2
  Window = 2
SPECIFICATION Spec
INVARIANTS
  TypeOK
  NoneDropped
  ServedInTurn
