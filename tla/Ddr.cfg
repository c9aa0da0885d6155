CONSTANTS
  Address = {a1, a2}
  NoRequest = NoRequest
  Depth = 2
  SlaveDepth = 2
SPECIFICATION Spec
INVARIANTS
  TypeOK
  ReadsInOrder
  CreditsMatch
PROPERTY RequestsServed
