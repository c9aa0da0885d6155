\* Two sessions, and reads as long as fewer than three operations wait.
CONSTANTS
  BulkSession = {s1, s2}
  Bytes <- MCBytes
  DefaultSize = 4
  MaxLog = 3
  RoundedUp = {2}
  MaxPending = 3
SPECIFICATION BulkSpec
INVARIANTS
  BulkOK
  TransferFits
  PendingMatchesBuffers
SYMMETRY MCSymmetry
