\* Four entries of three kinds, so that an entry out of order shows.
CONSTANTS
  Data = {x, y, z}
  RingDepth = 4
SPECIFICATION RingSpec
INVARIANTS
  RingOK
  PointersAgree
PROPERTY IsQueue
