\* The bridge of the default build.
CONSTANTS
  Depth = 2
  ReadWindow = 3
  MaxBeats = 8
  Extended = FALSE
SPECIFICATION Spec
INVARIANTS
  TypeOK
  PairsTogether
  ReadsInOrder
  SecondHalvesDropped
  RoomForResponses
