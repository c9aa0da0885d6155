\* Four sessions fill the slots but one.
CONSTANTS
  a = a
  b = b
  unknown = unknown
  Null = Null
  NumFpga = 2
  MaxSlots = 2
  NumImages = 3
  AppIds <- MCAppIds
  ImageLibrary <- MCLibrary
  MaxSessions = 4
  Faults = {}
SPECIFICATION Spec
PROPERTIES
  NoNeedlessEviction
