\* Three FPGAs: a first candidate, one that improves on it, one behind both.
CONSTANTS
  a = a
  b = b
  Null = Null
  Occupant = Occupant
  Wanted = a
  Other = b
  NumFpga = 3
  MaxSlots = 2
  NumImages = 1
  AppIds <- MCAppIds
  ImageLibrary <- MCLibrary
SPECIFICATION ScanSpec
INVARIANTS
  LoopMeetsClosedForm
\* The loop ends after the last FPGA.
CHECK_DEADLOCK FALSE
