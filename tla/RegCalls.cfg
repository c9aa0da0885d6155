\* Two sessions of either app in two slots, each with up to two reads out.
CONSTANTS
  a = a
  b = b
  Null = Null
  Session = {s1, s2}
  App = {a, b}
  Fpga <- MCFpga
  Slot <- MCSlot
  Image <- MCImages
  Addr <- MCAddr
  Value <- MCValue
  SlotSpan <- MCSpan
  MaxOwed = 2
  Faults = {}
SPECIFICATION RSpec
INVARIANTS
  AnswersInOrder
  WritesKept
SYMMETRY MCSymmetry
