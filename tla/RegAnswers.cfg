\* Two sessions after one slot, and every fault.
CONSTANTS
  a = a
  b = b
  Null = Null
  Session = {s1, s2}
  App = {a}
  Fpga <- MCFpga
  Slot <- MCOneSlot
  Image <- MCOneImage
  Addr <- MCAddr
  Value = {0}
  SlotSpan <- MCSpan
  MaxOwed = 1
  Faults = {"poke", "peek", "client", "unasked"}
SPECIFICATION FairSpec
INVARIANT RegistersOK
PROPERTY CallsAnswered
\* The daemon may be down.
CHECK_DEADLOCK FALSE
