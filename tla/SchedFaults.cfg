\* Every fault: what the daemon's books promise all the same, what a waiting
\* session gets, and whom it costs a slot.
CONSTANTS
  a = a
  b = b
  unknown = unknown
  Null = Null
  NumFpga = 2
  MaxSlots = 2
  NumImages = 3
  AppIds <- MCAppIds
  ImageLibrary <- MCLibrary
  MaxSessions = 3
  Faults = {"clear", "load", "attach", "detach", "end_twice"}
SPECIFICATION Spec
INVARIANTS
  TypeOK
  BindingsAgree
  AppMatchesSlot
  SchedulingSucceeds
  SlotIsReal
PROPERTIES
  EvictionJustified
  ImplementsLease
\* The daemon may be down.
CHECK_DEADLOCK FALSE
