--------------------------- MODULE MCSlotScanLoop ---------------------------
(* All pairs of slot tables of three FPGAs with two slots each.            *)
EXTENDS SlotScanLoop

CONSTANTS a, b

MCAppIds  == {a, b}
MCLibrary == [i \in {0} |-> [k \in 0 .. MaxSlots - 1 |-> a]]
=============================================================================
