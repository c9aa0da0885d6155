--------------------------- MODULE MCRegisterPath ---------------------------
(* One FPGA: of two slots, with an image that has both for one app and one *)
(* that shares them, or of a single slot.                                  *)
EXTENDS RegisterPath, TLC

CONSTANTS a, b

MCFpga     == {0}
MCAddr     == {8}
MCSpan     == 8192
MCValue    == {0, 1}
MCSymmetry == Permutations(Session)

MCSlot   == {0, 1}
MCImages == {(0 :> a) @@ (1 :> a), (0 :> a) @@ (1 :> b)}

MCOneSlot  == {0}
MCOneImage == {(0 :> a)}
=============================================================================
