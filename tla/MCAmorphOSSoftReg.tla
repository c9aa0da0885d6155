------------------------- MODULE MCAmorphOSSoftReg --------------------------
(* Four apps: a tree of arbiters in two levels.                            *)
EXTENDS AmorphOSSoftReg
=============================================================================
