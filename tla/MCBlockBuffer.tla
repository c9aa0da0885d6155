--------------------------- MODULE MCBlockBuffer ----------------------------
(* Two blocks of two sectors.                                              *)
EXTENDS BlockBuffer
=============================================================================
