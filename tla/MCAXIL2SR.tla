----------------------------- MODULE MCAXIL2SR ------------------------------
(* FIFOs of two entries; eight beats on each channel fill each of them.      *)
EXTENDS AXIL2SR
=============================================================================
