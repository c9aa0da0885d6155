----------------------------- MODULE MCAMI2AXI4 -----------------------------
(* FIFOs of two entries, so that each is full, empty and in between.       *)
EXTENDS AMI2AXI4
=============================================================================
