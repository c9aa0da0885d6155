----------------------------- MODULE MCSoftFIFO -----------------------------
(* A ring buffer of four entries, and the queue it implements.             *)
EXTENDS SoftFIFO
=============================================================================
