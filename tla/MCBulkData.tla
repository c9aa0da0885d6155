----------------------------- MODULE MCBulkData -----------------------------
(* Transfers below, at and above the size of a fresh buffer, 4 for 1 MiB.  *)
EXTENDS BulkData, TLC

MCBytes    == {3, 4, 5}
MCSymmetry == Permutations(BulkSession)
=============================================================================
