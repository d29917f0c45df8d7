---------------------------- MODULE MCTableHeap ----------------------------
(* TableHeap for TLC.  Liveness is checked, so there is no symmetry.       *)
EXTENDS TableHeap, TLC
=============================================================================
