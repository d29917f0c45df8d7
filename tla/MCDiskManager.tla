--------------------------- MODULE MCDiskManager ---------------------------
(* DiskManager for TLC; the threads are interchangeable.                   *)
EXTENDS DiskManager, TLC

Symmetry == Permutations(Threads)
=============================================================================
