--------------------------- MODULE MCLockManager ---------------------------
(* LockManager for TLC.  The run checks liveness, so it uses no symmetry.  *)
EXTENDS LockManager, TLC
=============================================================================
