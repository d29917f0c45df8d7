----------------------------- MODULE MCCatalog -----------------------------
(* Catalog for TLC.  The run checks liveness, so it uses no symmetry.      *)
EXTENDS Catalog, TLC
=============================================================================
