----------------------------- MODULE MCTxTable -----------------------------
(* TxTable for TLC; the transactions are interchangeable.                  *)
EXTENDS TxTable, TLC

Symmetry == Permutations(Txns)
=============================================================================
