---------------------------- MODULE MCBufferPool ----------------------------
(* BufferPool for TLC; threads, page ids and frames are interchangeable.   *)
EXTENDS BufferPool, TLC

Symmetry == Permutations(Threads) \cup Permutations(Pages) \cup Permutations(Frames)
=============================================================================
