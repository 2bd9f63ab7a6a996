----------------------------- MODULE MCFutexLock -----------------------------
(* Small instances of FutexLock: every thread may nest, race, be           *)
(* interrupted, fork and be created again.                                 *)
EXTENDS FutexLock, TLC

Symmetry == Permutations(Threads) \cup Permutations(Tids)
=============================================================================
