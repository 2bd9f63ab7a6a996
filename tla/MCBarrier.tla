------------------------------ MODULE MCBarrier ------------------------------
(* The instance of Barrier that TLC checks.                               *)
EXTENDS Barrier
=============================================================================
