------------------------------ MODULE MCThread ------------------------------
(* The instance of Thread and Keys that TLC checks.                       *)
EXTENDS Keys
=============================================================================
