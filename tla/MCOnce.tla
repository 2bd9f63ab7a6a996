------------------------------ MODULE MCOnce ------------------------------
(* The instance of Once that TLC checks.                                  *)
EXTENDS Once
=============================================================================
