------------------------------ MODULE MCMutex ------------------------------
(* The instance of Mutex that TLC checks.                                 *)
EXTENDS Mutex
=============================================================================
