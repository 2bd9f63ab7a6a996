------------------------------ MODULE MCSemaphore ------------------------------
(* The instance of Semaphore that TLC checks.                             *)
EXTENDS Semaphore
=============================================================================
