------------------------------ MODULE MCRwlock ------------------------------
(* The instance of Rwlock that TLC checks.                                *)
EXTENDS Rwlock
=============================================================================
