------------------------------ MODULE MCCondMonitor ------------------------------
(* The instance of CondMonitor that TLC checks.                           *)
EXTENDS CondMonitor
=============================================================================
