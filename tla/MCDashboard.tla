------------------------------- MODULE MCDashboard -------------------------------
(* TLC instances of Dashboard. *)
EXTENDS Dashboard
================================================================================
