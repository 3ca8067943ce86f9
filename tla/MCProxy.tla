------------------------------- MODULE MCProxy -------------------------------
(* TLC instances of Proxy. *)
EXTENDS Proxy
================================================================================
