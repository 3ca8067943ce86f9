------------------------------ MODULE MCIPCSession ------------------------------
(* TLC instances of IPCSession. *)
EXTENDS IPCSession
================================================================================
