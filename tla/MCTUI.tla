--------------------------------- MODULE MCTUI ---------------------------------
(* TLC instances of TUI. *)
EXTENDS TUI
================================================================================
