------------------------------- MODULE MCPresence -------------------------------
(* TLC instances of Presence. *)
EXTENDS Presence, TLC
Symmetry == Permutations(Subs)
================================================================================
