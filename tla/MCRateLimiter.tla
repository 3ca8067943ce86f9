----------------------------- MODULE MCRateLimiter -----------------------------
(* TLC instances of RateLimiter. *)
EXTENDS RateLimiter, TLC
Symmetry == Permutations(IPs)
================================================================================
