----------------------------- MODULE MCRateLimiter -----------------------------
(* TLC instances of RateLimiter: the callers are interchangeable.           *)
EXTENDS RateLimiter, TLC

Symmetry == Permutations(Callers)
================================================================================
