---------------------------- MODULE MCRateLimiter ----------------------------
(* Small instances of RateLimiter for TLC. *)
EXTENDS RateLimiter, TLC

\* The slots are interchangeable.
Symmetry == Permutations(Requests)
=============================================================================
