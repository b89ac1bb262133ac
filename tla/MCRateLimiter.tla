--------------------------- MODULE MCRateLimiter ---------------------------
(* The rate limiter for TLC.                                               *)
EXTENDS RateLimiter, TLC

CONSTANTS r1, r2, r3, r4, c1, c2, c3

Symmetry == Permutations(Request) \cup Permutations(Client)

=============================================================================
