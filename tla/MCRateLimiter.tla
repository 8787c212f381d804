---------------------------- MODULE MCRateLimiter ----------------------------
(* Model checking of RateLimiter; the requests are interchangeable.        *)
EXTENDS RateLimiter, TLC

Interchangeable == Permutations(Requests)

===============================================================================
