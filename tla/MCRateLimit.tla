----------------------------- MODULE MCRateLimit -----------------------------
(* Model-checking instance of RateLimit.                                      *)
EXTENDS RateLimit, TLC

RequestSymmetry == Permutations(Requests)
=============================================================================
