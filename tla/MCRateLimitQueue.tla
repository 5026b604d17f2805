--------------------------- MODULE MCRateLimitQueue ----------------------------
(* An instance of RateLimitQueue for TLC: two actions, two drain goroutines.    *)
EXTENDS RateLimitQueue
=============================================================================
