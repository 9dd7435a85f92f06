---------------------------- MODULE MCRateLimiter ----------------------------
(***************************************************************************)
(* Instances of RateLimiter for TLC: a limit of two or three requests and  *)
(* a window of two ticks, with as many workers as the limit.               *)
(***************************************************************************)
EXTENDS RateLimiter, TLC

SymmetricWorkers == Permutations(Workers)

===============================================================================
