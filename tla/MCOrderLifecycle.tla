--------------------------- MODULE MCOrderLifecycle ---------------------------
(***************************************************************************)
(* Instances of OrderLifecycle for TLC: up to three requests that overlap, *)
(* from the customer, an administrator and somebody else.                  *)
(***************************************************************************)
EXTENDS OrderLifecycle, TLC

SymmetricRequests == Permutations(Requests)

===============================================================================
