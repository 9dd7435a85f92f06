------------------------------ MODULE MCReviews ------------------------------
(***************************************************************************)
(* Instances of Reviews for TLC: three overlapping requests, from a        *)
(* customer, another one and an administrator.                             *)
(***************************************************************************)
EXTENDS Reviews, TLC

SymmetricRequests == Permutations(Requests)

===============================================================================
