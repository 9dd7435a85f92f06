------------------------------ MODULE MCAccounts ------------------------------
(***************************************************************************)
(* Instances of Accounts for TLC: overlapping requests of a customer who   *)
(* registers and of the administrator of the seeder.                       *)
(***************************************************************************)
EXTENDS Accounts, TLC

Alike == Permutations(Requests) \cup Permutations(Passwords)

===============================================================================
