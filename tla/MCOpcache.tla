------------------------------ MODULE MCOpcache ------------------------------
(***************************************************************************)
(* Instances of Opcache for TLC.  Workers are interchangeable where no     *)
(* liveness is checked.                                                    *)
(***************************************************************************)
EXTENDS Opcache, TLC

SymmetricWorkers == Permutations(Proc)

===============================================================================
